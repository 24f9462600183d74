----------------------------- MODULE Scheduler -----------------------------
(***************************************************************************)
(* The M:N green-thread scheduler: worker loops over a shared injector and *)
(* work-stealing deques, the life of a green thread from spawn to consumed *)
(* result, cancellation, safepoint preemption, and every way a running     *)
(* thread gives its worker back (resolve, blocking pool, I/O poller, the   *)
(* wait list of a mutex or channel).                                       *)
(*                                                                         *)
(* A step is one critical section of TaskState, one queue operation or one *)
(* lock-free access that other OS threads can see.  A push that follows a  *)
(* critical section is part of its step: until it happens the thread is in *)
(* no queue, and nobody can tell that from its being last in one.          *)
(***************************************************************************)
EXTENDS Naturals, Sequences, FiniteSets

CONSTANTS Tasks,     \* green threads a run may create
          Workers,   \* scheduler OS threads, each with a local deque
          Main,      \* the program's entry thread, not a worker
          NoTask,    \* null
          TaskOps,   \* operations the bodies of green threads perform
          MainOps,   \* operations the entry thread performs
          Spinners,  \* tasks whose body is a loop without end
          MaxOps     \* operations a body performs before it returns

OpNames == {"spawn", "cancel", "resolve", "preempt", "block", "io", "wait"}

ASSUME ActorsDistinct == Main \notin Tasks /\ NoTask \notin Tasks \cup {Main}
ASSUME OpsKnown == TaskOps \subseteq OpNames /\ MainOps \subseteq {"spawn", "cancel", "resolve"}
ASSUME TasksFinite == IsFiniteSet(Tasks)
ASSUME BoundsNat == MaxOps \in Nat /\ Spinners \subseteq Tasks

VARIABLES
  \* TaskState, under its mutex
  status, cancelRequested, consumed, greenWaiters,
  \* scheduler-exclusive fields of GreenThread
  hasStack, onWorker,
  \* run queues
  injector, local,
  \* a worker: where it stands in worker_loop, the Arc it holds, WORKER_YIELD_REASON
  pc, cur, reason,
  \* a body: where it continues, the task it resolves, operations left
  body, target, fuel,
  \* suspending subsystems: blocking jobs, poller registrations, mutex/channel lists
  jobs, fds, waitq,
  \* clients given the outcome; process aborted by the double-scheduling guard
  takers, aborted

taskVars == <<status, cancelRequested, consumed, greenWaiters, hasStack>>
queueVars == <<injector, local>>
workerVars == <<pc, cur, reason>>
bodyVars == <<body, target, fuel>>
subsystemVars == <<jobs, fds, waitq>>
vars == <<taskVars, onWorker, queueVars, workerVars, bodyVars, subsystemVars, takers, aborted>>

Actors == Tasks \cup {Main}
Terminal == {"Ready", "Failed", "Cancelled"}
Statuses == {"unborn", "Runnable", "Running", "Suspended"} \cup Terminal
YieldReasons == {"None", "Preempted", "Completed", "Threw", "Cancelled", "WaitingOnTask", "Parked"}
WorkerPcs == {"find", "idle", "check", "claim", "exec", "out", "save", "yielded", "suspend",
              "recycle", "clear"}
BodyPcs == {"run", "wait", "consume", "parking", "registered", "deregister", "recycle", "clear"}

is_terminal(t) == status[t] \in Terminal

TypeOK ==
  /\ status \in [Tasks -> Statuses]
  /\ cancelRequested \in [Tasks -> BOOLEAN]
  /\ consumed \in [Tasks -> BOOLEAN]
  /\ greenWaiters \in [Tasks -> Seq(Tasks)]
  /\ hasStack \in [Tasks -> BOOLEAN]
  /\ onWorker \in [Tasks -> BOOLEAN]
  /\ injector \in Seq(Tasks)
  /\ local \in [Workers -> Seq(Tasks)]
  /\ pc \in [Workers -> WorkerPcs]
  /\ cur \in [Workers -> Tasks \cup {NoTask}]
  /\ reason \in [Workers -> [why : YieldReasons, on : Tasks \cup {NoTask}]]
  /\ body \in [Actors -> BodyPcs]
  /\ target \in [Actors -> Tasks \cup {NoTask}]
  /\ fuel \in [Actors -> 0..MaxOps]
  /\ jobs \subseteq Tasks
  /\ fds \subseteq Tasks
  /\ waitq \subseteq Tasks
  /\ takers \in [Tasks -> SUBSET Actors]
  /\ aborted \in BOOLEAN

Init ==
  /\ status = [t \in Tasks |-> "unborn"]
  /\ cancelRequested = [t \in Tasks |-> FALSE]
  /\ consumed = [t \in Tasks |-> FALSE]
  /\ greenWaiters = [t \in Tasks |-> <<>>]
  /\ hasStack = [t \in Tasks |-> FALSE]
  /\ onWorker = [t \in Tasks |-> FALSE]
  /\ injector = <<>>
  /\ local = [w \in Workers |-> <<>>]
  /\ pc = [w \in Workers |-> "find"]
  /\ cur = [w \in Workers |-> NoTask]
  /\ reason = [w \in Workers |-> [why |-> "None", on |-> NoTask]]
  /\ body = [a \in Actors |-> "run"]
  /\ target = [a \in Actors |-> NoTask]
  /\ fuel = [a \in Actors |-> MaxOps]
  /\ jobs = {} /\ fds = {} /\ waitq = {}
  /\ takers = [t \in Tasks |-> {}]
  /\ aborted = FALSE

-----------------------------------------------------------------------------
(* Pieces of steps *)

GoTo(w, label) == pc' = [pc EXCEPT ![w] = label]

\* The worker loop's local `arc` goes out of scope.
DropArc(w) == cur' = [cur EXCEPT ![w] = NoTask]

\* An actor executes: main always, a green thread when a worker has switched to it.
Executing(a) == \/ a = Main
                \/ \E w \in Workers : pc[w] = "exec" /\ cur[w] = a

\* The next operation of a's body is `op`.
Performs(a, op) ==
  /\ Executing(a)
  /\ body[a] = "run"
  /\ fuel[a] > 0
  /\ op \in IF a = Main THEN MainOps ELSE TaskOps
  /\ fuel' = [fuel EXCEPT ![a] = @ - 1]

\* wake_waiters(take(green_waiters)).  What follows in recycle_stack is steps of its own.
BecomeTerminal(t, outcome) ==
  /\ status' = [status EXCEPT ![t] = outcome]
  /\ greenWaiters' = [greenWaiters EXCEPT ![t] = <<>>]
  /\ injector' = injector \o greenWaiters[t]

\* Mutation of Requeue: the push comes after the Arc was moved out.
RequeueNull(t) ==
  /\ status' = [status EXCEPT ![t] = "Runnable"]
  /\ injector' = Append(injector, NoTask)

\* Make t Runnable and push it to the injector.
Requeue(t) ==
  /\ status' = [status EXCEPT ![t] = "Runnable"]
  /\ injector' = Append(injector, t)

-----------------------------------------------------------------------------
(* worker_loop *)

\* find_task 1: the front of the worker's own deque.
PopLocal(w) ==
  /\ pc[w] = "find"
  /\ local[w] # <<>>
  /\ cur' = [cur EXCEPT ![w] = Head(local[w])]
  /\ local' = [local EXCEPT ![w] = Tail(@)]
  /\ GoTo(w, "check")
  /\ UNCHANGED <<taskVars, onWorker, injector, reason, bodyVars, subsystemVars, takers, aborted>>

\* Mutation of StealBatch: the batch is copied, not moved.
StealBatchCopy(w) ==
  /\ pc[w] = "find"
  /\ local[w] = <<>>
  /\ injector # <<>>
  /\ cur' = [cur EXCEPT ![w] = Head(injector)]
  /\ \E k \in 1..Len(injector) : local' = [local EXCEPT ![w] = SubSeq(injector, 2, k)]
  /\ injector' = Tail(injector)
  /\ GoTo(w, "check")
  /\ UNCHANGED <<taskVars, onWorker, reason, bodyVars, subsystemVars, takers, aborted>>

\* find_task 2: steal_batch_and_pop takes the front and moves a batch of any
\* length behind it into the local deque.
StealBatch(w) ==
  /\ pc[w] = "find"
  /\ local[w] = <<>>
  /\ injector # <<>>
  /\ cur' = [cur EXCEPT ![w] = Head(injector)]
  /\ \E k \in 1..Len(injector) :
       /\ local' = [local EXCEPT ![w] = SubSeq(injector, 2, k)]
       /\ injector' = SubSeq(injector, k + 1, Len(injector))
  /\ GoTo(w, "check")
  /\ UNCHANGED <<taskVars, onWorker, reason, bodyVars, subsystemVars, takers, aborted>>

\* find_task 3: the front of another worker's deque.
StealFrom(w, v) ==
  /\ pc[w] = "find"
  /\ local[w] = <<>>
  /\ injector = <<>>
  /\ local[v] # <<>>
  /\ cur' = [cur EXCEPT ![w] = Head(local[v])]
  /\ local' = [local EXCEPT ![v] = Tail(@)]
  /\ GoTo(w, "check")
  /\ UNCHANGED <<taskVars, onWorker, injector, reason, bodyVars, subsystemVars, takers, aborted>>

FindNone(w) ==
  /\ pc[w] = "find"
  /\ injector = <<>>
  /\ \A v \in Workers : local[v] = <<>>
  /\ GoTo(w, "idle")
  /\ UNCHANGED <<taskVars, onWorker, queueVars, cur, reason, bodyVars, subsystemVars, takers, aborted>>

\* The idle path: poll_io pushes the threads of all ready one-shot
\* registrations as they are, then the worker parks for at most 1 ms.
poll_io(w) ==
  /\ pc[w] = "idle"
  /\ \E ready \in SUBSET fds :
       /\ fds' = fds \ ready
       /\ \E order \in [1..Cardinality(ready) -> ready] :
            /\ \A i, j \in DOMAIN order : order[i] = order[j] => i = j
            /\ injector' = injector \o order
  /\ GoTo(w, "find")
  /\ UNCHANGED <<taskVars, onWorker, local, cur, reason, bodyVars, jobs, waitq, takers, aborted>>

\* The check before running, under the state lock.
SkipTerminal(w) ==
  /\ pc[w] = "check"
  /\ is_terminal(cur[w])
  /\ DropArc(w)
  /\ GoTo(w, "find")
  /\ UNCHANGED <<taskVars, onWorker, queueVars, reason, bodyVars, subsystemVars, takers, aborted>>

CancelBeforeRun(w) ==
  /\ pc[w] = "check"
  /\ ~is_terminal(cur[w])
  /\ cancelRequested[cur[w]]
  /\ BecomeTerminal(cur[w], "Cancelled")
  /\ GoTo(w, "recycle")
  /\ UNCHANGED <<cancelRequested, consumed, hasStack, onWorker, local, cur, reason, bodyVars,
                 subsystemVars, takers, aborted>>

MarkRunning(w) ==
  /\ pc[w] = "check"
  /\ ~is_terminal(cur[w])
  /\ ~cancelRequested[cur[w]]
  /\ status' = [status EXCEPT ![cur[w]] = "Running"]
  /\ GoTo(w, "claim")
  /\ UNCHANGED <<cancelRequested, consumed, greenWaiters, hasStack, onWorker, queueVars,
                 cur, reason, bodyVars, subsystemVars, takers, aborted>>

\* Mutation of Claim: running_on_worker is stored, not compared.
ClaimStore(w) ==
  /\ pc[w] = "claim"
  /\ onWorker' = [onWorker EXCEPT ![cur[w]] = TRUE]
  /\ reason' = [reason EXCEPT ![w] = [why |-> "None", on |-> NoTask]]
  /\ GoTo(w, "exec")
  /\ UNCHANGED <<taskVars, queueVars, cur, bodyVars, subsystemVars, takers, aborted>>

\* The compare_exchange on running_on_worker: abort the process when another
\* worker has the thread, else restore its TLS state and switch to it.
Claim(w) ==
  /\ pc[w] = "claim"
  /\ IF onWorker[cur[w]]
       THEN /\ aborted' = TRUE
            /\ UNCHANGED <<onWorker, pc, reason>>
       ELSE /\ onWorker' = [onWorker EXCEPT ![cur[w]] = TRUE]
            /\ reason' = [reason EXCEPT ![w] = [why |-> "None", on |-> NoTask]]
            /\ GoTo(w, "exec")
            /\ UNCHANGED aborted
  /\ UNCHANGED <<taskVars, queueVars, cur, bodyVars, subsystemVars, takers>>

\* yield_to_scheduler: the green thread on w switches back to the worker.
YieldTo(w, why, on) ==
  /\ reason' = [reason EXCEPT ![w] = [why |-> why, on |-> on]]
  /\ GoTo(w, "out")
  /\ UNCHANGED <<taskVars, onWorker, queueVars, cur, subsystemVars, takers, aborted>>

\* Back on the worker: first running_on_worker is cleared ...
SwitchOut(w) ==
  /\ pc[w] = "out"
  /\ onWorker' = [onWorker EXCEPT ![cur[w]] = FALSE]
  /\ GoTo(w, "save")
  /\ UNCHANGED <<taskVars, queueVars, cur, reason, bodyVars, subsystemVars, takers, aborted>>

\* ... and only then the thread's TLS state is saved into its struct.
SaveThreadState(w) ==
  /\ pc[w] = "save"
  /\ GoTo(w, "yielded")
  /\ UNCHANGED <<taskVars, onWorker, queueVars, cur, reason, bodyVars, subsystemVars, takers, aborted>>

\* Mutation of HandlePreempted: the push back to the local deque is missing.
PreemptedNotPushed(w) ==
  /\ pc[w] = "yielded"
  /\ reason[w].why \in {"Preempted", "None"}
  /\ status' = [status EXCEPT ![cur[w]] = "Runnable"]
  /\ DropArc(w)
  /\ GoTo(w, "find")
  /\ UNCHANGED <<cancelRequested, consumed, greenWaiters, hasStack, onWorker, queueVars,
                 reason, bodyVars, subsystemVars, takers, aborted>>

HandlePreempted(w) ==
  /\ pc[w] = "yielded"
  /\ reason[w].why \in {"Preempted", "None"}
  /\ status' = [status EXCEPT ![cur[w]] = "Runnable"]
  /\ local' = [local EXCEPT ![w] = Append(@, cur[w])]
  /\ DropArc(w)
  /\ GoTo(w, "find")
  /\ UNCHANGED <<cancelRequested, consumed, greenWaiters, hasStack, onWorker, injector,
                 reason, bodyVars, subsystemVars, takers, aborted>>

\* Mutation of complete_thread: the body's own outcome is taken as it is.
CompleteUncancelled(w) ==
  /\ pc[w] = "yielded"
  /\ reason[w].why \in {"Completed", "Threw"}
  /\ BecomeTerminal(cur[w], IF reason[w].why = "Threw" THEN "Failed" ELSE "Ready")
  /\ GoTo(w, "recycle")
  /\ UNCHANGED <<cancelRequested, consumed, hasStack, onWorker, local, cur, reason, bodyVars,
                 subsystemVars, takers, aborted>>

\* complete_thread: an accepted cancellation overrides the body's own outcome.
complete_thread(w) ==
  /\ pc[w] = "yielded"
  /\ reason[w].why \in {"Completed", "Threw"}
  /\ BecomeTerminal(cur[w],
                    IF cancelRequested[cur[w]] THEN "Cancelled"
                    ELSE IF reason[w].why = "Threw" THEN "Failed" ELSE "Ready")
  /\ GoTo(w, "recycle")
  /\ UNCHANGED <<cancelRequested, consumed, hasStack, onWorker, local, cur, reason, bodyVars,
                 subsystemVars, takers, aborted>>

HandleCancelled(w) ==
  /\ pc[w] = "yielded"
  /\ reason[w].why = "Cancelled"
  /\ BecomeTerminal(cur[w], "Cancelled")
  /\ GoTo(w, "recycle")
  /\ UNCHANGED <<cancelRequested, consumed, hasStack, onWorker, local, cur, reason, bodyVars,
                 subsystemVars, takers, aborted>>

\* recycle_stack of the thread the worker holds.  The slot is an Option without a
\* lock: the worker looks at it in one step ...
LookAtStack(w) ==
  /\ pc[w] = "recycle"
  /\ \/ hasStack[cur[w]] /\ GoTo(w, "clear") /\ UNCHANGED cur
     \/ ~hasStack[cur[w]] /\ GoTo(w, "find") /\ DropArc(w)
  /\ UNCHANGED <<taskVars, onWorker, queueVars, reason, bodyVars, subsystemVars, takers, aborted>>

\* ... and empties it in another; the stack it saw goes to the pool.
TakeStack(w) ==
  /\ pc[w] = "clear"
  /\ hasStack' = [hasStack EXCEPT ![cur[w]] = FALSE]
  /\ DropArc(w)
  /\ GoTo(w, "find")
  /\ UNCHANGED <<status, cancelRequested, consumed, greenWaiters, onWorker, queueVars, reason,
                 bodyVars, subsystemVars, takers, aborted>>

\* WaitingOnTask, target already done: back to the worker's own deque.
RequeueWaiter(w) ==
  /\ pc[w] = "yielded"
  /\ reason[w].why = "WaitingOnTask"
  /\ is_terminal(reason[w].on)
  /\ status' = [status EXCEPT ![cur[w]] = "Runnable"]
  /\ local' = [local EXCEPT ![w] = Append(@, cur[w])]
  /\ DropArc(w)
  /\ GoTo(w, "find")
  /\ UNCHANGED <<cancelRequested, consumed, greenWaiters, hasStack, onWorker, injector,
                 reason, bodyVars, subsystemVars, takers, aborted>>

\* WaitingOnTask, target pending: enlisted under the target's lock; the waiter's
\* own status is written only after that lock is released.
EnlistWaiter(w) ==
  /\ pc[w] = "yielded"
  /\ reason[w].why = "WaitingOnTask"
  /\ ~is_terminal(reason[w].on)
  /\ greenWaiters' = [greenWaiters EXCEPT ![reason[w].on] = Append(@, cur[w])]
  /\ GoTo(w, "suspend")
  /\ UNCHANGED <<status, cancelRequested, consumed, hasStack, onWorker, queueVars,
                 cur, reason, bodyVars, subsystemVars, takers, aborted>>

\* The thread was handed to whoever will wake it before this write.
MarkSuspended(w) ==
  /\ \/ pc[w] = "suspend"
     \/ pc[w] = "yielded" /\ reason[w].why = "Parked"
  /\ status' = [status EXCEPT ![cur[w]] = "Suspended"]
  /\ DropArc(w)
  /\ GoTo(w, "find")
  /\ UNCHANGED <<cancelRequested, consumed, greenWaiters, hasStack, onWorker, queueVars,
                 reason, bodyVars, subsystemVars, takers, aborted>>

-----------------------------------------------------------------------------
(* What a body does: the runtime calls of compiled code *)

spawn_green_thread(a, t) ==
  /\ Performs(a, "spawn")
  /\ status[t] = "unborn"
  /\ Requeue(t)
  /\ hasStack' = [hasStack EXCEPT ![t] = TRUE]
  /\ UNCHANGED <<cancelRequested, consumed, greenWaiters, onWorker, local, workerVars,
                 body, target, subsystemVars, takers, aborted>>

\* a goes on to recycle t's stack.
Recycle(a, t) ==
  /\ body' = [body EXCEPT ![a] = "recycle"]
  /\ target' = [target EXCEPT ![a] = t]

\* Mutation of cancel_thread: a running target is treated like a parked one.
CancelRunning(a, t) ==
  /\ Performs(a, "cancel")
  /\ status[t] # "unborn"
  /\ cancelRequested' = [cancelRequested EXCEPT ![t] = TRUE]
  /\ BecomeTerminal(t, "Cancelled")
  /\ Recycle(a, t)
  /\ UNCHANGED <<consumed, hasStack, onWorker, local, workerVars, subsystemVars, takers, aborted>>

\* cancel_thread: immediate unless the target is running, which will see the
\* flag at a safepoint, before its next run or when it completes.
cancel_thread(a, t) ==
  /\ Performs(a, "cancel")
  /\ status[t] # "unborn"
  /\ cancelRequested' = [cancelRequested EXCEPT ![t] = TRUE]
  /\ \/ /\ status[t] = "Runnable"
        /\ BecomeTerminal(t, "Cancelled")
        /\ UNCHANGED <<body, target>>
     \/ /\ status[t] = "Suspended"
        /\ BecomeTerminal(t, "Cancelled")
        /\ Recycle(a, t)
     \/ /\ status[t] \notin {"Runnable", "Suspended"}
        /\ UNCHANGED <<status, greenWaiters, injector, body, target>>
  /\ UNCHANGED <<consumed, hasStack, onWorker, local, workerVars, subsystemVars, takers, aborted>>

\* consume_thread_result begins: wait_for_terminal.
BeginResolve(a, t) ==
  /\ Performs(a, "resolve")
  /\ status[t] # "unborn"
  /\ t # a
  /\ target' = [target EXCEPT ![a] = t]
  /\ body' = [body EXCEPT ![a] = "wait"]
  /\ UNCHANGED <<taskVars, onWorker, queueVars, workerVars, subsystemVars, takers, aborted>>

\* wait_for_terminal finds the target terminal: for main under the condition
\* variable, for a green thread at each turn of its loop.
WaitOver(a) ==
  /\ Executing(a)
  /\ body[a] = "wait"
  /\ is_terminal(target[a])
  /\ body' = [body EXCEPT ![a] = "consume"]
  /\ UNCHANGED <<taskVars, onWorker, queueVars, workerVars, target, fuel, subsystemVars, takers, aborted>>

\* A green thread whose target is pending yields, and loops when it is resumed.
YieldOnTask(w) ==
  /\ pc[w] = "exec"
  /\ body[cur[w]] = "wait"
  /\ ~is_terminal(target[cur[w]])
  /\ YieldTo(w, "WaitingOnTask", target[cur[w]])
  /\ UNCHANGED bodyVars

\* Mutation of Consume: the consumed flag is not tested.
ConsumeAgain(a) ==
  /\ Executing(a)
  /\ body[a] = "consume"
  /\ consumed' = [consumed EXCEPT ![target[a]] = TRUE]
  /\ takers' = [takers EXCEPT ![target[a]] = @ \cup {a}]
  /\ body' = [body EXCEPT ![a] = "recycle"]
  /\ UNCHANGED <<status, cancelRequested, greenWaiters, hasStack, onWorker, queueVars, workerVars,
                 target, fuel, subsystemVars, aborted>>

\* consume_thread_result under the lock: only the first caller gets the outcome,
\* and goes on to recycle the stack.
Consume(a) ==
  /\ Executing(a)
  /\ body[a] = "consume"
  /\ \/ /\ consumed[target[a]]
        /\ body' = [body EXCEPT ![a] = "run"]
        /\ UNCHANGED <<consumed, takers>>
     \/ /\ ~consumed[target[a]]
        /\ consumed' = [consumed EXCEPT ![target[a]] = TRUE]
        /\ takers' = [takers EXCEPT ![target[a]] = @ \cup {a}]
        /\ body' = [body EXCEPT ![a] = "recycle"]
  /\ UNCHANGED <<status, cancelRequested, greenWaiters, hasStack, onWorker, queueVars, workerVars,
                 target, fuel, subsystemVars, aborted>>

\* recycle_stack called by a body, in the same two steps as a worker's.
BodyLooksAtStack(a) ==
  /\ Executing(a)
  /\ body[a] = "recycle"
  /\ body' = [body EXCEPT ![a] = IF hasStack[target[a]] THEN "clear" ELSE "run"]
  /\ UNCHANGED <<taskVars, onWorker, queueVars, workerVars, target, fuel, subsystemVars, takers, aborted>>

BodyTakesStack(a) ==
  /\ Executing(a)
  /\ body[a] = "clear"
  /\ hasStack' = [hasStack EXCEPT ![target[a]] = FALSE]
  /\ body' = [body EXCEPT ![a] = "run"]
  /\ UNCHANGED <<status, cancelRequested, consumed, greenWaiters, onWorker, queueVars, workerVars,
                 target, fuel, subsystemVars, takers, aborted>>

\* safepoint: a cancellation is taken first, else the tick count may run out.
\* (A safepoint that does neither changes nothing.)
SafepointCancel(w) ==
  /\ pc[w] = "exec"
  /\ body[cur[w]] = "run"
  /\ cancelRequested[cur[w]]
  /\ YieldTo(w, "Cancelled", NoTask)
  /\ UNCHANGED bodyVars

SafepointPreempt(w) ==
  /\ pc[w] = "exec"
  /\ body[cur[w]] = "run"
  /\ ~cancelRequested[cur[w]]
  /\ \/ cur[w] \in Spinners /\ UNCHANGED fuel
     \/ cur[w] \notin Spinners /\ Performs(cur[w], "preempt")
  /\ YieldTo(w, "Preempted", NoTask)
  /\ UNCHANGED <<body, target>>

\* aster_green_thread_exit, with the error flag clear or set.
aster_green_thread_exit(w) ==
  /\ pc[w] = "exec"
  /\ body[cur[w]] = "run"
  /\ cur[w] \notin Spinners
  /\ \E why \in {"Completed", "Threw"} : YieldTo(w, why, NoTask)
  /\ UNCHANGED bodyVars

\* blocking_submit, io_wait_* and the slow path of a lock, send or receive all
\* publish the thread to a subsystem first and yield in a later step.
blocking_submit(t) ==
  /\ Performs(t, "block")
  /\ t \in Tasks
  /\ jobs' = jobs \cup {t}
  /\ body' = [body EXCEPT ![t] = "parking"]
  /\ UNCHANGED <<taskVars, onWorker, queueVars, workerVars, target, fds, waitq, takers, aborted>>

io_wait(t) ==
  /\ Performs(t, "io")
  /\ t \in Tasks
  /\ fds' = fds \cup {t}
  /\ body' = [body EXCEPT ![t] = "registered"]
  /\ UNCHANGED <<taskVars, onWorker, queueVars, workerVars, target, jobs, waitq, takers, aborted>>

EnterWaitList(t) ==
  /\ Performs(t, "wait")
  /\ t \in Tasks
  /\ waitq' = waitq \cup {t}
  /\ body' = [body EXCEPT ![t] = "parking"]
  /\ UNCHANGED <<taskVars, onWorker, queueVars, workerVars, target, jobs, fds, takers, aborted>>

YieldParked(w) ==
  /\ pc[w] = "exec"
  /\ body[cur[w]] \in {"parking", "registered"}
  /\ YieldTo(w, "Parked", NoTask)
  /\ body' = [body EXCEPT ![cur[w]] = IF @ = "parking" THEN "run" ELSE "deregister"]
  /\ UNCHANGED <<target, fuel>>

\* io_wait_* after its yield.
Deregister(w) ==
  /\ pc[w] = "exec"
  /\ body[cur[w]] = "deregister"
  /\ fds' = fds \ {cur[w]}
  /\ body' = [body EXCEPT ![cur[w]] = "run"]
  /\ UNCHANGED <<taskVars, onWorker, queueVars, workerVars, target, fuel, jobs, waitq, takers, aborted>>

-----------------------------------------------------------------------------
(* Those who wake a suspended thread *)

\* blocking_worker finishes a job: the status is written whatever it was.
BlockingDone(t) ==
  /\ t \in jobs
  /\ jobs' = jobs \ {t}
  /\ Requeue(t)
  /\ UNCHANGED <<cancelRequested, consumed, greenWaiters, hasStack, onWorker, local, workerVars,
                 bodyVars, fds, waitq, takers, aborted>>

\* wake_thread, called by an unlock, a send, a receive or a close.
wake_thread(t) ==
  /\ t \in waitq
  /\ waitq' = waitq \ {t}
  /\ IF is_terminal(t) THEN UNCHANGED <<status, injector>> ELSE Requeue(t)
  /\ UNCHANGED <<cancelRequested, consumed, greenWaiters, hasStack, onWorker, local, workerVars,
                 bodyVars, jobs, fds, takers, aborted>>

-----------------------------------------------------------------------------
WorkerLoop(w) ==
  \/ PopLocal(w)
  \/ StealBatch(w)
  \/ \E v \in Workers \ {w} : StealFrom(w, v)
  \/ FindNone(w)
  \/ poll_io(w)
  \/ SkipTerminal(w)
  \/ CancelBeforeRun(w)
  \/ MarkRunning(w)
  \/ Claim(w)
  \/ SwitchOut(w)
  \/ SaveThreadState(w)
  \/ HandlePreempted(w)
  \/ complete_thread(w)
  \/ HandleCancelled(w)
  \/ RequeueWaiter(w)
  \/ EnlistWaiter(w)
  \/ MarkSuspended(w)
  \/ LookAtStack(w)
  \/ TakeStack(w)

\* Steps of a body that leave it on its worker.
BodyStep(a) ==
  \/ \E t \in Tasks : spawn_green_thread(a, t)
  \/ \E t \in Tasks : cancel_thread(a, t)
  \/ \E t \in Tasks : BeginResolve(a, t)
  \/ WaitOver(a)
  \/ Consume(a)
  \/ BodyLooksAtStack(a)
  \/ BodyTakesStack(a)
  \/ blocking_submit(a)
  \/ io_wait(a)
  \/ EnterWaitList(a)

\* Steps in which the green thread on w gives it back, or resumes from it.
BodySwitch(w) ==
  \/ YieldOnTask(w)
  \/ SafepointCancel(w)
  \/ SafepointPreempt(w)
  \/ aster_green_thread_exit(w)
  \/ YieldParked(w)
  \/ Deregister(w)

WorkerStep(w) ==
  /\ ~aborted
  /\ \/ WorkerLoop(w)
     \/ BodySwitch(w)
     \/ cur[w] # NoTask /\ pc[w] = "exec" /\ BodyStep(cur[w])

MainStep == ~aborted /\ BodyStep(Main)

Waker == ~aborted /\ \E t \in Tasks : BlockingDone(t) \/ wake_thread(t)

Next == (\E w \in Workers : WorkerStep(w)) \/ MainStep \/ Waker

Spec == Init /\ [][Next]_vars

\* Every worker OS thread keeps running, and so does a main blocked in resolve
\* once its condition variable is signalled.
FairSpec == /\ Spec
            /\ \A w \in Workers : WF_vars(WorkerStep(w))
            /\ WF_vars(MainStep /\ body[Main] # "run")

-----------------------------------------------------------------------------
(* Properties *)

\* Between winning running_on_worker and clearing it, a worker is the only one
\* executing that green thread, in every program (the guard in worker_loop).
RunningExclusive ==
  \A v, w \in Workers :
    pc[v] \in {"exec", "out"} /\ pc[w] \in {"exec", "out"} /\ cur[v] = cur[w] => v = w

\* The outcome of a task goes to at most one resolver, in every program, even
\* when handles are shared (the consumed flag under the state mutex).
TakenOnce == \A t \in Tasks : \A a, b \in takers[t] : a = b

\* In every program, a task whose cancellation was requested while it was
\* pending never ends as a success or a failure (cancel_thread, complete_thread).
CancelWins ==
  [][\A t \in Tasks :
       cancelRequested[t] /\ status[t] \notin Terminal => status'[t] \notin {"Ready", "Failed"}]_vars

\* Where the runtime keeps a reference that can lead to t being run.
InHand(t) == {w \in Workers : cur[w] = t}
Queued(t) == {<<"injector", i>> : i \in {j \in DOMAIN injector : injector[j] = t}}
               \cup UNION {{<<w, i>> : i \in {j \in DOMAIN local[w] : local[w][j] = t}} : w \in Workers}

\* Programs whose tasks never suspend: a pending task is in exactly one deque
\* slot or on exactly one worker, so stealing and preemption neither lose nor
\* duplicate it.
OnePlace ==
  \A t \in Tasks :
    status[t] \in {"Runnable", "Running"} => Cardinality(InHand(t)) + Cardinality(Queued(t)) = 1

\* Who is about to recycle t's stack, or found it there and empties the slot next.
RecyclingWorkers(t, steps) == {w \in Workers : pc[w] \in steps /\ cur[w] = t}
RecyclingBodies(t, steps) == {a \in Actors : body[a] \in steps /\ target[a] = t}
Recycling(t, steps) == RecyclingWorkers(t, steps) # {} \/ RecyclingBodies(t, steps) # {}

\* Programs whose tasks never suspend: a thread on a worker is Running, not
\* finished by anyone else, the stack it executes on is in its slot, and nobody
\* is between deciding to recycle that stack and emptying the slot.
ExecutingOwnsStack ==
  \A w \in Workers :
    pc[w] \in {"claim", "exec", "out", "save", "yielded"}
      => /\ status[cur[w]] = "Running"
         /\ hasStack[cur[w]]
         /\ ~Recycling(cur[w], {"recycle", "clear"})

\* "Only the single worker currently executing this green thread may access" the
\* stack slot (thread.rs): at most one finds the stack there and puts it in the pool.
StackTakenOnce ==
  \A t \in Tasks :
    Cardinality(RecyclingWorkers(t, {"clear"})) + Cardinality(RecyclingBodies(t, {"clear"})) <= 1

\* scheduler.rs aborts with "FATAL: double-scheduling detected" when a worker
\* picks up a thread that another has not let go of.
NoDoubleScheduling == ~aborted

\* A resolve by the entry thread returns.
MainResolveReturns == body[Main] = "wait" ~> body[Main] = "run"

\* Every spawned task is eventually run on some worker, whatever the others do.
EverySpawnedRuns ==
  \A t \in Tasks : status[t] = "Runnable" ~> status[t] \notin {"unborn", "Runnable"}

\* The task life cycle: non-suspending programs implement TaskLifecycle, its
\* fairness included: tasks end once, cancellation wins, one taker.
Lifecycle == INSTANCE TaskLifecycle WITH
  Clients <- Actors,
  phase <- [t \in Tasks |-> IF status[t] \in Terminal \cup {"unborn"} THEN status[t] ELSE "pending"],
  requested <- cancelRequested

ImplementsLifecycle == Lifecycle!Spec
=============================================================================
