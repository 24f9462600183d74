----------------------------- MODULE AsyncScope -----------------------------
(***************************************************************************)
(* Task handles and the scope every function body opens for the tasks it   *)
(* spawns: spawn and registration, resolve, resolve_all, resolve_first,    *)
(* cancel, wait_cancel, block_on, and the scope exit that cancels, waits   *)
(* for and frees what is left, with the strong count of every GreenThread. *)
(*                                                                         *)
(* The scheduler is reduced to what these see of it: a task is in a run    *)
(* queue, on a worker, in some wait list, waiting for another task, or     *)
(* nowhere; whoever holds it there holds one reference.  A worker that let *)
(* go of a suspending task still has to write its status, and until then   *)
(* holds one more.  Scheduler has the steps in between.                    *)
(***************************************************************************)
EXTENDS Integers, FiniteSets

CONSTANTS NumTasks,   \* green threads a run may create, allocated in order
          Main,       \* the entry function, on the program's own OS thread
          NoTask,     \* null
          Passing,    \* whether a spawn may hand handles to the new task
          WaitLists,  \* which of the runtime's lists a task may park in
          MainOps,    \* runtime calls main makes before its scope exit
          TaskOps     \* runtime calls a task's body makes before its own

Tasks == 1..NumTasks
Actors == Tasks \cup {Main}

\* Waiters of mutexes and channels, jobs of the blocking pool, the poller.
Lists == {"parked", "job", "fd"}

ASSUME WaitListsKnown == WaitLists \subseteq Lists
ASSUME NamesDistinct == Main \notin Tasks /\ NoTask \notin Tasks
ASSUME BoundsNat == NumTasks \in Nat /\ MainOps \in Nat /\ TaskOps \in Nat /\ Passing \in BOOLEAN

VARIABLES
  \* GreenThread: state under its mutex, and the strong count of its Arc
  status, cancelRequested, consumed, strong,
  \* where the runtime keeps a reference to a task, for whom it waits, and how
  \* many workers let go of it and still have to write that it is Suspended
  place, waitOn, late,
  \* a function body: where it stands, the handle in use, what the wait is
  \* for, the handles still to do, the handles it holds, operations left
  pc, target, goal, todo, knows, fuel,
  \* AsyncScopeHandle: whether it is allocated, and its list of tasks
  scope, tasks,
  \* history: whose body spawned a task, who was given its outcome, and whether
  \* a task was run, ended or revived that some worker had not yet done with
  parent, takers, overtaken

threadVars == <<status, cancelRequested, consumed, strong, place, waitOn, late>>
bodyVars == <<pc, target, goal, todo, knows, fuel>>
historyVars == <<parent, takers, overtaken>>
vars == <<threadVars, bodyVars, scope, tasks, historyVars>>

Terminal == {"Ready", "Failed", "Cancelled"}
Statuses == {"unborn", "Runnable", "Running", "Suspended"} \cup Terminal
Goals == {"resolve", "all", "blockOn", "waitCancel", "exit"}
ExitPcs == {"exitCancel", "exitWait", "exitFree"}
BodyPcs == {"enter", "run", "register", "scan", "losers", "wait", "consume", "return", "done"} \cup ExitPcs


is_terminal(t) == status[t] \in Terminal
Born == {t \in Tasks : status[t] # "unborn"}

TypeOK ==
  /\ status \in [Tasks -> Statuses]
  /\ cancelRequested \in [Tasks -> BOOLEAN]
  /\ consumed \in [Tasks -> BOOLEAN]
  /\ strong \in [Tasks -> Nat]
  /\ place \in [Tasks -> {"none", "queue", "worker", "asks", "waiting"} \cup Lists]
  /\ waitOn \in [Tasks -> Tasks \cup {NoTask}]
  /\ late \in [Tasks -> Nat]
  /\ pc \in [Actors -> BodyPcs]
  /\ target \in [Actors -> Tasks \cup {NoTask}]
  /\ goal \in [Actors -> Goals]
  /\ todo \in [Actors -> SUBSET Tasks]
  /\ knows \in [Actors -> SUBSET Tasks]
  /\ fuel \in [Actors -> Nat]
  /\ scope \in [Actors -> {"none", "open", "freed"}]
  /\ tasks \in [Actors -> SUBSET Tasks]
  /\ parent \in [Tasks -> Actors \cup {NoTask}]
  /\ takers \in [Tasks -> SUBSET Actors]
  /\ overtaken \in BOOLEAN

Init ==
  /\ status = [t \in Tasks |-> "unborn"]
  /\ cancelRequested = [t \in Tasks |-> FALSE]
  /\ consumed = [t \in Tasks |-> FALSE]
  /\ strong = [t \in Tasks |-> 0]
  /\ place = [t \in Tasks |-> "none"]
  /\ waitOn = [t \in Tasks |-> NoTask]
  /\ late = [t \in Tasks |-> 0]
  /\ pc = [a \in Actors |-> "enter"]
  /\ target = [a \in Actors |-> NoTask]
  /\ goal = [a \in Actors |-> "resolve"]
  /\ todo = [a \in Actors |-> {}]
  /\ knows = [a \in Actors |-> {}]
  /\ fuel = [a \in Actors |-> IF a = Main THEN MainOps ELSE TaskOps]
  /\ scope = [a \in Actors |-> "none"]
  /\ tasks = [a \in Actors |-> {}]
  /\ parent = [t \in Tasks |-> NoTask]
  /\ takers = [t \in Tasks |-> {}]
  /\ overtaken = FALSE

-----------------------------------------------------------------------------
(* Pieces of steps *)

\* The body of a is executing: main always, a task while it is on a worker.
Executing(a) == a = Main \/ (a \in Tasks /\ place[a] = "worker")

At(a, label) == Executing(a) /\ pc[a] = label
GoTo(a, label) == pc' = [pc EXCEPT ![a] = label]

\* a makes its next runtime call.
Calls(a) ==
  /\ At(a, "run")
  /\ fuel[a] > 0
  /\ fuel' = [fuel EXCEPT ![a] = @ - 1]

\* wake_waiters(take(green_waiters)) of t, as a value of `place`.
WaitersQueued(t) ==
  [u \in Tasks |-> IF place[u] = "waiting" /\ waitOn[u] = t THEN "queue" ELSE place[u]]

\* t leaves its worker or queue for good: one reference is dropped.
EndsAs(t, outcome) ==
  /\ status' = [status EXCEPT ![t] = outcome]
  /\ place' = [WaitersQueued(t) EXCEPT ![t] = "none"]
  /\ strong' = [strong EXCEPT ![t] = @ - 1]

\* History: something is done to t that a worker has not yet done with.
Overtakes(t) == overtaken' = (overtaken \/ late[t] > 0)

\* cancel_thread: at once unless t is running, which sees the flag later.  The
\* reference held by t's queue or wait list stays until it is taken off there.
cancel_thread(t) ==
  /\ cancelRequested' = [cancelRequested EXCEPT ![t] = TRUE]
  /\ IF status[t] \in {"Runnable", "Suspended"}
       THEN /\ status' = [status EXCEPT ![t] = "Cancelled"]
            /\ place' = WaitersQueued(t)
            /\ Overtakes(t)
       ELSE UNCHANGED <<status, place, overtaken>>
  /\ UNCHANGED <<late, parent, takers>>

-----------------------------------------------------------------------------
(* The scheduler *)

\* A worker takes t from a queue: skip it when it is over, end it when it was
\* cancelled meanwhile, else run it.
Dispatch(t) ==
  /\ place[t] = "queue"
  /\ \/ /\ is_terminal(t)
        /\ EndsAs(t, status[t])
     \/ /\ ~is_terminal(t)
        /\ cancelRequested[t]
        /\ EndsAs(t, "Cancelled")
     \/ /\ ~is_terminal(t)
        /\ ~cancelRequested[t]
        /\ status' = [status EXCEPT ![t] = "Running"]
        /\ place' = [place EXCEPT ![t] = "worker"]
        /\ UNCHANGED strong
  /\ Overtakes(t)
  /\ UNCHANGED <<cancelRequested, consumed, waitOn, late, bodyVars, scope, tasks, parent, takers>>

\* A safepoint of a running task, in its own code or between the rounds of a
\* resolve_first: a cancellation ends it there, else it may be preempted.
safepoint(t) ==
  /\ \/ At(t, "run") \/ At(t, "scan")
  /\ \/ /\ cancelRequested[t]
        /\ EndsAs(t, "Cancelled")
        /\ UNCHANGED fuel
     \/ /\ ~cancelRequested[t]
        /\ fuel[t] > 0
        /\ fuel' = [fuel EXCEPT ![t] = @ - 1]
        /\ status' = [status EXCEPT ![t] = "Runnable"]
        /\ place' = [place EXCEPT ![t] = "queue"]
        /\ UNCHANGED strong
  /\ UNCHANGED <<cancelRequested, consumed, waitOn, late, pc, target, goal, todo, knows, scope, tasks, historyVars>>

\* t publishes itself in a wait list, without a look at its cancellation flag,
\* and switches off its worker: it is still Running, and can be woken already.
Park(t, list) ==
  /\ t \in Tasks
  /\ Calls(t)
  /\ place' = [place EXCEPT ![t] = list]
  /\ late' = [late EXCEPT ![t] = @ + 1]
  /\ strong' = [strong EXCEPT ![t] = @ + 1]
  /\ UNCHANGED <<status, cancelRequested, consumed, waitOn, pc, target, goal, todo, knows,
                 scope, tasks, historyVars>>

\* The worker t left writes its status, whatever has become of t meanwhile, and
\* drops the reference it had.
MarkSuspended(t) ==
  /\ late[t] > 0
  /\ late' = [late EXCEPT ![t] = @ - 1]
  /\ status' = [status EXCEPT ![t] = "Suspended"]
  /\ strong' = [strong EXCEPT ![t] = @ - 1]
  /\ UNCHANGED <<cancelRequested, consumed, place, waitOn, bodyVars, scope, tasks, historyVars>>

\* The mutex or channel wakes t, and leaves it as it is when it is over.
wake_thread(t) ==
  /\ place[t] = "parked"
  /\ place' = [place EXCEPT ![t] = IF is_terminal(t) THEN "none" ELSE "queue"]
  /\ status' = [status EXCEPT ![t] = IF is_terminal(t) THEN @ ELSE "Runnable"]
  /\ strong' = [strong EXCEPT ![t] = IF is_terminal(t) THEN @ - 1 ELSE @]
  /\ UNCHANGED <<cancelRequested, consumed, waitOn, late, bodyVars, scope, tasks, historyVars>>

\* The blocking pool has done t's job: t is Runnable, even when it was over.
worker_run(t) ==
  /\ place[t] = "job"
  /\ place' = [place EXCEPT ![t] = "queue"]
  /\ status' = [status EXCEPT ![t] = "Runnable"]
  /\ overtaken' = (overtaken \/ is_terminal(t))
  /\ UNCHANGED <<cancelRequested, consumed, strong, waitOn, late, bodyVars, scope, tasks, parent, takers>>

\* The file descriptor is ready: t is queued with the status it has.
poll_io(t) ==
  /\ place[t] = "fd"
  /\ place' = [place EXCEPT ![t] = "queue"]
  /\ UNCHANGED <<status, cancelRequested, consumed, strong, waitOn, late, bodyVars, scope, tasks, historyVars>>

-----------------------------------------------------------------------------
(* Runtime calls of a body *)

aster_async_scope_enter(a) ==
  /\ At(a, "enter")
  /\ scope' = [scope EXCEPT ![a] = "open"]
  /\ GoTo(a, "run")
  /\ UNCHANGED <<threadVars, target, goal, todo, knows, fuel, tasks, historyVars>>

\* spawn_green_thread: one reference in the injector, one for the caller.  The
\* arguments may hold handles the spawner has.
spawn_green_thread(a, t, args) ==
  /\ Calls(a)
  /\ t = 1 + Cardinality(Born)
  /\ args \subseteq (IF Passing THEN knows[a] ELSE {})
  /\ status' = [status EXCEPT ![t] = "Runnable"]
  /\ place' = [place EXCEPT ![t] = "queue"]
  /\ strong' = [strong EXCEPT ![t] = 2]
  /\ parent' = [parent EXCEPT ![t] = a]
  /\ target' = [target EXCEPT ![a] = t]
  /\ knows' = [knows EXCEPT ![t] = args]
  /\ UNCHANGED <<cancelRequested, consumed, waitOn, late, todo, scope, tasks, takers, overtaken>>

\* aster_task_spawn: the task is in the injector before its scope knows it.
aster_task_spawn(a, t, args) ==
  /\ spawn_green_thread(a, t, args)
  /\ GoTo(a, "register")
  /\ UNCHANGED goal

\* Mutation of register_task_with_scope: the scope's own reference is not counted.
RegisterUncounted(a) ==
  /\ At(a, "register")
  /\ tasks' = [tasks EXCEPT ![a] = @ \cup {target[a]}]
  /\ knows' = [knows EXCEPT ![a] = @ \cup {target[a]}]
  /\ GoTo(a, "run")
  /\ UNCHANGED <<threadVars, target, goal, todo, fuel, scope, historyVars>>

register_task_with_scope(a) ==
  /\ At(a, "register")
  /\ strong' = [strong EXCEPT ![target[a]] = @ + 1]
  /\ tasks' = [tasks EXCEPT ![a] = @ \cup {target[a]}]
  /\ knows' = [knows EXCEPT ![a] = @ \cup {target[a]}]
  /\ GoTo(a, "run")
  /\ UNCHANGED <<status, cancelRequested, consumed, place, waitOn, late, target, goal, todo, fuel,
                 scope, historyVars>>

\* aster_task_block_on: a task without a scope, resolved at once by its spawner.
aster_task_block_on(a, t, args) ==
  /\ spawn_green_thread(a, t, args)
  /\ goal' = [goal EXCEPT ![a] = "blockOn"]
  /\ GoTo(a, "wait")

aster_task_cancel(a, t) ==
  /\ Calls(a)
  /\ t \in knows[a]
  /\ cancel_thread(t)
  /\ UNCHANGED <<consumed, strong, waitOn, pc, target, goal, todo, knows, scope, tasks>>

aster_task_wait_cancel(a, t) ==
  /\ Calls(a)
  /\ t \in knows[a]
  /\ cancel_thread(t)
  /\ target' = [target EXCEPT ![a] = t]
  /\ goal' = [goal EXCEPT ![a] = "waitCancel"]
  /\ GoTo(a, "wait")
  /\ UNCHANGED <<consumed, strong, waitOn, todo, knows, scope, tasks>>

aster_task_resolve(a, t) ==
  /\ Calls(a)
  /\ t \in knows[a]
  /\ target' = [target EXCEPT ![a] = t]
  /\ goal' = [goal EXCEPT ![a] = "resolve"]
  /\ GoTo(a, "wait")
  /\ UNCHANGED <<threadVars, todo, knows, scope, tasks, historyVars>>

\* aster_task_resolve_all: the handles one by one, in the order of the list.
aster_task_resolve_all(a) ==
  /\ Calls(a)
  /\ \E list \in SUBSET knows[a] : \E first \in list :
       /\ target' = [target EXCEPT ![a] = first]
       /\ todo' = [todo EXCEPT ![a] = list \ {first}]
  /\ goal' = [goal EXCEPT ![a] = "all"]
  /\ GoTo(a, "wait")
  /\ UNCHANGED <<threadVars, knows, scope, tasks, historyVars>>

\* aster_task_resolve_first: rounds over the list until one is ready, ...
aster_task_resolve_first(a) ==
  /\ Calls(a)
  /\ \E list \in SUBSET knows[a] \ {{}} : todo' = [todo EXCEPT ![a] = list]
  /\ GoTo(a, "scan")
  /\ UNCHANGED <<threadVars, target, goal, knows, scope, tasks, historyVars>>

FirstReady(a, winner) ==
  /\ At(a, "scan")
  /\ winner \in todo[a]
  /\ is_terminal(winner)
  /\ target' = [target EXCEPT ![a] = winner]
  /\ todo' = [todo EXCEPT ![a] = @ \ {winner}]
  /\ GoTo(a, "losers")
  /\ UNCHANGED <<threadVars, goal, knows, fuel, scope, tasks, historyVars>>

\* ... then every other one is cancelled, and the winner resolved.
CancelLoser(a, t) ==
  /\ At(a, "losers")
  /\ t \in todo[a]
  /\ cancel_thread(t)
  /\ todo' = [todo EXCEPT ![a] = @ \ {t}]
  /\ UNCHANGED <<consumed, strong, waitOn, pc, target, goal, knows, fuel, scope, tasks>>

ResolveWinner(a) ==
  /\ At(a, "losers")
  /\ todo[a] = {}
  /\ goal' = [goal EXCEPT ![a] = "resolve"]
  /\ GoTo(a, "wait")
  /\ UNCHANGED <<threadVars, target, todo, knows, fuel, scope, tasks, historyVars>>

\* wait_for_terminal of a task whose target is pending: off its stack, ...
\* (Main blocks in its condition variable.)
YieldOnTask(t) ==
  /\ \/ At(t, "wait")
     \/ At(t, "exitWait") /\ target[t] # NoTask
  /\ t \in Tasks
  /\ ~is_terminal(target[t])
  /\ place' = [place EXCEPT ![t] = "asks"]
  /\ waitOn' = [waitOn EXCEPT ![t] = target[t]]
  /\ UNCHANGED <<status, cancelRequested, consumed, strong, late, bodyVars, scope, tasks, historyVars>>

\* ... and the worker asks again: back into its queue when the target is over
\* by now, ...
RequeueWaiter(t) ==
  /\ place[t] = "asks"
  /\ is_terminal(waitOn[t])
  /\ place' = [place EXCEPT ![t] = "queue"]
  /\ status' = [status EXCEPT ![t] = "Runnable"]
  /\ UNCHANGED <<cancelRequested, consumed, strong, waitOn, late, bodyVars, scope, tasks, historyVars>>

\* ... else onto the target's green_waiters, before the status is written.
EnlistWaiter(t) ==
  /\ place[t] = "asks"
  /\ ~is_terminal(waitOn[t])
  /\ place' = [place EXCEPT ![t] = "waiting"]
  /\ late' = [late EXCEPT ![t] = @ + 1]
  /\ strong' = [strong EXCEPT ![t] = @ + 1]
  /\ UNCHANGED <<status, cancelRequested, consumed, waitOn, bodyVars, scope, tasks, historyVars>>

WaitOver(a) ==
  /\ At(a, "wait")
  /\ is_terminal(target[a])
  /\ GoTo(a, IF goal[a] = "waitCancel" THEN "run" ELSE "consume")
  /\ UNCHANGED <<threadVars, target, goal, todo, knows, fuel, scope, tasks, historyVars>>

\* Mutation of consume_thread_result: a consumed task is given out again.
ConsumeAgain(a) ==
  /\ At(a, "consume")
  /\ LET t == target[a] IN
       /\ consumed' = [consumed EXCEPT ![t] = TRUE]
       /\ takers' = [takers EXCEPT ![t] = @ \cup {a}]
       /\ strong' = [strong EXCEPT ![t] = @ - 1]
  /\ todo' = [todo EXCEPT ![a] = {}]
  /\ GoTo(a, "run")
  /\ UNCHANGED <<status, cancelRequested, place, waitOn, late, target, goal, knows, fuel, scope, tasks,
                 parent, overtaken>>

\* The rest of consume_thread_result: the first caller gets the outcome and
\* drops the handle's reference, a later one gets an error and drops nothing.
\* resolve_all goes on while there is no error.
consume_thread_result(a) ==
  /\ At(a, "consume")
  /\ LET t == target[a]
         failed == consumed[t] \/ status[t] # "Ready"
     IN /\ consumed' = [consumed EXCEPT ![t] = TRUE]
        /\ takers' = [takers EXCEPT ![t] = IF consumed[t] THEN @ ELSE @ \cup {a}]
        /\ strong' = [strong EXCEPT ![t] = IF consumed[t] THEN @ ELSE @ - 1]
        /\ \/ /\ goal[a] = "all" /\ todo[a] # {} /\ ~failed
              /\ \E next \in todo[a] : /\ target' = [target EXCEPT ![a] = next]
                                       /\ todo' = [todo EXCEPT ![a] = @ \ {next}]
              /\ GoTo(a, "wait")
           \/ /\ goal[a] # "all" \/ todo[a] = {} \/ failed
              /\ todo' = [todo EXCEPT ![a] = {}]
              /\ GoTo(a, "run")
              /\ UNCHANGED target
  /\ UNCHANGED <<status, cancelRequested, place, waitOn, late, goal, knows, fuel, scope, tasks,
                 parent, overtaken>>

-----------------------------------------------------------------------------
(* aster_async_scope_exit, on every way out of a body: return or throw *)

ScopeExit(a) ==
  /\ At(a, "run")
  /\ todo' = [todo EXCEPT ![a] = tasks[a]]
  /\ GoTo(a, "exitCancel")
  /\ UNCHANGED <<threadVars, target, goal, knows, fuel, scope, tasks, historyVars>>

\* Pass 1: cancel each.
ExitCancel(a) ==
  /\ At(a, "exitCancel")
  /\ \/ \E t \in todo[a] :
          /\ cancel_thread(t)
          /\ todo' = [todo EXCEPT ![a] = @ \ {t}]
          /\ UNCHANGED <<pc, target>>
     \/ /\ todo[a] = {}
        /\ todo' = [todo EXCEPT ![a] = tasks[a]]
        /\ target' = [target EXCEPT ![a] = NoTask]
        /\ GoTo(a, "exitWait")
        /\ UNCHANGED <<status, cancelRequested, place, late, historyVars>>
  /\ UNCHANGED <<consumed, strong, waitOn, goal, knows, fuel, scope, tasks>>

\* Mutation of ExitWait: pass 2 only cancels once more.
ExitNoWait(a) ==
  /\ At(a, "exitWait")
  /\ todo' = [todo EXCEPT ![a] = tasks[a]]
  /\ GoTo(a, "exitFree")
  /\ UNCHANGED <<threadVars, target, goal, knows, fuel, scope, tasks, historyVars>>

\* Pass 2: wait_cancel_thread each, that is cancel it again, then wait.
ExitWait(a) ==
  /\ At(a, "exitWait")
  /\ \/ \E t \in todo[a] :
          /\ target[a] = NoTask
          /\ cancel_thread(t)
          /\ target' = [target EXCEPT ![a] = t]
          /\ UNCHANGED <<todo, pc>>
     \/ /\ target[a] # NoTask
        /\ is_terminal(target[a])
        /\ todo' = [todo EXCEPT ![a] = @ \ {target[a]}]
        /\ target' = [target EXCEPT ![a] = NoTask]
        /\ UNCHANGED <<status, cancelRequested, place, late, pc, historyVars>>
     \/ /\ target[a] = NoTask /\ todo[a] = {}
        /\ todo' = [todo EXCEPT ![a] = tasks[a]]
        /\ GoTo(a, "exitFree")
        /\ UNCHANGED <<status, cancelRequested, place, late, target, historyVars>>
  /\ UNCHANGED <<consumed, strong, waitOn, goal, knows, fuel, scope, tasks>>

\* Pass 3: drop the scope's reference to each; at last the scope itself.
free_scoped_thread(a) ==
  /\ At(a, "exitFree")
  /\ \/ \E t \in todo[a] :
          /\ strong' = [strong EXCEPT ![t] = @ - 1]
          /\ todo' = [todo EXCEPT ![a] = @ \ {t}]
          /\ UNCHANGED <<pc, scope>>
     \/ /\ todo[a] = {}
        /\ scope' = [scope EXCEPT ![a] = "freed"]
        /\ GoTo(a, "return")
        /\ UNCHANGED <<strong, todo>>
  /\ UNCHANGED <<status, cancelRequested, consumed, place, waitOn, late, target, goal, knows, fuel,
                 tasks, historyVars>>

\* The body is over: complete_thread, or main returns.
Return(a) ==
  /\ At(a, "return")
  /\ GoTo(a, "done")
  /\ IF a = Main
       THEN UNCHANGED <<status, place, strong>>
       ELSE \E outcome \in IF cancelRequested[a] THEN {"Cancelled"} ELSE {"Ready", "Failed"} :
              EndsAs(a, outcome)
  /\ UNCHANGED <<cancelRequested, consumed, waitOn, late, target, goal, todo, knows, fuel, scope, tasks,
                 historyVars>>

-----------------------------------------------------------------------------
Step(a) ==
  \/ aster_async_scope_enter(a)
  \/ \E t \in Tasks, args \in SUBSET Tasks : aster_task_spawn(a, t, args) \/ aster_task_block_on(a, t, args)
  \/ register_task_with_scope(a)
  \/ \E t \in Tasks : aster_task_cancel(a, t) \/ aster_task_wait_cancel(a, t) \/ aster_task_resolve(a, t)
  \/ aster_task_resolve_all(a)
  \/ aster_task_resolve_first(a)
  \/ \E t \in Tasks : FirstReady(a, t) \/ CancelLoser(a, t)
  \/ ResolveWinner(a)
  \/ WaitOver(a)
  \/ consume_thread_result(a)
  \/ ScopeExit(a) \/ ExitCancel(a) \/ ExitWait(a) \/ free_scoped_thread(a)
  \/ Return(a)

TaskStep(t) == Step(t) \/ safepoint(t) \/ (\E list \in WaitLists : Park(t, list)) \/ YieldOnTask(t)

\* What a worker does to the task it takes or was left by.
WorkerStep(t) == Dispatch(t) \/ MarkSuspended(t) \/ RequeueWaiter(t) \/ EnlistWaiter(t)

\* What the list a task is parked in does; nothing makes it happen.
Wake(t) == wake_thread(t) \/ worker_run(t) \/ poll_io(t)

\* What goes on without anybody who wakes a task.
GoesOn == Step(Main) \/ \E t \in Tasks : TaskStep(t) \/ WorkerStep(t)

Next ==
  \/ Step(Main)
  \/ \E t \in Tasks : TaskStep(t) \/ WorkerStep(t) \/ Wake(t)

Spec == Init /\ [][Next]_vars

-----------------------------------------------------------------------------
(* Properties *)

\* The scope's reference to t, from registration to pass 3 of its exit.
HeldByScope(t) ==
  \E a \in Actors : /\ t \in tasks[a]
                    /\ scope[a] = "open"
                    /\ pc[a] = "exitFree" => t \in todo[a]

One(b) == IF b THEN 1 ELSE 0

\* The strong count is the number of those who will drop a reference: the
\* handle until it is consumed, the queue, worker or wait list that has the
\* task, the workers that still have to write its status, the scope it is
\* registered with.  So a struct is freed neither early nor twice, although
\* spawn, resolve, suspension and scope exit count by hand.
CountMatchesHolders ==
  \A t \in Born :
    strong[t] = One(~consumed[t]) + One(place[t] # "none") + late[t] + One(HeldByScope(t))

Over(a) == IF a = Main THEN pc[a] = "done" ELSE is_terminal(a)

\* None of these functions is over, and with each the set has the one above it.
Unbroken(line) == \A a \in line : ~Over(a) /\ (a # Main => parent[a] \in line)

\* While all the functions above it are running, a function can use every
\* handle it was given or created: nobody's resolve or scope exit has freed it,
\* not even when several tasks resolve, cancel and wait for the same one; as long
\* as no task was overtaken.
HandlesAlive ==
  ~overtaken => \A line \in SUBSET ({Main} \cup Born) : Unbroken(line) =>
    \A a \in line : pc[a] \notin ExitPcs \cup {"return"} =>
      \A t \in knows[a] \cup (IF pc[a] \in {"register", "wait", "consume"} THEN {target[a]} ELSE {}) :
        strong[t] > 0

\* t has its outcome, and no worker runs it or will touch it again.
Ended(t) == is_terminal(t) /\ place[t] # "worker" /\ late[t] = 0

\* Once a scope exit is over, every task ever registered with the scope has
\* ended: as long as no task was taken up, cancelled or revived before the
\* worker it left had written that it is suspended.
NoTaskOutlivesScope ==
  ~overtaken => \A a \in Actors : scope[a] = "freed" => \A t \in tasks[a] : Ended(t)

\* green-threads.mdx: when a scope exits, the runtime waits for all its tasks to
\* reach a terminal state.  Not so: a worker may write Suspended over it.
ScopeWaitsForAll ==
  \A a \in Actors : scope[a] = "freed" => \A t \in tasks[a] : is_terminal(t)


\* green-threads.mdx: structured concurrency leaves no orphans, so a task with
\* an outcome has no child that still runs.
NoOrphans ==
  \A t \in Born : parent[t] \in Tasks /\ is_terminal(parent[t]) => is_terminal(t)

\* Handles and scopes keep the life cycle Scheduler was shown to implement.
Lifecycle == INSTANCE TaskLifecycle WITH
  Clients <- Actors,
  phase <- [t \in Tasks |-> IF status[t] \in Terminal \cup {"unborn"} THEN status[t] ELSE "pending"],
  requested <- cancelRequested

\* As long as no task was overtaken.
ImplementsLifecycle ==
  Lifecycle!Init /\ [][~overtaken' => [Lifecycle!Next]_(Lifecycle!vars)]_vars
=============================================================================
