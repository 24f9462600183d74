-------------------------- MODULE SchedulerProofs --------------------------
(***************************************************************************)
(* What is proved of the scheduler for any tasks, workers and bounds: type *)
(* correctness, that no green thread executes on two workers, that a       *)
(* result is taken once, and that an accepted cancellation wins.           *)
(***************************************************************************)
EXTENDS Scheduler, FiniteSetTheorems, TLAPS

\* A worker beyond find_task holds the Arc of a task.
HoldsTask == \A w \in Workers : pc[w] \notin {"find", "idle"} => cur[w] \in Tasks

TypeInv == TypeOK /\ HoldsTask

\* A function on an initial segment is a sequence.
LEMMA FunctionIsSeq ==
  ASSUME NEW S, NEW n \in Nat, NEW f \in [1..n -> S]
  PROVE  f \in Seq(S)
OBVIOUS

\* Adding a member at one argument of a set-valued function.
LEMMA AddMemberType ==
  ASSUME NEW S, NEW T, NEW f \in [S -> SUBSET T], NEW x, NEW e \in T
  PROVE  [f EXCEPT ![x] = @ \cup {e}] \in [S -> SUBSET T]
<1>1. CASE x \in S
  <2>1. f[x] \cup {e} \in SUBSET T
    BY <1>1
  <2> QED
    BY <1>1, <2>1
<1>2. CASE x \notin S
  BY <1>2
<1> QED
  BY <1>1, <1>2

\* The arithmetic of fuel, once for all operations.
LEMMA PerformsType ==
  ASSUME TypeInv, NEW a \in Actors, NEW op, Performs(a, op)
  PROVE  fuel' \in [Actors -> 0..MaxOps]
<1>1. fuel[a] \in 0..MaxOps /\ fuel[a] > 0
  BY DEF TypeInv, TypeOK, Performs
<1>2. fuel[a] - 1 \in 0..MaxOps
  BY <1>1, BoundsNat
<1> QED
  BY <1>2 DEF TypeInv, TypeOK, Performs

LEMMA TypeInit == Init => TypeInv
<1> SUFFICES ASSUME Init PROVE TypeInv
  OBVIOUS
<1>1. TypeOK
  <2>1. /\ status \in [Tasks -> Statuses]
        /\ cancelRequested \in [Tasks -> BOOLEAN] /\ consumed \in [Tasks -> BOOLEAN]
        /\ hasStack \in [Tasks -> BOOLEAN] /\ onWorker \in [Tasks -> BOOLEAN]
        /\ pc \in [Workers -> WorkerPcs] /\ cur \in [Workers -> Tasks \cup {NoTask}]
    BY DEF Init, Statuses, WorkerPcs
  <2>2. /\ greenWaiters \in [Tasks -> Seq(Tasks)]
        /\ injector \in Seq(Tasks) /\ local \in [Workers -> Seq(Tasks)]
    BY DEF Init
  <2>3. reason \in [Workers -> [why : YieldReasons, on : Tasks \cup {NoTask}]]
    BY DEF Init, YieldReasons
  <2>4. /\ body \in [Actors -> BodyPcs] /\ target \in [Actors -> Tasks \cup {NoTask}]
        /\ takers \in [Tasks -> SUBSET Actors]
    BY DEF Init, BodyPcs
  <2>5. fuel \in [Actors -> 0..MaxOps]
    BY BoundsNat DEF Init
  <2>6. jobs \subseteq Tasks /\ fds \subseteq Tasks /\ waitq \subseteq Tasks /\ aborted \in BOOLEAN
    BY DEF Init
  <2> QED
    BY <2>1, <2>2, <2>3, <2>4, <2>5, <2>6 DEF TypeOK
<1>2. HoldsTask
  BY DEF Init, HoldsTask
<1> QED
  BY <1>1, <1>2 DEF TypeInv

\* Ending a task keeps the types of what it writes.
LEMMA BecomeTerminalType ==
  ASSUME TypeInv, NEW t \in Tasks, NEW outcome \in Terminal,
         BecomeTerminal(t, outcome)
  PROVE  /\ status' \in [Tasks -> Statuses]
         /\ greenWaiters' \in [Tasks -> Seq(Tasks)]
         /\ injector' \in Seq(Tasks)
BY DEF TypeInv, TypeOK, BecomeTerminal, Statuses

LEMMA RequeueType ==
  ASSUME TypeInv, NEW t \in Tasks, Requeue(t)
  PROVE  status' \in [Tasks -> Statuses] /\ injector' \in Seq(Tasks)
BY DEF TypeInv, TypeOK, Requeue, Statuses

\* find_task, all four ways of it, and the idle path.
LEMMA FindType ==
  ASSUME TypeInv, NEW w \in Workers,
         \/ PopLocal(w) \/ StealBatch(w) \/ (\E v \in Workers \ {w} : StealFrom(w, v))
         \/ FindNone(w) \/ poll_io(w)
  PROVE  TypeInv'
<1> USE DEF TypeInv, TypeOK, HoldsTask, GoTo, WorkerPcs, vars, taskVars, queueVars,
            workerVars, bodyVars, subsystemVars
<1>1. CASE PopLocal(w)
  BY <1>1 DEF PopLocal
<1>2. CASE StealBatch(w)
  <2>1. injector \in Seq(Tasks) /\ injector # <<>>
    BY <1>2 DEF StealBatch
  <2>2. Head(injector) \in Tasks
    BY <2>1
  <2>3. PICK k \in 1..Len(injector) : /\ local' = [local EXCEPT ![w] = SubSeq(injector, 2, k)]
                                      /\ injector' = SubSeq(injector, k + 1, Len(injector))
    BY <1>2 DEF StealBatch
  <2>4. SubSeq(injector, 2, k) \in Seq(Tasks)
    BY <2>1, <2>3, SMTT(30)
  <2>5. SubSeq(injector, k + 1, Len(injector)) \in Seq(Tasks)
    BY <2>1, <2>3, SMTT(30)
  <2>6. local' \in [Workers -> Seq(Tasks)] /\ injector' \in Seq(Tasks)
    BY <2>3, <2>4, <2>5, SMTT(30)
  <2>7. /\ cur' \in [Workers -> Tasks \cup {NoTask}]
        /\ pc' \in [Workers -> WorkerPcs]
        /\ HoldsTask'
    BY <1>2, <2>2, SMTT(30) DEF StealBatch
  <2> QED
    BY <1>2, <2>6, <2>7, SMTT(30) DEF StealBatch
<1>3. CASE \E v \in Workers \ {w} : StealFrom(w, v)
  BY <1>3 DEF StealFrom
<1>4. CASE FindNone(w)
  BY <1>4 DEF FindNone
<1>5. CASE poll_io(w)
  <2>1. PICK ready \in SUBSET fds :
          /\ fds' = fds \ ready
          /\ \E order \in [1..Cardinality(ready) -> ready] :
               /\ \A i, j \in DOMAIN order : order[i] = order[j] => i = j
               /\ injector' = injector \o order
    BY <1>5 DEF poll_io
  <2>2. PICK order \in [1..Cardinality(ready) -> ready] : injector' = injector \o order
    BY <2>1
  <2>3. Cardinality(ready) \in Nat
    BY TasksFinite, FS_Subset, FS_CardinalityType
  <2>4. order \in Seq(Tasks)
    <3>1. order \in [1..Cardinality(ready) -> Tasks]
      BY <2>2
    <3> QED
      BY <2>3, <3>1, FunctionIsSeq
  <2>5. injector' \in Seq(Tasks)
    BY <2>2, <2>4
  <2>6. fds' \subseteq Tasks
    BY <2>1
  <2>7. pc' \in [Workers -> WorkerPcs] /\ (\A v \in Workers : v # w => pc'[v] = pc[v]) /\ pc'[w] = "find"
    BY <1>5 DEF poll_io
  <2>8. UNCHANGED <<taskVars, onWorker, local, cur, reason, bodyVars, jobs, waitq, takers, aborted>>
    BY <1>5 DEF poll_io
  <2>9. TypeOK'
    BY <2>5, <2>6, <2>7, <2>8
  <2>10. HoldsTask'
    BY <2>7, <2>8
  <2> QED
    BY <2>9, <2>10
<1> QED
  BY <1>1, <1>2, <1>3, <1>4, <1>5

\* From the check before running to the save after the switch back.
LEMMA RunType ==
  ASSUME TypeInv, NEW w \in Workers,
         \/ SkipTerminal(w) \/ CancelBeforeRun(w) \/ MarkRunning(w) \/ Claim(w)
         \/ SwitchOut(w) \/ SaveThreadState(w)
  PROVE  TypeInv'
<1> USE DEF TypeInv, TypeOK, HoldsTask, GoTo, DropArc, WorkerPcs, vars, taskVars, queueVars,
            workerVars, bodyVars, subsystemVars
<1>1. CASE SkipTerminal(w)
  BY <1>1 DEF SkipTerminal
<1>2. CASE CancelBeforeRun(w)
  <2>1. cur[w] \in Tasks /\ BecomeTerminal(cur[w], "Cancelled")
    BY <1>2 DEF CancelBeforeRun
  <2>2. /\ status' \in [Tasks -> Statuses] /\ greenWaiters' \in [Tasks -> Seq(Tasks)]
        /\ injector' \in Seq(Tasks)
    BY <2>1, BecomeTerminalType DEF Terminal
  <2> QED
    BY <1>2, <2>2 DEF CancelBeforeRun
<1>3. CASE MarkRunning(w)
  BY <1>3 DEF MarkRunning, Statuses
<1>4. CASE Claim(w)
  <2>1. onWorker' \in [Tasks -> BOOLEAN] /\ aborted' \in BOOLEAN
    BY <1>4 DEF Claim
  <2>2. pc' \in [Workers -> WorkerPcs] /\ (pc' = pc \/ pc' = [pc EXCEPT ![w] = "exec"])
    BY <1>4 DEF Claim
  <2>3. [why |-> "None", on |-> NoTask] \in [why : YieldReasons, on : Tasks \cup {NoTask}]
    BY DEF YieldReasons
  <2>4. reason' \in [Workers -> [why : YieldReasons, on : Tasks \cup {NoTask}]]
    BY <1>4, <2>3 DEF Claim
  <2>5. UNCHANGED <<taskVars, queueVars, cur, bodyVars, subsystemVars, takers>> /\ cur[w] \in Tasks
    BY <1>4 DEF Claim
  <2> QED
    BY <2>1, <2>2, <2>4, <2>5
<1>5. CASE SwitchOut(w)
  BY <1>5 DEF SwitchOut
<1>6. CASE SaveThreadState(w)
  BY <1>6 DEF SaveThreadState
<1> QED
  BY <1>1, <1>2, <1>3, <1>4, <1>5, <1>6

\* What the worker does with the reason of the yield.
LEMMA YieldedType ==
  ASSUME TypeInv, NEW w \in Workers,
         \/ HandlePreempted(w) \/ complete_thread(w) \/ HandleCancelled(w)
         \/ RequeueWaiter(w) \/ EnlistWaiter(w) \/ MarkSuspended(w)
         \/ LookAtStack(w) \/ TakeStack(w)
  PROVE  TypeInv'
<1> USE DEF TypeInv, TypeOK, HoldsTask, GoTo, DropArc, WorkerPcs, vars, taskVars, queueVars,
            workerVars, bodyVars, subsystemVars
<1>1. CASE HandlePreempted(w)
  <2>1. cur[w] \in Tasks /\ local[w] \in Seq(Tasks)
    BY <1>1 DEF HandlePreempted
  <2>2. Append(local[w], cur[w]) \in Seq(Tasks)
    BY <2>1
  <2>3. local' \in [Workers -> Seq(Tasks)]
    BY <1>1, <2>2 DEF HandlePreempted
  <2>4. status' \in [Tasks -> Statuses]
    BY <1>1, <2>1 DEF HandlePreempted, Statuses
  <2> QED
    BY <1>1, <2>3, <2>4 DEF HandlePreempted
<1>2. CASE complete_thread(w)
  <2>1. PICK outcome \in Terminal : BecomeTerminal(cur[w], outcome)
    BY <1>2 DEF complete_thread, Terminal
  <2>2. cur[w] \in Tasks
    BY <1>2 DEF complete_thread
  <2>3. /\ status' \in [Tasks -> Statuses] /\ greenWaiters' \in [Tasks -> Seq(Tasks)]
        /\ injector' \in Seq(Tasks)
    BY <2>1, <2>2, BecomeTerminalType
  <2> QED
    BY <1>2, <2>3 DEF complete_thread
<1>3. CASE HandleCancelled(w)
  <2>1. cur[w] \in Tasks /\ BecomeTerminal(cur[w], "Cancelled")
    BY <1>3 DEF HandleCancelled
  <2>2. /\ status' \in [Tasks -> Statuses] /\ greenWaiters' \in [Tasks -> Seq(Tasks)]
        /\ injector' \in Seq(Tasks)
    BY <2>1, BecomeTerminalType DEF Terminal
  <2> QED
    BY <1>3, <2>2 DEF HandleCancelled
<1>4. CASE RequeueWaiter(w)
  <2>1. cur[w] \in Tasks /\ local[w] \in Seq(Tasks)
    BY <1>4 DEF RequeueWaiter
  <2>2. Append(local[w], cur[w]) \in Seq(Tasks)
    BY <2>1
  <2>3. local' \in [Workers -> Seq(Tasks)]
    BY <1>4, <2>2 DEF RequeueWaiter
  <2>4. status' \in [Tasks -> Statuses]
    BY <1>4, <2>1 DEF RequeueWaiter, Statuses
  <2> QED
    BY <1>4, <2>3, <2>4 DEF RequeueWaiter
<1>5. CASE EnlistWaiter(w)
  <2>1. cur[w] \in Tasks
    BY <1>5 DEF EnlistWaiter
  <2>2. \A t \in Tasks : Append(greenWaiters[t], cur[w]) \in Seq(Tasks)
    BY <2>1
  <2>3. greenWaiters' \in [Tasks -> Seq(Tasks)]
    BY <1>5, <2>2 DEF EnlistWaiter
  <2> QED
    BY <1>5, <2>1, <2>3 DEF EnlistWaiter
<1>6. CASE MarkSuspended(w)
  BY <1>6 DEF MarkSuspended, Statuses
<1>7. CASE LookAtStack(w)
  BY <1>7 DEF LookAtStack
<1>8. CASE TakeStack(w)
  BY <1>8 DEF TakeStack
<1> QED
  BY <1>1, <1>2, <1>3, <1>4, <1>5, <1>6, <1>7, <1>8

\* The steps in which a body gives its worker back, or resumes from it.
LEMMA SwitchType ==
  ASSUME TypeInv, NEW w \in Workers, BodySwitch(w)
  PROVE  TypeInv'
<1> USE DEF TypeInv, TypeOK, HoldsTask, GoTo, YieldTo, WorkerPcs, YieldReasons, BodyPcs, vars,
            taskVars, queueVars, workerVars, bodyVars, subsystemVars
<1>1. CASE YieldOnTask(w)
  <2>1. cur[w] \in Actors /\ target[cur[w]] \in Tasks \cup {NoTask}
    BY <1>1 DEF YieldOnTask, Actors
  <2> QED
    BY <1>1, <2>1 DEF YieldOnTask
<1>2. CASE SafepointCancel(w)
  BY <1>2 DEF SafepointCancel
<1>3. CASE SafepointPreempt(w)
  <2>1. cur[w] \in Actors
    BY <1>3 DEF SafepointPreempt, Actors
  <2>2. fuel' \in [Actors -> 0..MaxOps]
    BY <1>3, <2>1, PerformsType DEF SafepointPreempt
  <2> QED
    BY <1>3, <2>2 DEF SafepointPreempt
<1>4. CASE aster_green_thread_exit(w)
  BY <1>4 DEF aster_green_thread_exit
<1>5. CASE YieldParked(w)
  BY <1>5 DEF YieldParked
<1>6. CASE Deregister(w)
  BY <1>6 DEF Deregister
<1> QED
  BY <1>1, <1>2, <1>3, <1>4, <1>5, <1>6 DEF BodySwitch

\* The runtime calls of a body, and those who wake a thread.
LEMMA BodyType ==
  ASSUME TypeInv, NEW a \in Actors, BodyStep(a)
  PROVE  TypeInv'
<1> USE DEF TypeInv, TypeOK, HoldsTask, BodyPcs, vars, taskVars, queueVars, workerVars,
            bodyVars, subsystemVars
<1>1. CASE \E t \in Tasks : spawn_green_thread(a, t)
  <2>1. PICK t \in Tasks : spawn_green_thread(a, t)
    BY <1>1
  <2>2. fuel' \in [Actors -> 0..MaxOps]
    BY <2>1, PerformsType DEF spawn_green_thread
  <2>3. status' \in [Tasks -> Statuses] /\ injector' \in Seq(Tasks)
    BY <2>1, RequeueType DEF spawn_green_thread
  <2> QED
    BY <2>1, <2>2, <2>3 DEF spawn_green_thread
<1>2. CASE \E t \in Tasks : cancel_thread(a, t)
  <2>1. PICK t \in Tasks : cancel_thread(a, t)
    BY <1>2
  <2>2. fuel' \in [Actors -> 0..MaxOps]
    BY <2>1, PerformsType DEF cancel_thread
  <2>3. /\ status' \in [Tasks -> Statuses] /\ greenWaiters' \in [Tasks -> Seq(Tasks)]
        /\ injector' \in Seq(Tasks)
    <3>1. CASE UNCHANGED <<status, greenWaiters, injector>>
      BY <3>1
    <3>2. CASE BecomeTerminal(t, "Cancelled")
      BY <3>2, BecomeTerminalType DEF Terminal
    <3> QED
      BY <2>1, <3>1, <3>2 DEF cancel_thread
  <2>4. body' \in [Actors -> BodyPcs] /\ target' \in [Actors -> Tasks \cup {NoTask}]
    <3>1. CASE UNCHANGED <<body, target>>
      BY <3>1
    <3>2. CASE Recycle(a, t)
      BY <3>2 DEF Recycle
    <3> QED
      BY <2>1, <3>1, <3>2 DEF cancel_thread
  <2> QED
    BY <2>1, <2>2, <2>3, <2>4 DEF cancel_thread
<1>3. CASE \E t \in Tasks : BeginResolve(a, t)
  <2>1. PICK t \in Tasks : BeginResolve(a, t)
    BY <1>3
  <2>2. fuel' \in [Actors -> 0..MaxOps]
    BY <2>1, PerformsType DEF BeginResolve
  <2> QED
    BY <2>1, <2>2 DEF BeginResolve
<1>4. CASE WaitOver(a)
  BY <1>4 DEF WaitOver
<1>5. CASE Consume(a)
  <2>1. consumed' \in [Tasks -> BOOLEAN]
    BY <1>5 DEF Consume
  <2>2. takers' \in [Tasks -> SUBSET Actors]
    <3>1. takers' = takers \/ takers' = [takers EXCEPT ![target[a]] = @ \cup {a}]
      BY <1>5 DEF Consume
    <3>2. takers \in [Tasks -> SUBSET Actors]
      OBVIOUS
    <3>3. [takers EXCEPT ![target[a]] = @ \cup {a}] \in [Tasks -> SUBSET Actors]
      BY <3>2, AddMemberType, ZenonT(30)
    <3> QED
      BY <3>1, <3>2, <3>3
  <2>3. body' \in [Actors -> BodyPcs]
    BY <1>5 DEF Consume
  <2> QED
    BY <1>5, <2>1, <2>2, <2>3 DEF Consume
<1>6. CASE blocking_submit(a)
  <2>1. fuel' \in [Actors -> 0..MaxOps]
    BY <1>6, PerformsType DEF blocking_submit
  <2> QED
    BY <1>6, <2>1 DEF blocking_submit
<1>7. CASE io_wait(a)
  <2>1. fuel' \in [Actors -> 0..MaxOps]
    BY <1>7, PerformsType DEF io_wait
  <2> QED
    BY <1>7, <2>1 DEF io_wait
<1>8. CASE EnterWaitList(a)
  <2>1. fuel' \in [Actors -> 0..MaxOps]
    BY <1>8, PerformsType DEF EnterWaitList
  <2> QED
    BY <1>8, <2>1 DEF EnterWaitList
<1>9. CASE BodyLooksAtStack(a)
  BY <1>9 DEF BodyLooksAtStack
<1>10. CASE BodyTakesStack(a)
  BY <1>10 DEF BodyTakesStack
<1> QED
  BY <1>1, <1>2, <1>3, <1>4, <1>5, <1>6, <1>7, <1>8, <1>9, <1>10 DEF BodyStep

LEMMA WakerType ==
  ASSUME TypeInv, Waker
  PROVE  TypeInv'
<1>1. PICK t \in Tasks : BlockingDone(t) \/ wake_thread(t)
  BY DEF Waker
<1>2. status' \in [Tasks -> Statuses] /\ injector' \in Seq(Tasks)
  <2>1. CASE Requeue(t)
    BY <2>1, RequeueType
  <2>2. CASE UNCHANGED <<status, injector>>
    BY <2>2 DEF TypeInv, TypeOK
  <2> QED
    BY <1>1, <2>1, <2>2 DEF BlockingDone, wake_thread
<1> QED
  BY <1>1, <1>2 DEF BlockingDone, wake_thread, TypeInv, TypeOK, HoldsTask, workerVars, bodyVars

\* Every disjunct of the next-state relation keeps the types.
LEMMA TypeNext == TypeInv /\ [Next]_vars => TypeInv'
<1> SUFFICES ASSUME TypeInv, [Next]_vars PROVE TypeInv'
  OBVIOUS
<1>1. ASSUME NEW w \in Workers, WorkerStep(w) PROVE TypeInv'
  <2>1. CASE WorkerLoop(w)
    BY <2>1, FindType, RunType, YieldedType DEF WorkerLoop
  <2>2. CASE BodySwitch(w)
    BY <2>2, SwitchType
  <2>3. CASE cur[w] # NoTask /\ BodyStep(cur[w])
    <3>1. cur[w] \in Actors
      BY <2>3 DEF TypeInv, TypeOK, Actors
    <3> QED
      BY <2>3, <3>1, BodyType
  <2> QED
    BY <1>1, <2>1, <2>2, <2>3 DEF WorkerStep
<1>2. CASE MainStep
  BY <1>2, BodyType DEF MainStep, Actors
<1>3. CASE Waker
  BY <1>3, WakerType
<1>4. CASE UNCHANGED vars
  BY <1>4 DEF TypeInv, TypeOK, HoldsTask, vars, taskVars, queueVars, workerVars, bodyVars,
              subsystemVars
<1> QED
  BY <1>1, <1>2, <1>3, <1>4 DEF Next

LEMMA TypeInvariant == Spec => []TypeInv
BY TypeInit, TypeNext, PTL DEF Spec

\* Type correctness of the scheduler (TaskState, the worker loop, the queues and
\* the suspending subsystems), for any program and any number of workers.
THEOREM TypeCorrect == Spec => []TypeOK
<1>1. TypeInv => TypeOK
  BY DEF TypeInv
<1> QED
  BY <1>1, TypeInvariant, PTL

-----------------------------------------------------------------------------
(* Exclusive execution *)

Executes(w) == pc[w] \in {"exec", "out"}

\* The flag running_on_worker is set as long as somebody executes the thread: what
\* makes the compare_exchange of Claim an exclusive claim.
FlagHeld == \A w \in Workers : Executes(w) => onWorker[cur[w]]

ExecInv == FlagHeld /\ RunningExclusive

\* A step that takes w out of execution, or keeps it out, and leaves the flags alone.
LEMMA StayOut ==
  ASSUME TypeInv, ExecInv, NEW w \in Workers, UNCHANGED onWorker,
         pc' \in [Workers -> WorkerPcs], ~Executes(w)',
         \A v \in Workers \ {w} : pc'[v] = pc[v] /\ cur'[v] = cur[v]
  PROVE  ExecInv'
<1>1. \A v \in Workers : Executes(v)' => v # w /\ Executes(v) /\ cur'[v] = cur[v]
  BY DEF Executes
<1>2. FlagHeld'
  BY <1>1 DEF ExecInv, FlagHeld
<1>3. RunningExclusive'
  BY <1>1 DEF ExecInv, RunningExclusive, Executes
<1> QED
  BY <1>2, <1>3 DEF ExecInv

LEMMA ExecLoop ==
  ASSUME TypeInv, ExecInv, NEW w \in Workers, WorkerLoop(w)
  PROVE  ExecInv'
<1> USE DEF GoTo, DropArc, Executes, taskVars, queueVars, workerVars, bodyVars, subsystemVars
<1>t. pc \in [Workers -> WorkerPcs] /\ cur \in [Workers -> Tasks \cup {NoTask}]
  BY DEF TypeInv, TypeOK
<1>1. CASE Claim(w)
  <2>1. CASE onWorker[cur[w]]
    BY <1>1, <2>1 DEF Claim, ExecInv, FlagHeld, RunningExclusive
  <2>2. CASE ~onWorker[cur[w]]
    <3>1. /\ pc' = [pc EXCEPT ![w] = "exec"] /\ cur' = cur
          /\ onWorker' = [onWorker EXCEPT ![cur[w]] = TRUE]
      BY <1>1, <2>2 DEF Claim
    <3>2. cur[w] \in Tasks /\ onWorker \in [Tasks -> BOOLEAN]
      BY <1>1 DEF Claim, TypeInv, TypeOK, HoldsTask
    <3>3. \A v \in Workers : Executes(v) => cur[v] # cur[w]
      BY <2>2 DEF ExecInv, FlagHeld
    <3> QED
      BY <1>t, <3>1, <3>2, <3>3 DEF ExecInv, FlagHeld, RunningExclusive, TypeInv, HoldsTask
  <2> QED
    BY <2>1, <2>2
<1>2. CASE SwitchOut(w)
  <2>1. /\ pc[w] = "out" /\ pc' = [pc EXCEPT ![w] = "save"] /\ cur' = cur
        /\ onWorker' = [onWorker EXCEPT ![cur[w]] = FALSE]
    BY <1>2 DEF SwitchOut
  <2>2. cur[w] \in Tasks /\ onWorker \in [Tasks -> BOOLEAN]
    BY <2>1 DEF TypeInv, TypeOK, HoldsTask
  <2>3. \A v \in Workers \ {w} : Executes(v) => cur[v] # cur[w]
    BY <2>1 DEF ExecInv, RunningExclusive
  <2> QED
    BY <1>t, <2>1, <2>2, <2>3 DEF ExecInv, FlagHeld, RunningExclusive, TypeInv, HoldsTask
<1>3. ASSUME \/ PopLocal(w) \/ StealBatch(w) \/ (\E v \in Workers \ {w} : StealFrom(w, v))
             \/ FindNone(w) \/ poll_io(w) \/ SkipTerminal(w) \/ CancelBeforeRun(w)
             \/ MarkRunning(w) \/ SaveThreadState(w) \/ HandlePreempted(w)
             \/ complete_thread(w) \/ HandleCancelled(w) \/ RequeueWaiter(w)
             \/ EnlistWaiter(w) \/ MarkSuspended(w) \/ LookAtStack(w) \/ TakeStack(w)
      PROVE  ExecInv'
  <2>1. UNCHANGED onWorker
    BY <1>3 DEF PopLocal, StealBatch, StealFrom, FindNone, poll_io, SkipTerminal,
      CancelBeforeRun, MarkRunning, SaveThreadState, HandlePreempted, complete_thread,
      HandleCancelled, RequeueWaiter, EnlistWaiter, MarkSuspended, LookAtStack, TakeStack
  <2>2. \E label \in WorkerPcs \ {"exec", "out"} : pc' = [pc EXCEPT ![w] = label]
    BY <1>3 DEF PopLocal, StealBatch, StealFrom, FindNone, poll_io, SkipTerminal,
      CancelBeforeRun, MarkRunning, SaveThreadState, HandlePreempted, complete_thread,
      HandleCancelled, RequeueWaiter, EnlistWaiter, MarkSuspended, LookAtStack, TakeStack, WorkerPcs
  <2>3. \E held : cur' = [cur EXCEPT ![w] = held] \/ cur' = cur
    BY <1>3 DEF PopLocal, StealBatch, StealFrom, FindNone, poll_io, SkipTerminal,
      CancelBeforeRun, MarkRunning, SaveThreadState, HandlePreempted, complete_thread,
      HandleCancelled, RequeueWaiter, EnlistWaiter, MarkSuspended, LookAtStack, TakeStack
  <2>4. pc' \in [Workers -> WorkerPcs] /\ ~Executes(w)'
    BY <1>t, <2>2
  <2>5. \A v \in Workers \ {w} : pc'[v] = pc[v] /\ cur'[v] = cur[v]
    BY <1>t, <2>2, <2>3
  <2> QED
    BY <2>1, <2>4, <2>5, StayOut
<1> QED
  BY <1>1, <1>2, <1>3 DEF WorkerLoop

\* A yield keeps the thread's claim; the worker gives it up only in SwitchOut.
LEMMA ExecSwitch ==
  ASSUME TypeInv, ExecInv, NEW w \in Workers, BodySwitch(w)
  PROVE  ExecInv'
<1>1. /\ UNCHANGED <<cur, onWorker>> /\ pc[w] = "exec"
      /\ pc' = pc \/ pc' = [pc EXCEPT ![w] = "out"]
  BY DEF BodySwitch, YieldOnTask, SafepointCancel, SafepointPreempt, aster_green_thread_exit,
         YieldParked, Deregister, YieldTo, GoTo, workerVars
<1> QED
  BY <1>1 DEF TypeInv, TypeOK, ExecInv, FlagHeld, RunningExclusive, Executes

LEMMA ExecNext == TypeInv /\ ExecInv /\ [Next]_vars => ExecInv'
<1> SUFFICES ASSUME TypeInv, ExecInv, [Next]_vars PROVE ExecInv'
  OBVIOUS
<1>1. CASE UNCHANGED <<workerVars, onWorker>>
  BY <1>1 DEF ExecInv, FlagHeld, RunningExclusive, Executes, workerVars
<1>2. ASSUME NEW a, BodyStep(a) PROVE UNCHANGED <<workerVars, onWorker>>
  BY <1>2 DEF BodyStep, spawn_green_thread, cancel_thread, BeginResolve, WaitOver, Consume,
              BodyLooksAtStack, BodyTakesStack, blocking_submit, io_wait, EnterWaitList
<1>3. Waker => UNCHANGED <<workerVars, onWorker>>
  BY DEF Waker, BlockingDone, wake_thread
<1>4. UNCHANGED vars => UNCHANGED <<workerVars, onWorker>>
  BY DEF vars
<1>5. ASSUME NEW w \in Workers, WorkerStep(w) PROVE ExecInv'
  BY <1>1, <1>2, <1>5, ExecLoop, ExecSwitch DEF WorkerStep
<1> QED
  BY <1>1, <1>2, <1>3, <1>4, <1>5 DEF Next, MainStep

\* No green thread executes on two workers at once, whatever wakes it and however
\* often it is queued: the claim on running_on_worker excludes it (worker_loop).
THEOREM ExecutionIsExclusive == Spec => []RunningExclusive
<1>1. Init => ExecInv
  BY DEF Init, ExecInv, FlagHeld, RunningExclusive, Executes
<1>2. ExecInv => RunningExclusive
  BY DEF ExecInv
<1> QED
  BY <1>1, <1>2, ExecNext, TypeInvariant, PTL DEF Spec

-----------------------------------------------------------------------------
(* One taker *)

\* Before the consumed flag is set nobody has the outcome.
ConsumedInv == TakenOnce /\ \A t \in Tasks : ~consumed[t] => takers[t] = {}

LEMMA ConsumedStep ==
  ASSUME TypeInv, ConsumedInv, NEW a, Consume(a)
  PROVE  ConsumedInv'
<1>1. CASE UNCHANGED <<consumed, takers>>
  BY <1>1 DEF ConsumedInv, TakenOnce
<1>2. CASE /\ ~consumed[target[a]]
           /\ consumed' = [consumed EXCEPT ![target[a]] = TRUE]
           /\ takers' = [takers EXCEPT ![target[a]] = @ \cup {a}]
  <2>1. consumed \in [Tasks -> BOOLEAN] /\ takers \in [Tasks -> SUBSET Actors]
    BY DEF TypeInv, TypeOK
  <2>2. \A t \in Tasks : t # target[a] => takers'[t] = takers[t] /\ consumed'[t] = consumed[t]
    BY <1>2, <2>1
  <2>3. target[a] \in Tasks => takers'[target[a]] = {a} /\ consumed'[target[a]]
    BY <1>2, <2>1 DEF ConsumedInv
  <2> QED
    BY <2>2, <2>3 DEF ConsumedInv, TakenOnce
<1> QED
  BY <1>1, <1>2 DEF Consume

LEMMA ConsumedNext == TypeInv /\ ConsumedInv /\ [Next]_vars => ConsumedInv'
<1> SUFFICES ASSUME TypeInv, ConsumedInv, [Next]_vars PROVE ConsumedInv'
  OBVIOUS
<1>1. CASE UNCHANGED <<consumed, takers>>
  BY <1>1 DEF ConsumedInv, TakenOnce
<1>2. ASSUME NEW a, BodyStep(a) PROVE (\E b : Consume(b)) \/ UNCHANGED <<consumed, takers>>
  BY <1>2 DEF BodyStep, spawn_green_thread, cancel_thread, BeginResolve, WaitOver,
              BodyLooksAtStack, BodyTakesStack, blocking_submit, io_wait, EnterWaitList, taskVars
<1>3. Waker => UNCHANGED <<consumed, takers>>
  BY DEF Waker, BlockingDone, wake_thread
<1>4. ASSUME NEW w, WorkerLoop(w) PROVE UNCHANGED <<consumed, takers>>
  BY <1>4 DEF WorkerLoop, PopLocal, StealBatch, StealFrom, FindNone, poll_io, SkipTerminal,
    CancelBeforeRun, MarkRunning, Claim, SwitchOut, SaveThreadState, HandlePreempted,
    complete_thread, HandleCancelled, RequeueWaiter, EnlistWaiter, MarkSuspended, LookAtStack,
    TakeStack, taskVars
<1>5. ASSUME NEW w, BodySwitch(w) PROVE UNCHANGED <<consumed, takers>>
  BY <1>5 DEF BodySwitch, YieldOnTask, SafepointCancel, SafepointPreempt,
    aster_green_thread_exit, YieldParked, Deregister, YieldTo, taskVars
<1>6. UNCHANGED vars => UNCHANGED <<consumed, takers>>
  BY DEF vars, taskVars
<1> QED
  BY <1>1, <1>2, <1>3, <1>4, <1>5, <1>6, ConsumedStep DEF Next, WorkerStep, MainStep

\* The outcome of a task has at most one taker, however many resolvers race for
\* it (consume_thread_result tests and sets consumed in one critical section).
THEOREM OutcomeTakenOnce == Spec => []TakenOnce
<1>1. Init => ConsumedInv
  BY DEF Init, ConsumedInv, TakenOnce
<1>2. ConsumedInv => TakenOnce
  BY DEF ConsumedInv
<1> QED
  BY <1>1, <1>2, ConsumedNext, TypeInvariant, PTL DEF Spec

-----------------------------------------------------------------------------
(* Cancellation wins *)

\* Steps that write the status of at most one task, and no outcome of its body.
NoOutcome == \A t \in Tasks : status'[t] # status[t] => status'[t] \notin {"Ready", "Failed"}

LEMMA LoopOutcome ==
  ASSUME TypeInv, NEW w \in Workers, WorkerLoop(w)
  PROVE  NoOutcome \/ complete_thread(w)
<1>1. status \in [Tasks -> Statuses]
  BY DEF TypeInv, TypeOK
<1>2. \/ UNCHANGED status
      \/ \E s \in {"Runnable", "Running", "Suspended", "Cancelled"} :
           status' = [status EXCEPT ![cur[w]] = s]
      \/ complete_thread(w)
  BY DEF WorkerLoop, PopLocal, StealBatch, StealFrom, FindNone, poll_io, SkipTerminal,
    CancelBeforeRun, MarkRunning, Claim, SwitchOut, SaveThreadState, HandlePreempted,
    HandleCancelled, RequeueWaiter, EnlistWaiter, MarkSuspended, LookAtStack, TakeStack,
    BecomeTerminal, taskVars
<1> QED
  BY <1>1, <1>2 DEF NoOutcome

LEMMA OtherOutcome ==
  ASSUME TypeInv,
         \/ \E w \in Workers : BodySwitch(w)
         \/ \E a : BodyStep(a)
         \/ Waker
         \/ UNCHANGED vars
  PROVE  NoOutcome
<1>1. status \in [Tasks -> Statuses]
  BY DEF TypeInv, TypeOK
<1>2. \/ UNCHANGED status
      \/ \E t \in Tasks, s \in {"Runnable", "Cancelled"} : status' = [status EXCEPT ![t] = s]
  <2>1. ASSUME NEW w \in Workers, BodySwitch(w) PROVE UNCHANGED status
    BY <2>1 DEF BodySwitch, YieldOnTask, SafepointCancel, SafepointPreempt,
      aster_green_thread_exit, YieldParked, Deregister, YieldTo, taskVars
  <2>2. ASSUME NEW a, BodyStep(a) PROVE <1>2!:
    BY <2>2 DEF BodyStep, spawn_green_thread, cancel_thread, BeginResolve, WaitOver, Consume,
      BodyLooksAtStack, BodyTakesStack, blocking_submit, io_wait, EnterWaitList, Requeue,
      BecomeTerminal, taskVars
  <2>3. ASSUME Waker PROVE <1>2!:
    BY <2>3 DEF Waker, BlockingDone, wake_thread, Requeue
  <2>4. UNCHANGED vars => UNCHANGED status
    BY DEF vars, taskVars
  <2> QED
    BY <2>1, <2>2, <2>3, <2>4
<1> QED
  BY <1>1, <1>2 DEF NoOutcome

\* A task that was asked to cancel while pending never ends as a success or a
\* failure: complete_thread, the only writer of those, looks at the flag first.
THEOREM CancellationWins == Spec => CancelWins
<1>1. ASSUME TypeInv, [Next]_vars, NEW t \in Tasks, cancelRequested[t], status[t] \notin Terminal
      PROVE  status'[t] \notin {"Ready", "Failed"}
  <2>1. CASE NoOutcome
    BY <1>1, <2>1 DEF NoOutcome, Terminal
  <2>2. ASSUME NEW w \in Workers, complete_thread(w) PROVE status'[t] \notin {"Ready", "Failed"}
    BY <1>1, <2>2 DEF complete_thread, BecomeTerminal, TypeInv, TypeOK, Terminal
  <2> QED
    BY <1>1, <2>1, <2>2, LoopOutcome, OtherOutcome DEF Next, WorkerStep, MainStep
<1>2. TypeInv /\ [Next]_vars =>
        [\A t \in Tasks :
           cancelRequested[t] /\ status[t] \notin Terminal => status'[t] \notin {"Ready", "Failed"}]_vars
  BY <1>1
<1> QED
  BY <1>2, TypeInvariant, PTL DEF Spec, CancelWins
=============================================================================
