----------------------------- MODULE GreenMutex -----------------------------
(***************************************************************************)
(* Mutex[T]: one runtime mutex shared by green threads and the entry       *)
(* thread.  A contended green thread enlists in wait_queue and suspends;   *)
(* release hands the lock to one of the enlisted without unlocking it.     *)
(* The entry thread is no green thread and spins with a deadline instead.  *)
(*                                                                         *)
(* If its deadline passes, lock returns 0 with the error flag set; it is   *)
(* no throwing operation, so nothing looks at the flag: the entry thread   *)
(* runs its section all the same and calls unlock, which asks for no owner.*)
(*                                                                         *)
(* A user of acquire and release adds one to the protected value in each   *)
(* of its sections.  An endless one loops over m.lock(block: ...), which   *)
(* writes back the value it read.  The scheduler is reduced to what the    *)
(* mutex can tell apart: a woken thread runs again once, later, unless it  *)
(* was cancelled first.                                                    *)
(***************************************************************************)
EXTENDS Naturals, Sequences, FiniteSets

CONSTANTS Tasks,        \* green threads using the mutex
          Main,         \* the entry thread
          Nobody,       \* no thread
          Cancellable,  \* tasks whose handle someone may cancel
          Endless,      \* tasks that use the scoped lock for ever
          MaxRounds     \* critical sections of every other user

Users == Tasks \cup {Main}

ASSUME UsersDistinct == Main \notin Tasks /\ Nobody \notin Users
ASSUME ConstantsOK == Cancellable \subseteq Tasks /\ Endless \subseteq Tasks /\ MaxRounds \in Nat

VARIABLES
  locked, owner, value, wait_queue,  \* AsterMutexState
  pc,               \* where each user stands in lock, unlock or its own code
  wakes,            \* the waiter an unlock has popped and not yet woken
  seen,             \* the value lock returned
  cancelRequested,  \* TaskState of the tasks
  rounds,           \* critical sections left
  updates,          \* history: additions to the value that were released
  expired           \* history: the entry thread's deadline has passed once

mutexVars == <<locked, owner, value, wait_queue>>
userVars == <<pc, wakes, seen, cancelRequested, rounds>>
histVars == <<updates, expired>>
vars == <<mutexVars, userVars, histVars>>

\* `trespassing` is the body of a section whose lock timed out, `died...` is
\* where cancellation found the task.
Pcs == {"idle", "critical", "trespassing", "handing", "spinning", "enqueued", "suspended", "resumed",
        "diedIdle", "diedWaiting", "diedResumed", "diedHolding"}

TypeOK ==
  /\ locked \in BOOLEAN
  /\ owner \in Users \cup {Nobody}
  /\ value \in Nat
  /\ wait_queue \in Seq(Tasks)
  /\ pc \in [Users -> Pcs]
  /\ wakes \in [Users -> Tasks \cup {Nobody}]
  /\ seen \in [Users -> Nat]
  /\ cancelRequested \in [Tasks -> BOOLEAN]
  /\ rounds \in [Users -> 0..MaxRounds]
  /\ updates \in Nat
  /\ expired \in BOOLEAN

Init ==
  /\ locked = FALSE /\ owner = Nobody /\ value = 0 /\ wait_queue = <<>>
  /\ pc = [u \in Users |-> "idle"]
  /\ wakes = [u \in Users |-> Nobody]
  /\ seen = [u \in Users |-> 0]
  /\ cancelRequested = [t \in Tasks |-> FALSE]
  /\ rounds = [u \in Users |-> MaxRounds]
  /\ updates = 0
  /\ expired = FALSE

-----------------------------------------------------------------------------
GoTo(u, label) == pc' = [pc EXCEPT ![u] = label]

\* current_thread_id: null off the workers.
current_thread_id(u) == IF u = Main THEN Nobody ELSE u

\* One more critical section begins.
Enter(u) ==
  /\ rounds[u] > 0
  /\ rounds' = [rounds EXCEPT ![u] = IF u \in Endless THEN @ ELSE @ - 1]

\* The section ends with a release: the value it read goes back, one higher or
\* as it was (the scoped lock).
Store(u) ==
  LET added == IF u \in Endless THEN 0 ELSE 1
  IN  /\ value' = seen[u] + added
      /\ updates' = updates + added

TakeLock(u) ==
  /\ locked' = TRUE
  /\ owner' = current_thread_id(u)
  /\ seen' = [seen EXCEPT ![u] = value]
  /\ GoTo(u, "critical")
  /\ UNCHANGED <<value, wait_queue>>

\* aster_mutex_lock on a free mutex.
LockFree(u) ==
  /\ pc[u] = "idle"
  /\ Enter(u)
  /\ ~locked
  /\ TakeLock(u)
  /\ UNCHANGED <<wakes, cancelRequested, histVars>>

\* aster_mutex_lock on a held mutex: enlist and drop the inner lock ...
LockEnlist(t) ==
  /\ t \in Tasks
  /\ pc[t] = "idle"
  /\ Enter(t)
  /\ locked
  /\ wait_queue' = Append(wait_queue, t)
  /\ GoTo(t, "enqueued")
  /\ UNCHANGED <<locked, owner, value, wakes, seen, cancelRequested, histVars>>

\* ... and suspend_for_mutex, unless the wake-up has come already.
Suspend(t) ==
  /\ pc[t] = "enqueued"
  /\ GoTo(t, "suspended")
  /\ UNCHANGED <<mutexVars, wakes, seen, cancelRequested, rounds, histVars>>

\* A worker runs the woken thread: it now owns the lock.
ResumeWithLock(t) ==
  /\ t \in Tasks
  /\ pc[t] = "resumed"
  /\ ~cancelRequested[t]
  /\ TakeLock(t)
  /\ UNCHANGED <<wakes, cancelRequested, rounds, histVars>>

\* The entry thread's fallback: spin until the lock is free ...
SpinStart ==
  /\ pc[Main] = "idle"
  /\ Enter(Main)
  /\ locked
  /\ GoTo(Main, "spinning")
  /\ UNCHANGED <<mutexVars, wakes, seen, cancelRequested, histVars>>

SpinTake ==
  /\ pc[Main] = "spinning"
  /\ ~locked
  /\ TakeLock(Main)
  /\ UNCHANGED <<wakes, cancelRequested, rounds, histVars>>

\* ... or until 30 s have passed: 0 is returned and the section runs unlocked.
SpinTimeout ==
  /\ pc[Main] = "spinning"
  /\ locked
  /\ seen' = [seen EXCEPT ![Main] = 0]
  /\ expired' = TRUE
  /\ GoTo(Main, "trespassing")
  /\ UNCHANGED <<mutexVars, wakes, cancelRequested, rounds, updates>>

\* Whoever is in the body of a section goes on to unlock, which does not ask
\* who holds the lock.
InSection(u) == pc[u] \in {"critical", "trespassing"}

\* Mutation of UnlockFree: the locked flag is left set.
UnlockFreeLocked(u) ==
  /\ InSection(u)
  /\ wait_queue = <<>>
  /\ Store(u)
  /\ owner' = Nobody
  /\ GoTo(u, "idle")
  /\ UNCHANGED <<locked, wait_queue, wakes, seen, cancelRequested, rounds, expired>>

\* aster_mutex_unlock without waiters.
UnlockFree(u) ==
  /\ InSection(u)
  /\ wait_queue = <<>>
  /\ Store(u)
  /\ locked' = FALSE
  /\ owner' = Nobody
  /\ GoTo(u, "idle")
  /\ UNCHANGED <<wait_queue, wakes, seen, cancelRequested, rounds, expired>>

\* Mutation of UnlockPop: the mutex is unlocked although a waiter gets it.
UnlockPopFree(u) ==
  /\ InSection(u)
  /\ wait_queue # <<>>
  /\ Store(u)
  /\ wakes' = [wakes EXCEPT ![u] = wait_queue[Len(wait_queue)]]
  /\ wait_queue' = SubSeq(wait_queue, 1, Len(wait_queue) - 1)
  /\ locked' = FALSE
  /\ owner' = Nobody
  /\ GoTo(u, "handing")
  /\ UNCHANGED <<seen, cancelRequested, rounds, expired>>

\* Mutation of UnlockPop: the new value is not stored on this path.
UnlockPopUnsaved(u) ==
  /\ InSection(u)
  /\ wait_queue # <<>>
  /\ updates' = updates + (IF u \in Endless THEN 0 ELSE 1)
  /\ wakes' = [wakes EXCEPT ![u] = wait_queue[Len(wait_queue)]]
  /\ wait_queue' = SubSeq(wait_queue, 1, Len(wait_queue) - 1)
  /\ owner' = Nobody
  /\ GoTo(u, "handing")
  /\ UNCHANGED <<locked, value, seen, cancelRequested, rounds, expired>>

\* aster_mutex_unlock with waiters: the last of wait_queue is popped, the
\* mutex stays locked ...
UnlockPop(u) ==
  /\ InSection(u)
  /\ wait_queue # <<>>
  /\ Store(u)
  /\ wakes' = [wakes EXCEPT ![u] = wait_queue[Len(wait_queue)]]
  /\ wait_queue' = SubSeq(wait_queue, 1, Len(wait_queue) - 1)
  /\ owner' = Nobody
  /\ GoTo(u, "handing")
  /\ UNCHANGED <<locked, seen, cancelRequested, rounds, expired>>

\* Mutation of HandOver: the popped waiter is not woken.
HandOverNoWake(u) ==
  /\ pc[u] = "handing"
  /\ wakes' = [wakes EXCEPT ![u] = Nobody]
  /\ GoTo(u, "idle")
  /\ UNCHANGED <<mutexVars, seen, cancelRequested, rounds, histVars>>

\* ... and wake_thread is called with the inner lock dropped; it does nothing
\* for a waiter that is terminal by then.
HandOver(u) ==
  /\ pc[u] = "handing"
  /\ wakes' = [wakes EXCEPT ![u] = Nobody]
  /\ pc' = IF pc[wakes[u]] = "diedWaiting"
             THEN [pc EXCEPT ![u] = "idle"]
             ELSE [pc EXCEPT ![u] = "idle", ![wakes[u]] = "resumed"]
  /\ UNCHANGED <<mutexVars, seen, cancelRequested, rounds, histVars>>

\* cancel_thread: at once for a suspended or runnable task, a flag for one
\* that is running.  It never touches the mutex.
Cancel(t) ==
  /\ t \in Cancellable
  /\ ~cancelRequested[t]
  /\ cancelRequested' = [cancelRequested EXCEPT ![t] = TRUE]
  /\ \/ pc[t] = "suspended" /\ GoTo(t, "diedWaiting")
     \/ pc[t] = "resumed" /\ GoTo(t, "diedResumed")
     \/ pc[t] \notin {"suspended", "resumed"} /\ UNCHANGED pc
  /\ UNCHANGED <<mutexVars, wakes, seen, rounds, histVars>>

\* A safepoint of a running task, or the check before a woken one runs.
DieCancelled(t) ==
  /\ t \in Tasks
  /\ cancelRequested[t]
  /\ \/ pc[t] = "idle" /\ GoTo(t, "diedIdle")
     \/ pc[t] = "critical" /\ GoTo(t, "diedHolding")
     \/ pc[t] = "resumed" /\ GoTo(t, "diedResumed")
  /\ UNCHANGED <<mutexVars, wakes, seen, cancelRequested, rounds, histVars>>

-----------------------------------------------------------------------------
UserStep(u) ==
  \/ LockFree(u)
  \/ LockEnlist(u)
  \/ Suspend(u)
  \/ ResumeWithLock(u)
  \/ UnlockFree(u)
  \/ UnlockPop(u)
  \/ HandOver(u)
  \/ DieCancelled(u)

MainSpin == SpinStart \/ SpinTake \/ SpinTimeout

Next == (\E u \in Users : UserStep(u)) \/ MainSpin \/ \E t \in Tasks : Cancel(t)

Spec == Init /\ [][Next]_vars

\* Workers keep running whatever is runnable; nobody is obliged to cancel.
FairSpec == Spec /\ (\A u \in Users : WF_vars(UserStep(u))) /\ WF_vars(MainSpin)

-----------------------------------------------------------------------------
(* Properties *)

\* The right to the protected value: held in a critical section, kept by an
\* unlock until it has woken the waiter, passed to the woken waiter.
Owns(u) == pc[u] \in {"critical", "handing", "resumed", "diedHolding", "diedResumed"}
Waits(t) == pc[t] \in {"enqueued", "suspended"}
NobodyCancelled == \A t \in Tasks : ~cancelRequested[t]

\* Until the entry thread's deadline passes for the first time, at most one user
\* has the lock or has been given it, and then the mutex is locked, with
\* cancellation anywhere (aster_mutex_lock, aster_mutex_unlock).
MutualExclusion ==
  ~expired =>
    /\ \A u, v \in Users : Owns(u) /\ Owns(v) => u = v
    /\ \A u \in Users : Owns(u) => locked

\* Until that deadline passes no update is lost: the protected value counts
\* every addition that ended with a release, whichever path the release took and
\* whatever scoped locks wrote back in between.
NoLostUpdate == ~expired => value = updates

\* As long as nobody is cancelled, a waiter never sits on a mutex that no one
\* will hand to it: somebody owns it whenever somebody waits.  This survives the
\* unlocks of an entry thread that never got the lock.
WaiterHasWaker ==
  NobodyCancelled /\ (\E t \in Tasks : Waits(t)) => \E u \in Users : Owns(u)

\* Without cancellation a task that waits for ever is overtaken for ever: others
\* get the lock again and again (wait_queue is popped from the back).
OnlyOvertakingStarves ==
  []NobodyCancelled
    => \A t \in Tasks : <>[]Waits(t) => []<>(\E s \in Tasks \ {t} : pc[s] = "resumed")

\* primitives.mdx:18, a Mutex "ensures only one green thread can access it at a
\* time".  Not so once the entry thread has unlocked without owning.
OneAtATime ==
  \A t, s \in Tasks : pc[t] = "critical" /\ pc[s] = "critical" => t = s

\* mutex.rs:83, unlock "wakes the first waiter": with fair users every waiter is
\* first at some time, and gets the lock.  Not so: the last one is woken.
WaiterServed == []NobodyCancelled => \A t \in Tasks : Waits(t) ~> pc[t] = "resumed"

\* primitives.mdx:29, release hands the lock to a waiting thread, "otherwise the
\* mutex unlocks".  So a locked mutex has somebody who is in the critical
\* section (possibly cancelled there), is handing it over, or is about to run.
\* Not so: it is handed to a waiter that was cancelled while it waited.
LockedHasOwner ==
  locked => \E u \in Users : pc[u] \in {"critical", "handing", "resumed", "diedHolding"}
=============================================================================
