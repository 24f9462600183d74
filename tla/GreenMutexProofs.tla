-------------------------- MODULE GreenMutexProofs --------------------------
(***************************************************************************)
(* What is proved of the mutex for any green threads, any number of        *)
(* critical sections and any cancellations: type correctness; mutual       *)
(* exclusion and that no update is lost, for as long as the entry thread's *)
(* deadline has not passed; that a waiter has a waker, whether it has      *)
(* passed or not.                                                          *)
(***************************************************************************)
EXTENDS GreenMutex, SequenceTheorems, TLAPS

\* An unlock between popping and waking knows whom it wakes.
KnowsWaiter == \A u \in Users : pc[u] = "handing" => wakes[u] \in Tasks

TypeInv == TypeOK /\ KnowsWaiter

LEMMA TypeInit == Init => TypeInv
<1> SUFFICES ASSUME Init PROVE TypeInv
  OBVIOUS
<1>0. locked \in BOOLEAN /\ owner \in Users \cup {Nobody}
  BY DEF Init
<1>q. wait_queue \in Seq(Tasks)
  <2>1. wait_queue = <<>>
    BY DEF Init
  <2> QED
    BY <2>1
<1>1. value \in Nat /\ updates \in Nat /\ expired \in BOOLEAN
  BY DEF Init
<1>2. pc \in [Users -> Pcs] /\ wakes \in [Users -> Tasks \cup {Nobody}]
  BY DEF Init, Pcs
<1>3. seen \in [Users -> Nat] /\ cancelRequested \in [Tasks -> BOOLEAN]
  BY DEF Init
<1>4. rounds \in [Users -> 0..MaxRounds]
  BY ConstantsOK DEF Init
<1>5. KnowsWaiter
  BY DEF Init, KnowsWaiter
<1> QED
  BY <1>0, <1>q, <1>1, <1>2, <1>3, <1>4, <1>5 DEF TypeInv, TypeOK

\* Entering lock uses up a round, or none.
LEMMA RoundType ==
  ASSUME TypeInv, NEW u \in Users, Enter(u)
  PROVE  rounds' \in [Users -> 0..MaxRounds]
<1>1. rounds[u] \in 0..MaxRounds
  BY DEF TypeInv, TypeOK
<1>2. rounds[u] - 1 \in 0..MaxRounds
  BY <1>1, ConstantsOK DEF Enter
<1> QED
  BY <1>1, <1>2 DEF TypeInv, TypeOK, Enter

\* A release adds the same to the value and to what was added.
LEMMA StoreType ==
  ASSUME TypeInv, NEW u \in Users, Store(u)
  PROVE  /\ value' \in Nat /\ updates' \in Nat
         /\ seen[u] = updates => value' = updates'
<1>1. seen[u] \in Nat /\ updates \in Nat
  BY DEF TypeInv, TypeOK
<1> QED
  BY <1>1 DEF Store

\* The last waiter and the rest of the queue.
LEMMA PopType ==
  ASSUME TypeInv, wait_queue # <<>>
  PROVE  /\ wait_queue[Len(wait_queue)] \in Tasks
         /\ SubSeq(wait_queue, 1, Len(wait_queue) - 1) \in Seq(Tasks)
BY DEF TypeInv, TypeOK

LEMMA TypeUser ==
  ASSUME TypeInv, NEW u \in Users, UserStep(u)
  PROVE  TypeInv'
<1> USE DEF TypeInv, TypeOK, KnowsWaiter, GoTo, TakeLock, current_thread_id, Users, Pcs, mutexVars, histVars
<1>1. CASE LockFree(u)
  <2>1. rounds' \in [Users -> 0..MaxRounds]
    BY <1>1, RoundType DEF LockFree
  <2> QED
    BY <1>1, <2>1 DEF LockFree
<1>2. CASE LockEnlist(u)
  <2>1. rounds' \in [Users -> 0..MaxRounds]
    BY <1>2, RoundType DEF LockEnlist
  <2> QED
    BY <1>2, <2>1 DEF LockEnlist
<1>3. CASE Suspend(u)
  BY <1>3 DEF Suspend
<1>4. CASE ResumeWithLock(u)
  BY <1>4 DEF ResumeWithLock
<1>5. CASE UnlockFree(u)
  <2>1. value' \in Nat /\ updates' \in Nat
    BY <1>5, StoreType DEF UnlockFree
  <2>2. pc' \in [Users -> Pcs] /\ \A v \in Users : pc'[v] = "handing" => pc[v] = "handing"
    BY <1>5 DEF UnlockFree
  <2> QED
    BY <1>5, <2>1, <2>2 DEF UnlockFree
<1>6. CASE UnlockPop(u)
  <2>1. /\ wait_queue[Len(wait_queue)] \in Tasks
        /\ SubSeq(wait_queue, 1, Len(wait_queue) - 1) \in Seq(Tasks)
    BY <1>6, PopType DEF UnlockPop
  <2>2. value' \in Nat /\ updates' \in Nat
    BY <1>6, StoreType DEF UnlockPop
  <2> QED
    BY <1>6, <2>1, <2>2 DEF UnlockPop
<1>7. CASE HandOver(u)
  BY <1>7 DEF HandOver
<1>8. CASE DieCancelled(u)
  BY <1>8 DEF DieCancelled
<1> QED
  BY <1>1, <1>2, <1>3, <1>4, <1>5, <1>6, <1>7, <1>8 DEF UserStep

LEMMA TypeNext == TypeInv /\ [Next]_vars => TypeInv'
<1> SUFFICES ASSUME TypeInv, [Next]_vars PROVE TypeInv'
  OBVIOUS
<1> USE DEF TypeInv, TypeOK, KnowsWaiter, GoTo, TakeLock, current_thread_id, Users, Pcs, mutexVars, histVars
<1>1. CASE SpinStart
  <2>1. rounds' \in [Users -> 0..MaxRounds]
    BY <1>1, RoundType DEF SpinStart
  <2> QED
    BY <1>1, <2>1 DEF SpinStart
<1>2. CASE SpinTake
  BY <1>2 DEF SpinTake
<1>3. CASE SpinTimeout
  BY <1>3 DEF SpinTimeout
<1>4. ASSUME NEW t \in Tasks, Cancel(t) PROVE TypeInv'
  BY <1>4 DEF Cancel
<1>5. CASE UNCHANGED vars
  BY <1>5 DEF vars, userVars
<1> QED
  BY <1>1, <1>2, <1>3, <1>4, <1>5, TypeUser DEF Next, MainSpin

LEMMA TypeInvariant == Spec => []TypeInv
BY TypeInit, TypeNext, PTL DEF Spec

\* Type correctness of AsterMutexState and of its users' progress.
THEOREM TypeCorrect == Spec => []TypeOK
<1>1. TypeInv => TypeOK
  BY DEF TypeInv
<1> QED
  BY <1>1, TypeInvariant, PTL

-----------------------------------------------------------------------------
(* Mutual exclusion: a free mutex has no owner, so taking it makes one;     *)
(* handing over moves ownership.  It ends with the deadline, before which   *)
(* nobody is in a section it has not locked.                                *)

Trespass == \A u \in Users : pc[u] = "trespassing" => expired

ExclusionInv == MutualExclusion /\ Trespass

LEMMA ExclusionUser ==
  ASSUME TypeInv, ExclusionInv, ~expired, NEW u \in Users, UserStep(u)
  PROVE  ExclusionInv' /\ ~expired'
<1> USE DEF TypeInv, TypeOK, ExclusionInv, MutualExclusion, Trespass, Owns, GoTo, TakeLock, Users,
            mutexVars, histVars, InSection
<1>1. CASE LockFree(u)
  BY <1>1 DEF LockFree
<1>2. CASE LockEnlist(u)
  BY <1>2 DEF LockEnlist
<1>3. CASE Suspend(u)
  BY <1>3 DEF Suspend
<1>4. CASE ResumeWithLock(u)
  BY <1>4 DEF ResumeWithLock
<1>5. CASE UnlockFree(u)
  BY <1>5 DEF UnlockFree
<1>6. CASE UnlockPop(u)
  BY <1>6 DEF UnlockPop
<1>7. CASE HandOver(u)
  BY <1>7 DEF HandOver, KnowsWaiter
<1>8. CASE DieCancelled(u)
  BY <1>8 DEF DieCancelled
<1> QED
  BY <1>1, <1>2, <1>3, <1>4, <1>5, <1>6, <1>7, <1>8 DEF UserStep

\* The deadline does not come back.
LEMMA ExpiredStays == TypeInv /\ expired /\ [Next]_vars => expired'
BY DEF Next, UserStep, MainSpin, LockFree, LockEnlist, Suspend, ResumeWithLock, UnlockFree, UnlockPop,
       HandOver, DieCancelled, SpinStart, SpinTake, SpinTimeout, Cancel, vars, histVars

LEMMA ExclusionNext == TypeInv /\ ExclusionInv /\ [Next]_vars => ExclusionInv'
<1> SUFFICES ASSUME TypeInv, ExclusionInv, [Next]_vars PROVE ExclusionInv'
  OBVIOUS
<1>0. CASE expired
  BY <1>0, ExpiredStays DEF ExclusionInv, MutualExclusion, Trespass
<1>a. CASE ~expired
  <2> USE <1>a DEF TypeInv, TypeOK, ExclusionInv, MutualExclusion, Trespass, Owns, GoTo, TakeLock, Users,
                   mutexVars, histVars
  <2>1. CASE SpinStart
    BY <2>1 DEF SpinStart
  <2>2. CASE SpinTake
    BY <2>2 DEF SpinTake
  <2>3. CASE SpinTimeout
    BY <2>3 DEF SpinTimeout
  <2>4. ASSUME NEW t \in Tasks, Cancel(t) PROVE ExclusionInv'
    BY <2>4 DEF Cancel
  <2>5. CASE UNCHANGED vars
    BY <2>5 DEF vars, userVars
  <2>6. ASSUME NEW u \in Users, UserStep(u) PROVE ExclusionInv'
    BY ONLY <1>a, <2>6, TypeInv, ExclusionInv, ExclusionUser
  <2> QED
    BY <2>1, <2>2, <2>3, <2>4, <2>5, <2>6 DEF Next, MainSpin
<1> QED
  BY <1>0, <1>a

LEMMA ExclusionInvariant == Spec => []ExclusionInv
<1>1. Init => ExclusionInv
  BY DEF Init, ExclusionInv, MutualExclusion, Trespass, Owns
<1> QED
  BY <1>1, ExclusionNext, TypeInvariant, PTL DEF Spec

\* Whatever is cancelled, the protected value has one owner at a time, from the
\* lock through the hand-over to the woken waiter (aster_mutex_lock and _unlock),
\* in every behaviour up to the first time the entry thread's spin runs out.
THEOREM LockExcludes == Spec => []MutualExclusion
<1>1. ExclusionInv => MutualExclusion
  BY DEF ExclusionInv
<1> QED
  BY <1>1, ExclusionInvariant, PTL

-----------------------------------------------------------------------------
(* No lost update: who is in a critical section has read the current value. *)

SeesCurrent == ~expired => \A u \in Users : pc[u] = "critical" => seen[u] = value

UpdateInv == NoLostUpdate /\ SeesCurrent

\* A release writes back what its own critical section read.
LEMMA ReleaseUpdates ==
  ASSUME TypeInv, ExclusionInv, UpdateInv, ~expired, NEW u \in Users, InSection(u), Store(u),
         \E label \in {"idle", "handing"} : pc' = [pc EXCEPT ![u] = label]
  PROVE  UpdateInv'
<1>0. pc[u] = "critical"
  BY DEF InSection, ExclusionInv, Trespass
<1>1. NoLostUpdate'
  BY <1>0, StoreType DEF UpdateInv, NoLostUpdate, SeesCurrent
<1>2. \A v \in Users : pc'[v] # "critical"
  BY <1>0 DEF ExclusionInv, MutualExclusion, Owns, TypeInv, TypeOK
<1> QED
  BY <1>1, <1>2 DEF UpdateInv, SeesCurrent

LEMMA UpdateNext == TypeInv /\ ExclusionInv /\ UpdateInv /\ [Next]_vars => UpdateInv'
<1> SUFFICES ASSUME TypeInv, ExclusionInv, UpdateInv, [Next]_vars, ~expired' PROVE UpdateInv'
  BY DEF UpdateInv, NoLostUpdate, SeesCurrent
<1>0. ~expired
  BY ExpiredStays
<1>1. ASSUME NEW u \in Users, UnlockFree(u) \/ UnlockPop(u) PROVE UpdateInv'
  BY <1>0, <1>1, ReleaseUpdates DEF UnlockFree, UnlockPop, GoTo
<1>2. ASSUME NEW u \in Users, TakeLock(u), UNCHANGED updates PROVE UpdateInv'
  BY <1>0, <1>2 DEF TakeLock, GoTo, UpdateInv, NoLostUpdate, SeesCurrent, TypeInv, TypeOK
<1>3. CASE /\ UNCHANGED <<value, seen, updates>>
           /\ \A v \in Users : pc'[v] = "critical" => pc[v] = "critical"
  BY <1>0, <1>3 DEF UpdateInv, NoLostUpdate, SeesCurrent
<1>4. ASSUME NEW u \in Users,
             LockEnlist(u) \/ Suspend(u) \/ HandOver(u) \/ DieCancelled(u)
      PROVE  UpdateInv'
  BY <1>3, <1>4 DEF LockEnlist, Suspend, HandOver, DieCancelled, GoTo, mutexVars, histVars, TypeInv, TypeOK
<1>5. CASE SpinStart
  BY <1>3, <1>5 DEF SpinStart, GoTo, mutexVars, histVars, TypeInv, TypeOK
<1>10. CASE SpinTimeout
  BY <1>10 DEF SpinTimeout
<1>6. ASSUME NEW t \in Tasks, Cancel(t) PROVE UpdateInv'
  BY <1>3, <1>6 DEF Cancel, GoTo, mutexVars, histVars, TypeInv, TypeOK
<1>7. CASE UNCHANGED vars
  BY <1>3, <1>7 DEF vars, mutexVars, userVars, histVars
<1>8. ASSUME NEW u \in Users, LockFree(u) \/ ResumeWithLock(u) PROVE UpdateInv'
  BY <1>2, <1>8 DEF LockFree, ResumeWithLock, histVars
<1>9. CASE SpinTake
  BY <1>2, <1>9 DEF SpinTake, Users, histVars
<1> QED
  BY <1>1, <1>4, <1>5, <1>6, <1>7, <1>8, <1>9, <1>10 DEF Next, UserStep, MainSpin

\* Every released addition counts in the protected value, whichever of the two
\* release paths it took, whoever it handed the lock to and whatever the scoped
\* locks in between wrote back, until the entry thread's spin runs out.
THEOREM UpdatesAreKept == Spec => []NoLostUpdate
<1>1. Init => UpdateInv
  BY DEF Init, UpdateInv, NoLostUpdate, SeesCurrent
<1>2. UpdateInv => NoLostUpdate
  BY DEF UpdateInv
<1> QED
  BY <1>1, <1>2, UpdateNext, TypeInvariant, ExclusionInvariant, PTL DEF Spec

-----------------------------------------------------------------------------
(* A waiter has a waker *)

Occurs(s, t) == \E i \in 1..Len(s) : s[i] = t

LEMMA OccursAppend ==
  ASSUME NEW s \in Seq(Tasks), NEW u \in Tasks
  PROVE  Occurs(Append(s, u), u) /\ \A t : Occurs(s, t) => Occurs(Append(s, u), t)
<1>1. /\ Len(s) \in Nat /\ Len(Append(s, u)) = Len(s) + 1 /\ Append(s, u)[Len(s) + 1] = u
      /\ \A i \in 1..Len(s) : Append(s, u)[i] = s[i]
  OBVIOUS
<1> QED
  BY <1>1 DEF Occurs

LEMMA OccursFront ==
  ASSUME NEW s \in Seq(Tasks), s # <<>>,
         NEW t, Occurs(s, t)
  PROVE  Occurs(SubSeq(s, 1, Len(s) - 1), t) \/ t = s[Len(s)]
<1>1. Len(s) \in Nat /\ Len(s) > 0
  OBVIOUS
<1>2. PICK i \in 1..Len(s) : s[i] = t
  BY DEF Occurs
<1>3. CASE i = Len(s)
  BY <1>2, <1>3
<1>4. CASE i # Len(s)
  <2>1. i \in 1..(Len(s) - 1)
    BY <1>1, <1>4
  <2>2. Len(SubSeq(s, 1, Len(s) - 1)) = Len(s) - 1 /\ SubSeq(s, 1, Len(s) - 1)[i] = s[i]
    BY <1>1, <2>1
  <2> QED
    BY <1>2, <2>1, <2>2 DEF Occurs
<1> QED
  BY <1>3, <1>4

BeingWoken(t) == \E u \in Users : pc[u] = "handing" /\ wakes[u] = t

\* Where a thread stands from its enlisting to its waking.
Dormant(t) == pc[t] \in {"enqueued", "suspended", "diedWaiting"}

\* A thread is enlisted once, only while it is dormant, and is popped by one
\* unlock.  This does not need exclusion: two unlocks may hand over at a time.
NoRepeats(s) == \A i, j \in 1..Len(s) : s[i] = s[j] => i = j
EnlistedOnce == NoRepeats(wait_queue)
EnlistedDormant == \A t \in Tasks : Occurs(wait_queue, t) => Dormant(t)
PoppedDormant ==
  \A u \in Users : pc[u] = "handing" => Dormant(wakes[u]) /\ ~Occurs(wait_queue, wakes[u])
PoppedOnce ==
  \A u, v \in Users : pc[u] = "handing" /\ pc[v] = "handing" /\ wakes[u] = wakes[v] => u = v

QueueInv == EnlistedOnce /\ EnlistedDormant /\ PoppedDormant /\ PoppedOnce

Rest(s) == SubSeq(s, 1, Len(s) - 1)

\* The last of a queue without repetitions is not in the rest of it.
LEMMA LastOnce ==
  ASSUME NEW s \in Seq(Tasks), s # <<>>, NoRepeats(s)
  PROVE  /\ Occurs(s, s[Len(s)])
         /\ ~Occurs(Rest(s), s[Len(s)])
         /\ NoRepeats(Rest(s))
         /\ \A t : Occurs(Rest(s), t) => Occurs(s, t)
<1> PICK n \in Nat : n = Len(s)
  OBVIOUS
<1>1. n > 0
  OBVIOUS
<1> PICK rest : rest = Rest(s)
  OBVIOUS
<1>2. /\ Len(rest) = n - 1
      /\ \A i \in 1..(n - 1) : rest[i] = s[i]
  <2>0. \A i \in 1..(n - 1) : s[i] \in Tasks
    BY <1>1
  <2>1. Len(rest) = IF 1 <= n - 1 THEN (n - 1) - 1 + 1 ELSE 0
    BY <1>1, <2>0, SubSeqProperties DEF Rest
  <2>2. (IF 1 <= n - 1 THEN (n - 1) - 1 + 1 ELSE 0) = n - 1
    BY ONLY n \in Nat, <1>1
  <2>3. ASSUME NEW i \in 1..(n - 1) PROVE rest[i] = s[i]
    BY <1>1, <2>3 DEF Rest
  <2> QED
    BY <2>1, <2>2, <2>3
<1>3. \A i \in 1..Len(rest) : i \in 1..Len(s) /\ i # Len(s) /\ rest[i] = s[i]
  BY <1>1, <1>2
<1>4. Len(s) \in 1..Len(s)
  BY <1>1
<1>5. Occurs(s, s[Len(s)]) /\ ~Occurs(rest, s[Len(s)]) /\ \A t : Occurs(rest, t) => Occurs(s, t)
  BY <1>3, <1>4 DEF Occurs, NoRepeats
<1>6. NoRepeats(rest)
  BY <1>3 DEF NoRepeats
<1> QED
  BY <1>5, <1>6

LEMMA AppendOnce ==
  ASSUME NEW s \in Seq(Tasks), NEW u \in Tasks, ~Occurs(s, u), NoRepeats(s)
  PROVE  /\ NoRepeats(Append(s, u))
         /\ \A t : Occurs(Append(s, u), t) => Occurs(s, t) \/ t = u
<1>1. /\ Len(s) \in Nat /\ Len(Append(s, u)) = Len(s) + 1 /\ Append(s, u)[Len(s) + 1] = u
      /\ \A i \in 1..Len(s) : Append(s, u)[i] = s[i]
  OBVIOUS
<1>2. \A i \in 1..Len(s) : s[i] # u
  BY DEF Occurs
<1>3. \A i \in 1..(Len(s) + 1) : i \in 1..Len(s) \/ i = Len(s) + 1
  BY <1>1
<1> QED
  BY <1>1, <1>2, <1>3 DEF Occurs, NoRepeats

\* Steps that leave the queue alone and wake nobody.
LEMMA QueueKept ==
  ASSUME TypeInv, QueueInv, UNCHANGED <<wait_queue, wakes>>,
         \A u \in Users : pc'[u] = "handing" => pc[u] = "handing",
         \A t \in Tasks : Dormant(t) => Dormant(t)'
  PROVE  QueueInv'
<1>1. EnlistedOnce' /\ EnlistedDormant'
  BY DEF QueueInv, EnlistedOnce, EnlistedDormant
<1>2. PoppedDormant'
  BY DEF QueueInv, PoppedDormant, TypeInv, KnowsWaiter
<1>3. PoppedOnce'
  BY DEF QueueInv, PoppedOnce
<1> QED
  BY <1>1, <1>2, <1>3 DEF QueueInv

LEMMA QueueUser ==
  ASSUME TypeInv, QueueInv, NEW u \in Users, UserStep(u)
  PROVE  QueueInv'
<1>t. /\ pc \in [Users -> Pcs] /\ wait_queue \in Seq(Tasks)
      /\ wakes \in [Users -> Tasks \cup {Nobody}]
      /\ \A t \in Tasks : t \in Users
  BY DEF TypeInv, TypeOK, Users
<1>1. CASE LockFree(u) \/ ResumeWithLock(u)
  <2>1. /\ pc' = [pc EXCEPT ![u] = "critical"] /\ pc[u] \in {"idle", "resumed"}
        /\ UNCHANGED <<wait_queue, wakes>>
    BY <1>1 DEF LockFree, ResumeWithLock, TakeLock, GoTo
  <2> QED
    BY <1>t, <2>1, QueueKept DEF Dormant
<1>2. CASE LockEnlist(u)
  <2>1. /\ u \in Tasks /\ pc[u] = "idle" /\ pc' = [pc EXCEPT ![u] = "enqueued"]
        /\ wait_queue' = Append(wait_queue, u) /\ UNCHANGED wakes
    BY <1>2 DEF LockEnlist, GoTo
  <2>2. ~Occurs(wait_queue, u) /\ \A v \in Users : pc[v] = "handing" => wakes[v] # u
    BY <2>1 DEF QueueInv, EnlistedDormant, PoppedDormant, Dormant
  <2>3. NoRepeats(wait_queue)
    BY DEF QueueInv, EnlistedOnce
  <2>4. EnlistedOnce' /\ \A t : Occurs(wait_queue, t)' => Occurs(wait_queue, t) \/ t = u
    BY <1>t, <2>1, <2>2, <2>3, AppendOnce DEF EnlistedOnce
  <2>5. \A v \in Users : pc'[v] = "handing" => pc[v] = "handing"
    BY <1>t, <2>1
  <2>6. \A t \in Tasks : Dormant(t) \/ t = u => Dormant(t)'
    BY <1>t, <2>1 DEF Dormant
  <2>7. EnlistedDormant'
    BY <2>4, <2>6 DEF QueueInv, EnlistedDormant
  <2>8. PoppedDormant'
    BY <2>1, <2>2, <2>4, <2>5, <2>6 DEF QueueInv, PoppedDormant, TypeInv, KnowsWaiter
  <2>9. PoppedOnce'
    BY <2>1, <2>5 DEF QueueInv, PoppedOnce
  <2> QED
    BY <2>4, <2>7, <2>8, <2>9 DEF QueueInv
<1>3. CASE Suspend(u)
  <2>1. pc' = [pc EXCEPT ![u] = "suspended"] /\ UNCHANGED <<wait_queue, wakes>>
    BY <1>3 DEF Suspend, GoTo, mutexVars
  <2> QED
    BY <1>t, <2>1, QueueKept DEF Dormant
<1>4. CASE UnlockFree(u)
  <2>1. pc' = [pc EXCEPT ![u] = "idle"] /\ InSection(u) /\ UNCHANGED <<wait_queue, wakes>>
    BY <1>4 DEF UnlockFree, GoTo
  <2> QED
    BY <1>t, <2>1, QueueKept DEF Dormant, InSection
<1>5. CASE UnlockPop(u)
  <2> PICK last \in Tasks : last = wait_queue[Len(wait_queue)]
    BY <1>5, PopType DEF UnlockPop
  <2>1. /\ InSection(u) /\ pc' = [pc EXCEPT ![u] = "handing"] /\ wait_queue # <<>>
        /\ wakes' = [wakes EXCEPT ![u] = last]
        /\ wait_queue' = SubSeq(wait_queue, 1, Len(wait_queue) - 1)
    BY <1>5 DEF UnlockPop, GoTo
  <2>3. NoRepeats(wait_queue)
    BY DEF QueueInv, EnlistedOnce
  <2>4. /\ Occurs(wait_queue, last) /\ ~Occurs(wait_queue, last)'
        /\ EnlistedOnce'
        /\ \A t : Occurs(wait_queue, t)' => Occurs(wait_queue, t)
    BY <1>t, <2>1, <2>3, LastOnce DEF EnlistedOnce, Rest
  <2>6. \A t \in Tasks : Dormant(t) => Dormant(t)'
    BY <1>t, <2>1 DEF Dormant, InSection
  <2>7. /\ wakes'[u] = last
        /\ \A v \in Users : v # u => pc'[v] = pc[v] /\ wakes'[v] = wakes[v]
    BY <1>t, <2>1
  <2>8. EnlistedDormant'
    BY <2>4, <2>6 DEF QueueInv, EnlistedDormant
  <2>9. Dormant(last)'
    BY <2>4, <2>6 DEF QueueInv, EnlistedDormant
  <2>10. \A v \in Users : v # u /\ pc[v] = "handing" =>
            Dormant(wakes[v]) /\ ~Occurs(wait_queue, wakes[v]) /\ wakes[v] \in Tasks
    BY DEF QueueInv, PoppedDormant, TypeInv, KnowsWaiter
  <2>11. PoppedDormant'
    BY <2>4, <2>6, <2>7, <2>9, <2>10 DEF PoppedDormant, Dormant
  <2>12. PoppedOnce'
    BY <2>4, <2>7, <2>10 DEF QueueInv, PoppedOnce
  <2> QED
    BY <2>4, <2>8, <2>11, <2>12 DEF QueueInv
<1>6. CASE HandOver(u)
  <2>1. /\ pc[u] = "handing" /\ wakes[u] \in Tasks /\ UNCHANGED wait_queue
        /\ wakes' = [wakes EXCEPT ![u] = Nobody]
        /\ pc' = [pc EXCEPT ![u] = "idle"] \/ pc' = [pc EXCEPT ![u] = "idle", ![wakes[u]] = "resumed"]
    BY <1>6 DEF HandOver, TypeInv, KnowsWaiter, mutexVars
  <2>2. /\ \A v \in Users : pc'[v] = "handing" => pc[v] = "handing" /\ v # u /\ wakes'[v] = wakes[v]
        /\ \A t \in Tasks : t # wakes[u] /\ Dormant(t) => Dormant(t)'
    BY <1>t, <2>1 DEF Dormant
  <2>3. \A v \in Users : pc'[v] = "handing" => wakes[v] # wakes[u] /\ wakes[v] \in Tasks
    BY <2>1, <2>2 DEF QueueInv, PoppedOnce, TypeInv, KnowsWaiter
  <2>4. ~Occurs(wait_queue, wakes[u])
    BY <2>1 DEF QueueInv, PoppedDormant
  <2>5. EnlistedOnce' /\ EnlistedDormant'
    BY <2>1, <2>2, <2>4 DEF QueueInv, EnlistedOnce, EnlistedDormant
  <2>6. PoppedDormant'
    BY <2>1, <2>2, <2>3 DEF QueueInv, PoppedDormant, Dormant
  <2>7. PoppedOnce'
    BY <2>2 DEF QueueInv, PoppedOnce
  <2> QED
    BY <2>5, <2>6, <2>7 DEF QueueInv
<1>7. CASE DieCancelled(u)
  <2>1. /\ pc[u] \in {"idle", "critical", "resumed"}
        /\ \E label \in {"diedIdle", "diedHolding", "diedResumed"} : pc' = [pc EXCEPT ![u] = label]
        /\ UNCHANGED <<wait_queue, wakes>>
    BY <1>7 DEF DieCancelled, GoTo, mutexVars
  <2> QED
    BY <1>t, <2>1, QueueKept DEF Dormant
<1> QED
  BY <1>1, <1>2, <1>3, <1>4, <1>5, <1>6, <1>7 DEF UserStep

LEMMA QueueNext == TypeInv /\ QueueInv /\ [Next]_vars => QueueInv'
<1> SUFFICES ASSUME TypeInv, QueueInv, [Next]_vars PROVE QueueInv'
  OBVIOUS
<1>t. pc \in [Users -> Pcs] /\ Main \in Users /\ \A t \in Tasks : t \in Users /\ t # Main
  BY UsersDistinct DEF TypeInv, TypeOK, Users
<1>1. CASE MainSpin
  <2>1. /\ \E label \in {"spinning", "critical", "trespassing"} : pc' = [pc EXCEPT ![Main] = label]
        /\ UNCHANGED <<wait_queue, wakes>>
    BY <1>1 DEF MainSpin, SpinStart, SpinTake, SpinTimeout, TakeLock, GoTo, mutexVars
  <2> QED
    BY <1>t, <2>1, QueueKept DEF Dormant
<1>2. ASSUME NEW t \in Tasks, Cancel(t) PROVE QueueInv'
  <2>1. /\ UNCHANGED <<wait_queue, wakes>>
        /\ \/ UNCHANGED pc
           \/ pc[t] = "suspended" /\ pc' = [pc EXCEPT ![t] = "diedWaiting"]
           \/ pc[t] = "resumed" /\ pc' = [pc EXCEPT ![t] = "diedResumed"]
    BY <1>2 DEF Cancel, GoTo, mutexVars
  <2> QED
    BY <1>t, <2>1, QueueKept DEF Dormant
<1>3. CASE UNCHANGED vars
  BY <1>3, QueueKept DEF vars, userVars, mutexVars, Dormant
<1> QED
  BY <1>1, <1>2, <1>3, QueueUser DEF Next

\* A waiter is still enlisted or about to be woken.
WaitersKnown == \A t \in Tasks : Waits(t) => Occurs(wait_queue, t) \/ BeingWoken(t)

\* The queue is used only while the mutex is locked.
QueueLocked == wait_queue # <<>> => locked

\* A waiter dies of a cancellation only, and only a cancellation can leave a
\* locked mutex without an owner.
DeadCancelled == \A t \in Tasks : pc[t] = "diedWaiting" => cancelRequested[t]
LockedOwned == NobodyCancelled /\ locked => \E u \in Users : Owns(u)

WakerInv == WaitersKnown /\ QueueLocked /\ DeadCancelled /\ LockedOwned

LEMMA WakerImplies == TypeInv /\ WakerInv => WaiterHasWaker
<1> SUFFICES ASSUME TypeInv, WakerInv, NobodyCancelled, NEW t \in Tasks, Waits(t)
             PROVE  \E u \in Users : Owns(u)
  BY DEF WaiterHasWaker
<1>1. CASE Occurs(wait_queue, t)
  <2>1. wait_queue # <<>>
    BY <1>1 DEF Occurs, TypeInv, TypeOK
  <2> QED
    BY <2>1 DEF WakerInv, QueueLocked, LockedOwned
<1>2. CASE BeingWoken(t)
  BY <1>2 DEF BeingWoken, Owns
<1> QED
  BY <1>1, <1>2 DEF WakerInv, WaitersKnown

\* Steps by which nobody starts to wait, stops owning or leaves the queue.
LEMMA WakerKept ==
  ASSUME TypeInv, WakerInv, UNCHANGED <<wait_queue, wakes>>, locked => locked',
         \A t \in Tasks : cancelRequested[t] => cancelRequested'[t],
         \A t \in Tasks : Waits(t)' => Waits(t),
         \A u \in Users : pc[u] = "handing" => pc'[u] = "handing",
         \A t \in Tasks : pc'[t] = "diedWaiting" => pc[t] = "diedWaiting" \/ cancelRequested'[t],
         \A u \in Users : Owns(u) => Owns(u)',
         locked' => locked \/ \E u \in Users : Owns(u)'
  PROVE  WakerInv'
<1>1. WaitersKnown'
  BY DEF WakerInv, WaitersKnown, BeingWoken
<1>2. QueueLocked'
  BY DEF WakerInv, QueueLocked
<1>3. DeadCancelled'
  BY DEF WakerInv, DeadCancelled
<1>4. LockedOwned'
  BY DEF WakerInv, LockedOwned, NobodyCancelled
<1> QED
  BY <1>1, <1>2, <1>3, <1>4 DEF WakerInv

LEMMA WakerUser ==
  ASSUME TypeInv, QueueInv, WakerInv, NEW u \in Users, UserStep(u)
  PROVE  WakerInv'
<1>t. /\ pc \in [Users -> Pcs] /\ wait_queue \in Seq(Tasks)
      /\ wakes \in [Users -> Tasks \cup {Nobody}]
      /\ \A t \in Tasks : t \in Users
  BY DEF TypeInv, TypeOK, Users
<1>1. CASE LockFree(u) \/ ResumeWithLock(u)
  <2>1. /\ locked' /\ pc' = [pc EXCEPT ![u] = "critical"] /\ pc[u] \in {"idle", "resumed"}
        /\ UNCHANGED <<wait_queue, wakes, cancelRequested>>
    BY <1>1 DEF LockFree, ResumeWithLock, TakeLock, GoTo
  <2>2. \A v \in Users : Owns(v) => Owns(v)'
    BY <1>t, <2>1 DEF Owns
  <2>3. Owns(u)'
    BY <1>t, <2>1 DEF Owns
  <2> QED
    BY <1>t, <2>1, <2>2, <2>3, WakerKept DEF Waits
<1>2. CASE LockEnlist(u)
  <2>1. /\ u \in Tasks /\ locked /\ pc[u] = "idle" /\ pc' = [pc EXCEPT ![u] = "enqueued"]
        /\ wait_queue' = Append(wait_queue, u) /\ UNCHANGED <<locked, wakes, cancelRequested>>
    BY <1>2 DEF LockEnlist, GoTo
  <2>2. /\ Occurs(wait_queue, u)'
        /\ \A t \in Tasks : Occurs(wait_queue, t) => Occurs(wait_queue, t)'
    BY <1>t, <2>1, OccursAppend
  <2>3. \A t \in Tasks : BeingWoken(t) => BeingWoken(t)'
    BY <1>t, <2>1 DEF BeingWoken
  <2>4. WaitersKnown'
    BY <1>t, <2>1, <2>2, <2>3 DEF WakerInv, WaitersKnown, Waits
  <2>5. QueueLocked' /\ DeadCancelled'
    BY <1>t, <2>1 DEF WakerInv, QueueLocked, DeadCancelled
  <2>6. LockedOwned'
    BY <1>t, <2>1 DEF WakerInv, LockedOwned, Owns, NobodyCancelled
  <2> QED
    BY <2>4, <2>5, <2>6 DEF WakerInv
<1>3. CASE Suspend(u)
  <2>1. /\ pc[u] = "enqueued" /\ pc' = [pc EXCEPT ![u] = "suspended"]
        /\ UNCHANGED <<locked, wait_queue, wakes, cancelRequested>>
    BY <1>3 DEF Suspend, GoTo, mutexVars
  <2>2. \A v \in Users : Owns(v) => Owns(v)'
    BY <1>t, <2>1 DEF Owns
  <2> QED
    BY <1>t, <2>1, <2>2, WakerKept DEF Waits
<1>4. CASE UnlockFree(u)
  <2>1. /\ InSection(u) /\ pc' = [pc EXCEPT ![u] = "idle"] /\ wait_queue = <<>>
        /\ ~locked' /\ UNCHANGED <<wait_queue, wakes, cancelRequested>>
    BY <1>4 DEF UnlockFree, GoTo
  <2>2. \A t \in Tasks : Waits(t)' => Waits(t)
    BY <1>t, <2>1 DEF Waits
  <2>3. \A t \in Tasks : BeingWoken(t) => BeingWoken(t)'
    BY <1>t, <2>1 DEF BeingWoken, InSection
  <2>4. WaitersKnown'
    BY <2>1, <2>2, <2>3 DEF WakerInv, WaitersKnown
  <2>5. DeadCancelled'
    BY <1>t, <2>1 DEF WakerInv, DeadCancelled
  <2>6. QueueLocked' /\ LockedOwned'
    BY <2>1 DEF QueueLocked, LockedOwned
  <2> QED
    BY <2>4, <2>5, <2>6 DEF WakerInv
<1>5. CASE UnlockPop(u)
  <2> PICK last \in Tasks : last = wait_queue[Len(wait_queue)]
    BY <1>5, PopType DEF UnlockPop
  <2>1. /\ InSection(u) /\ pc' = [pc EXCEPT ![u] = "handing"] /\ wait_queue # <<>>
        /\ wakes' = [wakes EXCEPT ![u] = last]
        /\ wait_queue' = SubSeq(wait_queue, 1, Len(wait_queue) - 1)
        /\ UNCHANGED <<locked, cancelRequested>>
    BY <1>5 DEF UnlockPop, GoTo
  <2>2. \A t \in Tasks : BeingWoken(t) => BeingWoken(t)'
    BY <1>t, <2>1 DEF BeingWoken, InSection
  <2>3. \A t \in Tasks : Occurs(wait_queue, t) => Occurs(wait_queue, t)' \/ t = last
    BY <1>t, <2>1, OccursFront
  <2>4. pc'[u] = "handing" /\ wakes'[u] = last
    BY <1>t, <2>1
  <2>5. \A t \in Tasks : pc'[t] \in {"enqueued", "suspended", "diedWaiting"} => pc'[t] = pc[t]
    BY <1>t, <2>1
  <2>6. BeingWoken(last)'
    BY <2>4 DEF BeingWoken
  <2>7. WaitersKnown'
    BY <2>2, <2>3, <2>5, <2>6 DEF WakerInv, WaitersKnown, Waits
  <2>8. QueueLocked'
    BY <2>1 DEF WakerInv, QueueLocked
  <2>9. DeadCancelled' /\ LockedOwned'
    BY <2>1, <2>4, <2>5 DEF WakerInv, DeadCancelled, LockedOwned, Owns
  <2> QED
    BY <2>7, <2>8, <2>9 DEF WakerInv
<1>6. CASE HandOver(u)
  <2>1. /\ pc[u] = "handing" /\ wakes[u] \in Tasks
        /\ wakes' = [wakes EXCEPT ![u] = Nobody]
        /\ UNCHANGED <<locked, wait_queue, cancelRequested>>
    BY <1>6 DEF HandOver, TypeInv, KnowsWaiter, mutexVars
  <2>2. Dormant(wakes[u]) /\ wakes[u] # u
    BY <2>1 DEF QueueInv, PoppedDormant, Dormant
  <2>3. CASE pc[wakes[u]] = "diedWaiting"
    <3>1. pc' = [pc EXCEPT ![u] = "idle"]
      BY <1>6, <2>3 DEF HandOver
    <3>2. \A t \in Tasks : pc'[t] # "idle" => pc'[t] = pc[t]
      BY <1>t, <3>1
    <3>3. \A t \in Tasks : BeingWoken(t) => BeingWoken(t)' \/ t = wakes[u]
      BY <1>t, <2>1, <3>1 DEF BeingWoken
    <3>4. WaitersKnown'
      BY <2>1, <2>3, <3>2, <3>3 DEF WakerInv, WaitersKnown, Waits
    <3>5. cancelRequested[wakes[u]]
      BY <2>1, <2>3 DEF WakerInv, DeadCancelled
    <3>6. QueueLocked' /\ DeadCancelled' /\ LockedOwned'
      BY <2>1, <3>2, <3>5 DEF WakerInv, QueueLocked, DeadCancelled, LockedOwned, NobodyCancelled
    <3> QED
      BY <3>4, <3>6 DEF WakerInv
  <2>4. CASE pc[wakes[u]] # "diedWaiting"
    <3>1. pc' = [pc EXCEPT ![u] = "idle", ![wakes[u]] = "resumed"]
      BY <1>6, <2>4 DEF HandOver
    <3>2. wakes[u] \in Users /\ pc'[wakes[u]] = "resumed"
      BY <1>t, <2>1, <3>1
    <3>3. \E v \in Users : Owns(v)'
      <4>1. PICK v \in Users : v = wakes[u]
        BY <3>2
      <4> QED
        BY <3>2, <4>1 DEF Owns
    <3>4. \A t \in Tasks : t # wakes[u] /\ pc'[t] # "idle" => pc'[t] = pc[t]
      BY <1>t, <3>1
    <3>5. \A t \in Tasks : BeingWoken(t) => BeingWoken(t)' \/ t = wakes[u]
      <4>1. \A v \in Users : pc[v] = "handing" /\ v # u => pc'[v] = "handing" /\ wakes'[v] = wakes[v]
        BY <1>t, <2>1, <2>2, <3>1 DEF Dormant
      <4> QED
        BY <4>1 DEF BeingWoken
    <3>6. WaitersKnown'
      BY <2>1, <3>2, <3>4, <3>5 DEF WakerInv, WaitersKnown, Waits
    <3>7. QueueLocked' /\ DeadCancelled'
      BY <2>1, <3>2, <3>4 DEF WakerInv, QueueLocked, DeadCancelled
    <3>8. LockedOwned'
      BY <3>3 DEF LockedOwned
    <3> QED
      BY <3>6, <3>7, <3>8 DEF WakerInv
  <2> QED
    BY <2>3, <2>4
<1>7. CASE DieCancelled(u)
  <2>1. /\ u \in Tasks /\ cancelRequested[u] /\ pc[u] \in {"idle", "critical", "resumed"}
        /\ \/ pc[u] = "idle" /\ pc' = [pc EXCEPT ![u] = "diedIdle"]
           \/ pc[u] = "critical" /\ pc' = [pc EXCEPT ![u] = "diedHolding"]
           \/ pc[u] = "resumed" /\ pc' = [pc EXCEPT ![u] = "diedResumed"]
        /\ UNCHANGED <<locked, wait_queue, wakes, cancelRequested>>
    BY <1>7 DEF DieCancelled, GoTo, mutexVars
  <2>2. \A v \in Users : Owns(v) => Owns(v)'
    BY <1>t, <2>1 DEF Owns
  <2> QED
    BY <1>t, <2>1, <2>2, WakerKept DEF Waits
<1> QED
  BY <1>1, <1>2, <1>3, <1>4, <1>5, <1>6, <1>7 DEF UserStep

LEMMA WakerNext == TypeInv /\ QueueInv /\ WakerInv /\ [Next]_vars => WakerInv'
<1> SUFFICES ASSUME TypeInv, QueueInv, WakerInv, [Next]_vars PROVE WakerInv'
  OBVIOUS
<1>t. pc \in [Users -> Pcs] /\ Main \in Users /\ \A t \in Tasks : t \in Users /\ t # Main
  BY UsersDistinct DEF TypeInv, TypeOK, Users
<1>1. CASE SpinStart \/ SpinTimeout
  <2>1. /\ \/ pc[Main] = "idle" /\ pc' = [pc EXCEPT ![Main] = "spinning"]
           \/ pc[Main] = "spinning" /\ pc' = [pc EXCEPT ![Main] = "trespassing"]
        /\ UNCHANGED <<locked, wait_queue, wakes, cancelRequested>>
    BY <1>1 DEF SpinStart, SpinTimeout, GoTo, mutexVars
  <2>2. \A v \in Users : Owns(v) => Owns(v)'
    BY <1>t, <2>1 DEF Owns
  <2> QED
    BY <1>t, <2>1, <2>2, WakerKept DEF Waits
<1>2. CASE SpinTake
  <2>1. /\ pc[Main] = "spinning" /\ pc' = [pc EXCEPT ![Main] = "critical"] /\ locked'
        /\ UNCHANGED <<wait_queue, wakes, cancelRequested>>
    BY <1>2 DEF SpinTake, TakeLock, GoTo
  <2>2. Owns(Main)' /\ \A v \in Users : Owns(v) => Owns(v)'
    BY <1>t, <2>1 DEF Owns
  <2> QED
    BY <1>t, <2>1, <2>2, WakerKept DEF Waits
<1>3. ASSUME NEW t \in Tasks, Cancel(t) PROVE WakerInv'
  <2>1. /\ cancelRequested' = [cancelRequested EXCEPT ![t] = TRUE]
        /\ UNCHANGED <<locked, wait_queue, wakes>>
        /\ \/ UNCHANGED pc
           \/ pc[t] = "suspended" /\ pc' = [pc EXCEPT ![t] = "diedWaiting"]
           \/ pc[t] = "resumed" /\ pc' = [pc EXCEPT ![t] = "diedResumed"]
    BY <1>3 DEF Cancel, GoTo, mutexVars
  <2>2. cancelRequested'[t] /\ \A s \in Tasks : cancelRequested[s] => cancelRequested'[s]
    BY <2>1 DEF TypeInv, TypeOK
  <2>3. \A v \in Users : Owns(v) => Owns(v)'
    BY <1>t, <2>1 DEF Owns
  <2> QED
    BY <1>t, <2>1, <2>2, <2>3, WakerKept DEF Waits
<1>4. CASE UNCHANGED vars
  BY <1>4, WakerKept DEF vars, userVars, mutexVars, Owns, Waits
<1> QED
  BY <1>1, <1>2, <1>3, <1>4, WakerUser DEF Next, MainSpin

\* Until somebody is cancelled, a suspended or enlisted thread never waits for a
\* mutex that nobody is going to hand over (no lost wake-up), also when the entry
\* thread unlocks what it has not locked.
THEOREM WaitersHaveWakers == Spec => []WaiterHasWaker
<1>1. Init => QueueInv
  BY DEF Init, QueueInv, EnlistedOnce, EnlistedDormant, PoppedDormant, PoppedOnce, Occurs, NoRepeats
<1>2. Init => WakerInv
  BY UsersDistinct DEF Init, WakerInv, WaitersKnown, QueueLocked, DeadCancelled, LockedOwned, Users, Waits
<1>3. Spec => []QueueInv
  BY <1>1, QueueNext, TypeInvariant, PTL DEF Spec
<1> QED
  BY <1>2, <1>3, WakerNext, WakerImplies, TypeInvariant, PTL DEF Spec
=============================================================================
