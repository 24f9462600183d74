------------------------ MODULE SchedulerPlainProofs ------------------------
(***************************************************************************)
(* Programs whose tasks never suspend: they spawn, cancel, are preempted   *)
(* and end, on any number of stealing workers, while the entry thread also *)
(* resolves.  For them no task is lost or doubled, an executing thread     *)
(* owns its stack, the double-scheduling guard never fires, and every step *)
(* is a step of TaskLifecycle or invisible to it.                          *)
(***************************************************************************)
EXTENDS SchedulerProofs

\* What the operations of tasks are restricted to; the entry thread's are not.
NeverSuspends == TaskOps \subseteq {"spawn", "cancel", "preempt"}

Pending(t) == status[t] \in {"Runnable", "Running"}
Elems(s) == {s[i] : i \in DOMAIN s}
NoRepeats(s) == \A i, j \in DOMAIN s : s[i] = s[j] => i = j
OnCpu == {"claim", "exec", "out", "save", "yielded"}

\* Nobody waits for a task but the entry thread, in its condition variable, and
\* no subsystem has one.
NothingParked ==
  /\ \A t \in Tasks : greenWaiters[t] = <<>> /\ body[t] = "run" /\ status[t] # "Suspended"
  /\ jobs = {} /\ fds = {} /\ waitq = {}
  /\ \A w \in Workers : /\ pc[w] # "suspend"
                        /\ pc[w] \in {"out", "save", "yielded"} =>
                             reason[w].why \notin {"WaitingOnTask", "Parked"}

\* No two slots of queues and workers hold the same task ...
QueuesDistinct ==
  /\ NoRepeats(injector)
  /\ \A w \in Workers : NoRepeats(local[w]) /\ Elems(local[w]) \cap Elems(injector) = {}
  /\ \A v, w \in Workers : v # w => Elems(local[v]) \cap Elems(local[w]) = {}

HandsDistinct ==
  \A v, w \in Workers : /\ cur[v] = cur[w] /\ cur[v] # NoTask => v = w
                        /\ cur[v] \notin Elems(injector)
                        /\ cur[v] \notin Elems(local[w])

\* ... none holds one that was not spawned, and a pending one is in some slot.
Somewhere(t) ==
  t \in Elems(injector) \/ \E w \in Workers : t \in Elems(local[w]) \/ cur[w] = t

Placed ==
  \A t \in Tasks : /\ Pending(t) => Somewhere(t)
                   /\ Somewhere(t) => status[t] # "unborn"

Slots == QueuesDistinct /\ HandsDistinct /\ Placed

\* A worker that looks for a thread has none; one that runs a thread runs it
\* alone, and the flag running_on_worker is set for such a thread only.
WorkersHold ==
  \A w \in Workers : /\ pc[w] \in {"find", "idle"} => cur[w] = NoTask
                     /\ pc[w] \in OnCpu => status[cur[w]] = "Running"

StacksKept == \A t \in Tasks : Pending(t) => hasStack[t]

FlagOwned == \A t \in Tasks : onWorker[t] => \E w \in Workers : pc[w] \in {"exec", "out"} /\ cur[w] = t

\* The entry thread resolves a task, and takes an outcome when there is one.
TargetOver == /\ body[Main] # "run" => target[Main] \in Tasks
              /\ body[Main] \in {"consume", "recycle", "clear"} => is_terminal(target[Main])

\* A worker recycles the stack of a thread that is over.
RecycledOver == \A w \in Workers : pc[w] \in {"recycle", "clear"} => is_terminal(cur[w])

PlainInv ==
  /\ NothingParked
  /\ Slots
  /\ WorkersHold /\ StacksKept /\ FlagOwned
  /\ RecycledOver /\ TargetOver /\ ConsumedInv
  /\ ~aborted

-----------------------------------------------------------------------------
(* Queues as sets of tasks *)

LEMMA ElemsType == ASSUME NEW S, NEW s \in Seq(S) PROVE Elems(s) \subseteq S
  BY DEF Elems

LEMMA ElemsEmpty == Elems(<<>>) = {} /\ NoRepeats(<<>>)
  BY DEF Elems, NoRepeats

\* Taking the front off a queue.
LEMMA FrontTaken ==
  ASSUME NEW S, NEW s \in Seq(S), s # <<>>
  PROVE  /\ Head(s) \in S /\ Tail(s) \in Seq(S)
         /\ Elems(s) = {Head(s)} \cup Elems(Tail(s))
         /\ NoRepeats(s) => NoRepeats(Tail(s)) /\ Head(s) \notin Elems(Tail(s))
<1>1. /\ Len(s) \in Nat \ {0} /\ DOMAIN s = 1..Len(s)
      /\ Head(s) = s[1] /\ Tail(s) \in Seq(S)
      /\ DOMAIN Tail(s) = 1..(Len(s) - 1)
      /\ \A i \in 1..(Len(s) - 1) : Tail(s)[i] = s[i + 1]
  OBVIOUS
<1> DEFINE n == Len(s)
           r == Tail(s)
<1>2. /\ n \in Nat \ {0} /\ DOMAIN s = 1..n /\ Head(s) = s[1] /\ DOMAIN r = 1..(n - 1)
      /\ \A i \in 1..(n - 1) : r[i] = s[i + 1]
  BY <1>1
<1>3. Head(s) \in S
  OBVIOUS
<1> HIDE DEF n, r
<1>4. Elems(s) = {Head(s)} \cup Elems(r)
  <2>1. Elems(s) \subseteq {Head(s)} \cup Elems(r)
    <3> SUFFICES ASSUME NEW i \in 1..n PROVE s[i] \in {Head(s)} \cup Elems(r)
      BY <1>2 DEF Elems
    <3>1. CASE i = 1
      BY <1>2, <3>1
    <3>2. CASE (i - 1) \in 1..(n - 1) /\ i = (i - 1) + 1
      BY <1>2, <3>2 DEF Elems
    <3> QED BY <1>2, <3>1, <3>2
  <2>2. 1 \in 1..n /\ \A i \in 1..(n - 1) : i + 1 \in 1..n
    BY <1>2
  <2>3. Elems(r) \subseteq Elems(s)
    BY <1>2, <2>2 DEF Elems
  <2>4. Head(s) \in Elems(s)
    BY <1>2, <2>2 DEF Elems
  <2> QED BY <2>1, <2>3, <2>4
<1>5. NoRepeats(s) => NoRepeats(r) /\ Head(s) \notin Elems(r)
  <2> SUFFICES ASSUME NoRepeats(s) PROVE NoRepeats(r) /\ Head(s) \notin Elems(r)
    OBVIOUS
  <2>1. \A i, j \in 1..n : s[i] = s[j] => i = j
    BY <1>2 DEF NoRepeats
  <2>2. 1 \in 1..n /\ \A i \in 1..(n - 1) : i + 1 \in 1..n /\ i + 1 # 1
    BY <1>2
  <2>3. \A i, j \in 1..(n - 1) : i + 1 = j + 1 => i = j
    BY <1>2
  <2>4. NoRepeats(r)
    BY <1>2, <2>1, <2>2, <2>3 DEF NoRepeats
  <2>5. \A i \in 1..(n - 1) : r[i] # s[1]
    BY <1>2, <2>1, <2>2
  <2>6. Head(s) \notin Elems(r)
    BY <1>2, <2>5 DEF Elems
  <2> QED BY <2>4, <2>6
<1> QED BY <1>1, <1>3, <1>4, <1>5 DEF r

\* Taking the front and a batch behind it.
LEMMA BatchTaken ==
  ASSUME NEW S, NEW s \in Seq(S), NEW k \in 1..Len(s)
  PROVE  LET batch == SubSeq(s, 2, k)
             rest == SubSeq(s, k + 1, Len(s))
         IN /\ Head(s) \in S /\ batch \in Seq(S) /\ rest \in Seq(S)
            /\ Elems(s) = {Head(s)} \cup Elems(batch) \cup Elems(rest)
            /\ NoRepeats(s) => /\ NoRepeats(batch) /\ NoRepeats(rest)
                               /\ Elems(batch) \cap Elems(rest) = {}
                               /\ Head(s) \notin Elems(batch) \cup Elems(rest)
<1> DEFINE n == Len(s)
           b == SubSeq(s, 2, k)
           r == SubSeq(s, k + 1, n)
<1>1. n \in Nat /\ k \in 1..n /\ DOMAIN s = 1..n /\ s \in [1..n -> S]
  OBVIOUS
<1>2. Head(s) \in S /\ Head(s) = s[1] /\ b \in Seq(S) /\ r \in Seq(S)
  OBVIOUS
<1>3. DOMAIN b = 1..(k - 1) /\ \A i \in 1..(k - 1) : b[i] = s[i + 1]
  BY <1>1
<1>4. DOMAIN r = 1..(n - k) /\ \A i \in 1..(n - k) : r[i] = s[i + k]
  BY <1>1
<1> HIDE DEF n, b, r
<1>5. /\ 1 \in 1..n
      /\ \A i \in 1..(k - 1) : i + 1 \in 1..n /\ i + 1 # 1
      /\ \A i \in 1..(n - k) : i + k \in 1..n /\ i + k # 1
      /\ \A i \in 1..(k - 1), j \in 1..(n - k) : i + 1 # j + k
      /\ \A i, j \in 1..(k - 1) : i + 1 = j + 1 => i = j
      /\ \A i, j \in 1..(n - k) : i + k = j + k => i = j
  BY <1>1
<1>6. Elems(s) = {Head(s)} \cup Elems(b) \cup Elems(r)
  <2>1. \A i \in 1..n : \/ i = 1
                        \/ (i - 1) \in 1..(k - 1) /\ i = (i - 1) + 1
                        \/ (i - k) \in 1..(n - k) /\ i = (i - k) + k
    BY <1>1
  <2>2. Elems(s) \subseteq {Head(s)} \cup Elems(b) \cup Elems(r)
    <3> SUFFICES ASSUME NEW i \in 1..n PROVE s[i] \in {Head(s)} \cup Elems(b) \cup Elems(r)
      BY <1>1 DEF Elems
    <3>1. CASE i = 1
      BY <1>2, <3>1
    <3>2. CASE (i - 1) \in 1..(k - 1) /\ i = (i - 1) + 1
      BY <1>3, <3>2 DEF Elems
    <3>3. CASE (i - k) \in 1..(n - k) /\ i = (i - k) + k
      BY <1>4, <3>3 DEF Elems
    <3> QED BY <2>1, <3>1, <3>2, <3>3
  <2>3. {Head(s)} \cup Elems(b) \cup Elems(r) \subseteq Elems(s)
    <3>1. Head(s) \in Elems(s)
      BY <1>1, <1>2, <1>5 DEF Elems
    <3>2. Elems(b) \subseteq Elems(s)
      BY <1>1, <1>3, <1>5 DEF Elems
    <3>3. Elems(r) \subseteq Elems(s)
      BY <1>1, <1>4, <1>5 DEF Elems
    <3> QED BY <3>1, <3>2, <3>3
  <2> QED BY <2>2, <2>3
<1>7. ASSUME NoRepeats(s)
      PROVE  /\ NoRepeats(b) /\ NoRepeats(r) /\ Elems(b) \cap Elems(r) = {}
             /\ Head(s) \notin Elems(b) \cup Elems(r)
  <2>1. \A i, j \in 1..n : s[i] = s[j] => i = j
    BY <1>1, <1>7 DEF NoRepeats
  <2>2. NoRepeats(b)
    BY <1>3, <1>5, <2>1 DEF NoRepeats
  <2>3. NoRepeats(r)
    BY <1>4, <1>5, <2>1 DEF NoRepeats
  <2>4. Elems(b) \cap Elems(r) = {}
    BY <1>3, <1>4, <1>5, <2>1 DEF Elems
  <2>5. Head(s) \notin Elems(b) \cup Elems(r)
    <3>1. \A i \in 1..(k - 1) : b[i] # s[1]
      BY <1>3, <1>5, <2>1
    <3>2. \A i \in 1..(n - k) : r[i] # s[1]
      BY <1>4, <1>5, <2>1
    <3> QED BY <1>2, <1>3, <1>4, <3>1, <3>2 DEF Elems
  <2> QED BY <2>2, <2>3, <2>4, <2>5
<1> QED BY <1>2, <1>6, <1>7 DEF b, r, n

\* Adding a task at the back.
LEMMA BackAdded ==
  ASSUME NEW S, NEW s \in Seq(S), NEW e \in S
  PROVE  /\ Append(s, e) \in Seq(S) /\ Elems(Append(s, e)) = Elems(s) \cup {e}
         /\ NoRepeats(s) /\ e \notin Elems(s) => NoRepeats(Append(s, e))
<1> DEFINE n == Len(s)
           r == Append(s, e)
<1>1. n \in Nat /\ DOMAIN s = 1..n /\ r \in Seq(S)
  OBVIOUS
<1>2. DOMAIN r = 1..(n + 1) /\ r[n + 1] = e /\ \A i \in 1..n : r[i] = s[i]
  OBVIOUS
<1> HIDE DEF n, r
<1>3. \A i \in 1..(n + 1) : i = n + 1 \/ i \in 1..n
  BY <1>1
<1>4. n + 1 \in 1..(n + 1) /\ \A i \in 1..n : i \in 1..(n + 1)
  BY <1>1
<1>5. Elems(r) = Elems(s) \cup {e}
  BY <1>1, <1>2, <1>3, <1>4 DEF Elems
<1>6. NoRepeats(s) /\ e \notin Elems(s) => NoRepeats(r)
  BY <1>1, <1>2, <1>3, <1>4 DEF Elems, NoRepeats
<1> QED BY <1>1, <1>5, <1>6 DEF r

-----------------------------------------------------------------------------
(* Steps that move a task from one slot to another *)

LEMMA SlotsKept ==
  ASSUME Slots, UNCHANGED <<injector, local, cur>>,
         \A t \in Tasks : /\ Pending(t)' => Pending(t)
                          /\ status[t] # "unborn" => status'[t] # "unborn"
  PROVE  Slots'
<1>1. QueuesDistinct' /\ HandsDistinct'
  BY DEF Slots, QueuesDistinct, HandsDistinct
<1>2. \A t \in Tasks : Somewhere(t)' <=> Somewhere(t)
  BY DEF Somewhere
<1>3. Placed'
  BY <1>2 DEF Slots, Placed
<1> QED BY <1>1, <1>3 DEF Slots

\* find_task takes the front of a deque, the worker's own or another's.
LEMMA TakeFront ==
  ASSUME TypeInv, Slots, UNCHANGED <<injector, status>>, NEW w \in Workers, NEW v \in Workers,
         cur[w] = NoTask, local[v] # <<>>,
         cur' = [cur EXCEPT ![w] = Head(local[v])], local' = [local EXCEPT ![v] = Tail(@)]
  PROVE  Slots' /\ Head(local[v]) \in Tasks
<1> DEFINE h == Head(local[v])
<1>1. /\ local[v] \in Seq(Tasks) /\ local \in [Workers -> Seq(Tasks)]
      /\ cur \in [Workers -> Tasks \cup {NoTask}]
  BY DEF TypeInv, TypeOK
<1>2. /\ h \in Tasks
      /\ Elems(local[v]) = {h} \cup Elems(Tail(local[v]))
      /\ NoRepeats(Tail(local[v])) /\ h \notin Elems(Tail(local[v]))
  BY <1>1, FrontTaken DEF Slots, QueuesDistinct
<1>3. /\ cur'[w] = h /\ \A u \in Workers \ {w} : cur'[u] = cur[u]
      /\ local'[v] = Tail(local[v]) /\ \A u \in Workers \ {v} : local'[u] = local[u]
  BY <1>1
<1> HIDE DEF h
<1>4. h # NoTask
  BY <1>2, ActorsDistinct
<1>5. \A u \in Workers : Elems(local'[u]) \subseteq Elems(local[u]) /\ h \notin Elems(local'[u])
  BY <1>2, <1>3 DEF Slots, QueuesDistinct
<1>6. QueuesDistinct'
  <2>1. \A u \in Workers : NoRepeats(local'[u])
    BY <1>2, <1>3 DEF Slots, QueuesDistinct
  <2> QED BY <1>5, <2>1 DEF Slots, QueuesDistinct
<1>7. HandsDistinct'
  <2>1. h \notin Elems(injector) /\ \A u \in Workers : cur[u] # h
    BY <1>2 DEF Slots, QueuesDistinct, HandsDistinct
  <2> QED BY <1>3, <1>5, <2>1 DEF Slots, HandsDistinct
<1>8. \A t \in Tasks : Somewhere(t)' <=> Somewhere(t)
  <2> SUFFICES ASSUME NEW t \in Tasks PROVE Somewhere(t)' <=> Somewhere(t)
    OBVIOUS
  <2>1. t # NoTask
    BY ActorsDistinct
  <2>2. (\E u \in Workers : t \in Elems(local[u])) <=> t = h \/ \E u \in Workers : t \in Elems(local'[u])
    BY <1>2, <1>3
  <2>3. (\E u \in Workers : cur'[u] = t) <=> t = h \/ \E u \in Workers : cur[u] = t
    BY <1>3, <2>1
  <2> QED BY <2>2, <2>3 DEF Somewhere
<1> QED BY <1>2, <1>6, <1>7, <1>8 DEF Slots, Placed, Pending, h

LEMMA TakeBatch ==
  ASSUME TypeInv, Slots, UNCHANGED status, NEW w \in Workers,
         cur[w] = NoTask, local[w] = <<>>, NEW k \in 1..Len(injector),
         cur' = [cur EXCEPT ![w] = Head(injector)],
         local' = [local EXCEPT ![w] = SubSeq(injector, 2, k)],
         injector' = SubSeq(injector, k + 1, Len(injector))
  PROVE  Slots' /\ Head(injector) \in Tasks
<1> DEFINE h == Head(injector)
           b == SubSeq(injector, 2, k)
           r == SubSeq(injector, k + 1, Len(injector))
<1>1. /\ injector \in Seq(Tasks) /\ local \in [Workers -> Seq(Tasks)]
      /\ cur \in [Workers -> Tasks \cup {NoTask}]
  BY SMTT(30) DEF TypeInv, TypeOK
<1>2. /\ h \in Tasks
      /\ Elems(injector) = {h} \cup Elems(b) \cup Elems(r)
      /\ NoRepeats(b) /\ NoRepeats(r) /\ Elems(b) \cap Elems(r) = {}
      /\ h \notin Elems(b) \cup Elems(r)
  BY <1>1, BatchTaken DEF Slots, QueuesDistinct
<1>3. /\ cur'[w] = h /\ \A u \in Workers \ {w} : cur'[u] = cur[u]
      /\ local'[w] = b /\ \A u \in Workers \ {w} : local'[u] = local[u]
      /\ injector' = r
  BY <1>1
<1>4. Elems(local[w]) = {}
  BY ElemsEmpty
<1> HIDE DEF h, b, r
<1>5. h # NoTask
  BY <1>2, ActorsDistinct
<1>6. QueuesDistinct'
  <2>1. NoRepeats(injector') /\ \A u \in Workers : NoRepeats(local'[u])
    BY <1>2, <1>3 DEF Slots, QueuesDistinct
  <2>2. \A u \in Workers : Elems(local'[u]) \cap Elems(injector') = {}
    BY <1>2, <1>3 DEF Slots, QueuesDistinct
  <2>3. \A u \in Workers \ {w} : Elems(b) \cap Elems(local[u]) = {}
    BY <1>2 DEF Slots, QueuesDistinct
  <2>4. \A u, v \in Workers : u # v => Elems(local[u]) \cap Elems(local[v]) = {}
    BY DEF Slots, QueuesDistinct
  <2>5. ASSUME NEW u \in Workers, NEW v \in Workers, u # v
        PROVE  Elems(local'[u]) \cap Elems(local'[v]) = {}
    <3>1. CASE u = w
      BY <1>3, <2>3, <2>5, <3>1
    <3>2. CASE v = w
      BY <1>3, <2>3, <2>5, <3>2
    <3>3. CASE u # w /\ v # w
      BY <1>3, <2>4, <2>5, <3>3
    <3> QED BY <3>1, <3>2, <3>3
  <2> QED BY <2>1, <2>2, <2>5, Zenon DEF QueuesDistinct
<1>7. HandsDistinct'
  <2>1. \A u \in Workers : cur[u] # h /\ cur[u] \notin Elems(b) \cup Elems(r) /\ h \notin Elems(local[u])
    BY <1>2 DEF Slots, QueuesDistinct, HandsDistinct
  <2>2. \A u \in Workers : cur'[u] \notin Elems(b) \cup Elems(r)
    BY <1>2, <1>3, <2>1
  <2>3. \A u, v \in Workers : cur'[u] \notin Elems(local[v])
    BY <1>3, <2>1 DEF Slots, HandsDistinct
  <2>4. \A u, v \in Workers : cur'[u] \notin Elems(local'[v])
    BY <1>3, <2>2, <2>3
  <2>5. \A u, v \in Workers : cur'[u] = cur'[v] /\ cur'[u] # NoTask => u = v
    BY <1>3, <2>1 DEF Slots, HandsDistinct
  <2> QED BY <1>3, <2>2, <2>4, <2>5 DEF HandsDistinct
<1>8. \A t \in Tasks : Somewhere(t)' <=> Somewhere(t)
  <2> SUFFICES ASSUME NEW t \in Tasks PROVE Somewhere(t)' <=> Somewhere(t)
    OBVIOUS
  <2>1. t # NoTask
    BY ActorsDistinct
  <2>2. (\E u \in Workers : t \in Elems(local'[u])) <=> t \in Elems(b) \/ \E u \in Workers : t \in Elems(local[u])
    BY <1>3, <1>4
  <2>3. (\E u \in Workers : cur'[u] = t) <=> t = h \/ \E u \in Workers : cur[u] = t
    BY <1>3, <2>1
  <2> QED BY <1>2, <1>3, <2>2, <2>3 DEF Somewhere
<1> QED BY <1>2, <1>6, <1>7, <1>8 DEF Slots, Placed, Pending, h

\* A worker lets go of a task that is over.
LEMMA LetGo ==
  ASSUME TypeInv, Slots, UNCHANGED <<injector, local>>, NEW w \in Workers,
         cur' = [cur EXCEPT ![w] = NoTask],
         \A t \in Tasks : /\ Pending(t)' => Pending(t) /\ t # cur[w]
                          /\ status[t] # "unborn" => status'[t] # "unborn"
  PROVE  Slots'
<1>1. /\ cur \in [Workers -> Tasks \cup {NoTask}] /\ injector \in Seq(Tasks)
      /\ local \in [Workers -> Seq(Tasks)]
  BY DEF TypeInv, TypeOK
<1>2. cur'[w] = NoTask /\ \A u \in Workers \ {w} : cur'[u] = cur[u]
  BY <1>1
<1>3. QueuesDistinct'
  BY DEF Slots, QueuesDistinct
<1>4. HandsDistinct'
  <2>1. NoTask \notin Elems(injector) /\ \A u \in Workers : NoTask \notin Elems(local[u])
    BY <1>1, ElemsType, ActorsDistinct
  <2> QED BY <1>2, <2>1 DEF Slots, HandsDistinct
<1>5. \A t \in Tasks : /\ Somewhere(t)' => Somewhere(t)
                       /\ Somewhere(t) /\ t # cur[w] => Somewhere(t)'
  BY <1>2, ActorsDistinct DEF Somewhere
<1>6. Placed'
  BY <1>5 DEF Slots, Placed
<1> QED BY <1>3, <1>4, <1>6 DEF Slots

\* A worker puts its task back, at the end of its own deque.
LEMMA PutBack ==
  ASSUME TypeInv, Slots, UNCHANGED injector, NEW w \in Workers, cur[w] \in Tasks,
         status[cur[w]] # "unborn", status' = [status EXCEPT ![cur[w]] = "Runnable"],
         local' = [local EXCEPT ![w] = Append(@, cur[w])], cur' = [cur EXCEPT ![w] = NoTask]
  PROVE  Slots'
<1> PICK c \in Tasks : c = cur[w]
  OBVIOUS
<1>1. /\ cur \in [Workers -> Tasks \cup {NoTask}] /\ injector \in Seq(Tasks)
      /\ local \in [Workers -> Seq(Tasks)] /\ status \in [Tasks -> Statuses]
  BY DEF TypeInv, TypeOK
<1>2. cur'[w] = NoTask /\ \A u \in Workers \ {w} : cur'[u] = cur[u] /\ local'[u] = local[u]
  BY <1>1
<1>3. c # NoTask /\ c \notin Elems(injector) /\ \A u \in Workers : c \notin Elems(local[u]) /\ (cur[u] = c => u = w)
  BY ActorsDistinct DEF Slots, HandsDistinct
<1>4. /\ Elems(local'[w]) = Elems(local[w]) \cup {c}
      /\ NoRepeats(local'[w])
  <2>1. local'[w] = Append(local[w], c) /\ local[w] \in Seq(Tasks)
    BY <1>1
  <2> QED BY <1>3, <2>1, BackAdded DEF Slots, QueuesDistinct
<1>5. QueuesDistinct'
  <2>1. \A u \in Workers : NoRepeats(local'[u]) /\ Elems(local'[u]) \cap Elems(injector) = {}
    BY <1>2, <1>3, <1>4 DEF Slots, QueuesDistinct
  <2>2. \A u, v \in Workers : u # v => Elems(local'[u]) \cap Elems(local'[v]) = {}
    BY <1>2, <1>3, <1>4 DEF Slots, QueuesDistinct
  <2> QED BY <2>1, <2>2 DEF Slots, QueuesDistinct
<1>6. HandsDistinct'
  <2>1. NoTask \notin Elems(injector) /\ \A u \in Workers : NoTask \notin Elems(local[u])
    BY <1>1, ElemsType, ActorsDistinct
  <2>2. \A u, v \in Workers : cur'[u] \notin Elems(local'[v])
    BY <1>2, <1>3, <1>4, <2>1 DEF Slots, HandsDistinct
  <2> QED BY <1>2, <2>1, <2>2 DEF Slots, HandsDistinct
<1>7. \A t \in Tasks : Somewhere(t)' <=> Somewhere(t)
  <2> SUFFICES ASSUME NEW t \in Tasks PROVE Somewhere(t)' <=> Somewhere(t)
    OBVIOUS
  <2>1. t # NoTask
    BY ActorsDistinct
  <2>2. (\E u \in Workers : t \in Elems(local'[u])) <=> t = c \/ \E u \in Workers : t \in Elems(local[u])
    BY <1>2, <1>4
  <2>3. (\E u \in Workers : cur[u] = t) <=> t = c \/ \E u \in Workers : cur'[u] = t
    BY <1>2, <1>3, <2>1
  <2> QED BY <2>2, <2>3 DEF Somewhere
<1>8. Placed'
  <2>1. Somewhere(c)
    BY DEF Somewhere
  <2> QED BY <1>1, <1>7, <2>1 DEF Slots, Placed, Pending
<1> QED BY <1>5, <1>6, <1>8 DEF Slots

\* A new task enters the injector.
LEMMA Injected ==
  ASSUME TypeInv, Slots, UNCHANGED <<local, cur>>, NEW t \in Tasks, status[t] = "unborn",
         status' = [status EXCEPT ![t] = "Runnable"], injector' = Append(injector, t)
  PROVE  Slots'
<1>1. /\ injector \in Seq(Tasks) /\ status \in [Tasks -> Statuses]
  BY DEF TypeInv, TypeOK
<1>2. ~Somewhere(t)
  BY DEF Slots, Placed
<1>3. t \notin Elems(injector) /\ \A u \in Workers : t \notin Elems(local[u]) /\ cur[u] # t
  BY <1>2 DEF Somewhere
<1>4. Elems(injector') = Elems(injector) \cup {t} /\ NoRepeats(injector')
  BY <1>1, <1>3, BackAdded DEF Slots, QueuesDistinct
<1>5. QueuesDistinct' /\ HandsDistinct'
  <2>1. QueuesDistinct'
    BY <1>3, <1>4 DEF Slots, QueuesDistinct
  <2>2. \A u \in Workers : cur[u] \notin Elems(injector')
    BY <1>3, <1>4 DEF Slots, HandsDistinct
  <2> QED BY <2>1, <2>2 DEF Slots, HandsDistinct
<1>6. \A u \in Tasks : Somewhere(u)' <=> u = t \/ Somewhere(u)
  BY <1>4 DEF Somewhere
<1>7. Placed'
  BY <1>1, <1>6 DEF Slots, Placed, Pending
<1> QED BY <1>5, <1>7 DEF Slots

-----------------------------------------------------------------------------
(* Each action keeps the invariant *)

\* The flags are left alone, and w neither starts nor stops executing.
LEMMA FlagsKept ==
  ASSUME FlagOwned, UNCHANGED onWorker, NEW w \in Workers,
         \A v \in Workers \ {w} : pc'[v] = pc[v] /\ cur'[v] = cur[v],
         \/ pc[w] \notin {"exec", "out"}
         \/ pc'[w] \in {"exec", "out"} /\ cur'[w] = cur[w]
  PROVE  FlagOwned'
  BY DEF FlagOwned

\* A step that changes one worker's place in its loop, and of the tasks' state
\* at most that of the pending task it holds.
LEMMA LoopStep ==
  ASSUME TypeInv, PlainInv, ConsumedInv', Slots', FlagOwned', NEW w \in Workers,
         UNCHANGED <<greenWaiters, body, target, jobs, fds, waitq, aborted>>,
         \A v \in Workers \ {w} : pc'[v] = pc[v] /\ cur'[v] = cur[v] /\ reason'[v] = reason[v],
         pc'[w] # "suspend",
         pc'[w] \in {"out", "save", "yielded"} => reason'[w].why \notin {"WaitingOnTask", "Parked"},
         pc'[w] \in {"find", "idle"} => cur'[w] = NoTask,
         pc'[w] \in OnCpu => status'[cur'[w]] = "Running",
         pc'[w] \in {"recycle", "clear"} => cur'[w] \in Tasks /\ status'[cur'[w]] \in Terminal,
         \A t \in Tasks : \/ status'[t] = status[t] /\ (Pending(t) => hasStack'[t])
                          \/ /\ t = cur[w] /\ ~is_terminal(t) /\ status'[t] # "Suspended"
                             /\ Pending(t)' => Pending(t) /\ hasStack'[t] = hasStack[t]
  PROVE  PlainInv'
<1>1. NothingParked'
  BY DEF PlainInv, NothingParked
<1>2. WorkersHold'
  <2> SUFFICES ASSUME NEW v \in Workers \ {w}, pc[v] \in OnCpu PROVE status'[cur[v]] = "Running"
    BY DEF PlainInv, WorkersHold
  <2>1. cur[v] \in Tasks /\ status[cur[v]] = "Running"
    BY DEF TypeInv, HoldsTask, OnCpu, PlainInv, WorkersHold
  <2>2. cur[v] # cur[w]
    BY <2>1, ActorsDistinct DEF PlainInv, Slots, HandsDistinct
  <2> QED BY <2>1, <2>2
<1>3. StacksKept'
  BY DEF PlainInv, StacksKept, Pending
<1>4. TargetOver'
  BY DEF PlainInv, TargetOver, is_terminal
<1>5. RecycledOver'
  <2> SUFFICES ASSUME NEW v \in Workers \ {w}, pc[v] \in {"recycle", "clear"}
               PROVE  status'[cur[v]] \in Terminal
    BY DEF RecycledOver, is_terminal
  <2>1. cur[v] \in Tasks /\ is_terminal(cur[v])
    BY DEF TypeInv, HoldsTask, PlainInv, RecycledOver
  <2> QED BY <2>1 DEF is_terminal
<1> QED BY <1>1, <1>2, <1>3, <1>4, <1>5 DEF PlainInv

LEMMA FindPlain ==
  ASSUME TypeInv, PlainInv, ConsumedInv', NEW w \in Workers,
         PopLocal(w) \/ StealBatch(w) \/ \E v \in Workers \ {w} : StealFrom(w, v)
  PROVE  PlainInv'
<1>0. /\ pc \in [Workers -> WorkerPcs] /\ cur \in [Workers -> Tasks \cup {NoTask}]
      /\ injector \in Seq(Tasks)
  BY DEF TypeInv, TypeOK
<1>1. /\ pc[w] = "find" /\ pc' = [pc EXCEPT ![w] = "check"]
      /\ UNCHANGED <<taskVars, onWorker, reason, bodyVars, subsystemVars, aborted>>
      /\ \E h : cur' = [cur EXCEPT ![w] = h]
  BY DEF PopLocal, StealBatch, StealFrom, GoTo
<1>2. pc'[w] = "check" /\ \A v \in Workers \ {w} : pc'[v] = pc[v] /\ cur'[v] = cur[v]
  BY <1>0, <1>1
<1>3. cur[w] = NoTask
  BY <1>1 DEF PlainInv, WorkersHold
<1>4. Slots'
  <2>1. CASE PopLocal(w)
    BY <1>1, <1>3, <2>1, TakeFront DEF PopLocal, PlainInv, taskVars
  <2>2. CASE \E v \in Workers \ {w} : StealFrom(w, v)
    <3> PICK v \in Workers \ {w} : StealFrom(w, v)
      BY <2>2
    <3> QED BY <1>1, <1>3, TakeFront DEF StealFrom, PlainInv, taskVars
  <2>3. CASE StealBatch(w)
    <3>1. PICK k \in 1..Len(injector) : /\ local' = [local EXCEPT ![w] = SubSeq(injector, 2, k)]
                                        /\ injector' = SubSeq(injector, k + 1, Len(injector))
      BY <2>3 DEF StealBatch
    <3> QED BY <1>1, <1>3, <2>3, <3>1, TakeBatch DEF StealBatch, PlainInv, taskVars
  <2> QED BY <2>1, <2>2, <2>3
<1>5. FlagOwned'
  BY <1>1, <1>2, FlagsKept DEF PlainInv
<1> QED
  BY <1>1, <1>2, <1>4, <1>5, LoopStep DEF taskVars, bodyVars, subsystemVars, OnCpu, PlainInv, StacksKept

LEMMA IdlePlain ==
  ASSUME TypeInv, PlainInv, ConsumedInv', NEW w \in Workers, FindNone(w) \/ poll_io(w) PROVE PlainInv'
<1>0. pc \in [Workers -> WorkerPcs] /\ injector \in Seq(Tasks)
  BY DEF TypeInv, TypeOK
<1>1. /\ pc[w] \in {"find", "idle"}
      /\ pc' = [pc EXCEPT ![w] = "idle"] \/ pc' = [pc EXCEPT ![w] = "find"]
      /\ UNCHANGED <<taskVars, onWorker, local, cur, reason, bodyVars, jobs, waitq, aborted>>
  BY DEF FindNone, poll_io, GoTo, queueVars, subsystemVars
<1>2. pc'[w] \in {"find", "idle"} /\ \A v \in Workers \ {w} : pc'[v] = pc[v]
  BY <1>0, <1>1
<1>3. UNCHANGED <<injector, fds>>
  <2>1. CASE FindNone(w)
    BY <2>1 DEF FindNone, queueVars, subsystemVars
  <2>2. CASE poll_io(w)
    <3>1. fds = {}
      BY DEF PlainInv, NothingParked
    <3>2. \E order \in [1..Cardinality({}) -> {}] : injector' = injector \o order
      BY <2>2, <3>1 DEF poll_io
    <3>3. PICK order \in [1..0 -> {}] : injector' = injector \o order
      BY <3>2, FS_EmptySet
    <3>4. order = <<>>
      BY <3>3
    <3>5. injector' = injector
      BY <1>0, <3>3, <3>4
    <3> QED BY <2>2, <3>1, <3>5 DEF poll_io
  <2> QED BY <2>1, <2>2
<1>4. cur[w] = NoTask
  BY <1>1 DEF PlainInv, WorkersHold
<1>5. Slots'
  BY <1>1, <1>3, SlotsKept DEF PlainInv, taskVars, Pending
<1>6. FlagOwned'
  BY <1>1, <1>2, FlagsKept DEF PlainInv
<1> QED
  BY <1>1, <1>2, <1>3, <1>4, <1>5, <1>6, LoopStep DEF taskVars, bodyVars, OnCpu, PlainInv, StacksKept

\* Whoever ends a task wakes nobody.
LEMMA EndsAlone ==
  ASSUME TypeInv, PlainInv, NEW t \in Tasks, NEW outcome, BecomeTerminal(t, outcome)
  PROVE  /\ UNCHANGED <<greenWaiters, injector>>
         /\ status'[t] = outcome /\ \A u \in Tasks \ {t} : status'[u] = status[u]
<1>1. /\ greenWaiters \in [Tasks -> Seq(Tasks)] /\ greenWaiters[t] = <<>> /\ injector \in Seq(Tasks)
      /\ status \in [Tasks -> Statuses]
  BY DEF TypeInv, TypeOK, PlainInv, NothingParked
<1>2. injector' = injector
  BY <1>1 DEF BecomeTerminal
<1>3. greenWaiters' = greenWaiters
  BY <1>1 DEF BecomeTerminal
<1> QED BY <1>1, <1>2, <1>3 DEF BecomeTerminal

\* The worker ends the thread it holds, and keeps it while it recycles the stack.
LEMMA EndPlain ==
  ASSUME TypeInv, PlainInv, ConsumedInv', NEW w \in Workers,
         CancelBeforeRun(w) \/ complete_thread(w) \/ HandleCancelled(w)
  PROVE  PlainInv'
<1>0. pc \in [Workers -> WorkerPcs] /\ cur \in [Workers -> Tasks \cup {NoTask}]
  BY DEF TypeInv, TypeOK
<1>1. /\ pc[w] \in {"check", "yielded"} /\ pc' = [pc EXCEPT ![w] = "recycle"]
      /\ UNCHANGED <<hasStack, onWorker, local, cur, reason, bodyVars, subsystemVars, aborted>>
  BY DEF CancelBeforeRun, complete_thread, HandleCancelled, GoTo
<1>2. pc'[w] = "recycle" /\ \A v \in Workers \ {w} : pc'[v] = pc[v]
  BY <1>0, <1>1
<1>3. cur[w] \in Tasks /\ (pc[w] = "yielded" => status[cur[w]] = "Running")
  BY <1>1 DEF TypeInv, HoldsTask, PlainInv, WorkersHold, OnCpu
<1>4. ~is_terminal(cur[w]) /\ \E o \in Terminal : BecomeTerminal(cur[w], o)
  BY <1>3 DEF CancelBeforeRun, complete_thread, HandleCancelled, is_terminal, Terminal
<1>5. /\ UNCHANGED <<injector, greenWaiters>>
      /\ \A t \in Tasks \ {cur[w]} : status'[t] = status[t]
      /\ status'[cur[w]] \in Terminal
  BY <1>3, <1>4, EndsAlone
<1>6. Slots'
  BY <1>1, <1>3, <1>5, SlotsKept DEF PlainInv, Pending, Terminal
<1>7. FlagOwned'
  BY <1>1, <1>2, FlagsKept DEF PlainInv
<1>8. \A t \in Tasks : \/ status'[t] = status[t] /\ (Pending(t) => hasStack'[t])
                       \/ /\ t = cur[w] /\ ~is_terminal(t) /\ status'[t] # "Suspended"
                          /\ Pending(t)' => Pending(t) /\ hasStack'[t] = hasStack[t]
  BY <1>1, <1>4, <1>5 DEF PlainInv, StacksKept, Pending, Terminal
<1> QED
  BY <1>1, <1>2, <1>3, <1>5, <1>6, <1>7, <1>8, LoopStep DEF bodyVars, subsystemVars, OnCpu

\* The worker lets go of a thread that is over, having taken its stack or not.
LEMMA DropPlain ==
  ASSUME TypeInv, PlainInv, ConsumedInv', NEW w \in Workers,
         SkipTerminal(w) \/ TakeStack(w) \/ (LookAtStack(w) /\ ~hasStack[cur[w]])
  PROVE  PlainInv'
<1>0. /\ pc \in [Workers -> WorkerPcs] /\ cur \in [Workers -> Tasks \cup {NoTask}]
      /\ hasStack \in [Tasks -> BOOLEAN]
  BY DEF TypeInv, TypeOK
<1>1. /\ pc[w] \in {"check", "recycle", "clear"} /\ pc' = [pc EXCEPT ![w] = "find"]
      /\ cur' = [cur EXCEPT ![w] = NoTask] /\ is_terminal(cur[w])
      /\ UNCHANGED <<status, greenWaiters, onWorker, queueVars, reason, bodyVars, subsystemVars, aborted>>
      /\ UNCHANGED hasStack \/ hasStack' = [hasStack EXCEPT ![cur[w]] = FALSE]
  BY DEF SkipTerminal, TakeStack, LookAtStack, GoTo, DropArc, taskVars, PlainInv, RecycledOver
<1>2. /\ pc'[w] = "find" /\ cur'[w] = NoTask
      /\ \A v \in Workers \ {w} : pc'[v] = pc[v] /\ cur'[v] = cur[v]
  BY <1>0, <1>1
<1>3. \A t \in Tasks : Pending(t) => t # cur[w] /\ hasStack'[t]
  BY <1>0, <1>1 DEF PlainInv, StacksKept, Pending, is_terminal, Terminal
<1>4. Slots'
  BY <1>1, <1>3, LetGo DEF PlainInv, Pending, queueVars
<1>5. FlagOwned'
  BY <1>1, <1>2, FlagsKept DEF PlainInv
<1> QED
  BY <1>1, <1>2, <1>3, <1>4, <1>5, LoopStep DEF bodyVars, subsystemVars, OnCpu

LEMMA LookPlain ==
  ASSUME TypeInv, PlainInv, ConsumedInv', NEW w \in Workers, LookAtStack(w), hasStack[cur[w]]
  PROVE  PlainInv'
<1>0. pc \in [Workers -> WorkerPcs]
  BY DEF TypeInv, TypeOK
<1>1. /\ pc[w] = "recycle" /\ pc' = [pc EXCEPT ![w] = "clear"] /\ is_terminal(cur[w])
      /\ UNCHANGED <<taskVars, onWorker, queueVars, cur, reason, bodyVars, subsystemVars, aborted>>
  BY DEF LookAtStack, GoTo, PlainInv, RecycledOver
<1>2. cur[w] \in Tasks /\ pc'[w] = "clear" /\ \A v \in Workers \ {w} : pc'[v] = pc[v]
  BY <1>0, <1>1 DEF TypeInv, HoldsTask
<1>3. Slots'
  BY <1>1, SlotsKept DEF PlainInv, Pending, taskVars, queueVars
<1>4. FlagOwned'
  BY <1>1, <1>2, FlagsKept DEF PlainInv
<1> QED
  BY <1>1, <1>2, <1>3, <1>4, LoopStep
  DEF taskVars, bodyVars, subsystemVars, OnCpu, PlainInv, StacksKept, is_terminal

LEMMA RunPlain ==
  ASSUME TypeInv, PlainInv, ConsumedInv', NEW w \in Workers,
         MarkRunning(w) \/ SwitchOut(w) \/ SaveThreadState(w) \/ HandlePreempted(w)
  PROVE  PlainInv'
<1>0. /\ pc \in [Workers -> WorkerPcs] /\ cur \in [Workers -> Tasks \cup {NoTask}]
      /\ status \in [Tasks -> Statuses] /\ onWorker \in [Tasks -> BOOLEAN]
  BY DEF TypeInv, TypeOK
<1>1. cur[w] \in Tasks
  BY DEF MarkRunning, SwitchOut, SaveThreadState, HandlePreempted, TypeInv, HoldsTask
<1> USE DEF taskVars, queueVars, bodyVars, subsystemVars, workerVars
<1>2. CASE MarkRunning(w)
  <2>1. /\ status' = [status EXCEPT ![cur[w]] = "Running"] /\ pc' = [pc EXCEPT ![w] = "claim"]
        /\ pc[w] = "check" /\ ~is_terminal(cur[w])
        /\ UNCHANGED <<hasStack, onWorker, injector, local, cur, reason, greenWaiters, bodyVars, subsystemVars, aborted>>
    BY <1>2 DEF MarkRunning, GoTo
  <2>2. Pending(cur[w])
    <3>1. status[cur[w]] # "unborn" /\ status[cur[w]] # "Suspended"
      BY <1>1 DEF PlainInv, NothingParked, Slots, Placed, Somewhere
    <3> QED BY <1>0, <1>1, <2>1, <3>1 DEF Pending, Statuses, is_terminal
  <2>3. Slots'
    BY <1>0, <1>1, <2>1, <2>2, SlotsKept DEF PlainInv, Pending
  <2>4. FlagOwned'
    BY <1>0, <2>1, FlagsKept DEF PlainInv
  <2> QED BY <1>0, <1>1, <2>1, <2>2, <2>3, <2>4, LoopStep DEF OnCpu, PlainInv, StacksKept, Pending
<1>3. CASE SwitchOut(w)
  <2>1. /\ onWorker' = [onWorker EXCEPT ![cur[w]] = FALSE] /\ pc' = [pc EXCEPT ![w] = "save"]
        /\ pc[w] = "out"
        /\ UNCHANGED <<taskVars, injector, local, cur, reason, bodyVars, subsystemVars, aborted>>
    BY <1>3 DEF SwitchOut, GoTo
  <2>2. Slots'
    BY <2>1, SlotsKept DEF PlainInv, Pending
  <2>3. FlagOwned'
    <3> SUFFICES ASSUME NEW t \in Tasks, onWorker'[t]
                 PROVE  \E v \in Workers : pc'[v] \in {"exec", "out"} /\ cur[v] = t
      BY <2>1 DEF FlagOwned
    <3>1. t # cur[w] /\ onWorker[t]
      BY <1>0, <1>1, <2>1
    <3>2. PICK v \in Workers : pc[v] \in {"exec", "out"} /\ cur[v] = t
      BY <3>1 DEF PlainInv, FlagOwned
    <3> QED BY <1>0, <2>1, <3>1, <3>2
  <2> QED BY <1>0, <2>1, <2>2, <2>3, LoopStep DEF OnCpu, PlainInv, StacksKept, WorkersHold, NothingParked
<1>4. CASE SaveThreadState(w)
  <2>1. /\ pc' = [pc EXCEPT ![w] = "yielded"] /\ pc[w] = "save"
        /\ UNCHANGED <<taskVars, onWorker, injector, local, cur, reason, bodyVars, subsystemVars, aborted>>
    BY <1>4 DEF SaveThreadState, GoTo
  <2>2. Slots'
    BY <2>1, SlotsKept DEF PlainInv, Pending
  <2>3. FlagOwned'
    BY <1>0, <2>1, FlagsKept DEF PlainInv
  <2> QED BY <1>0, <2>1, <2>2, <2>3, LoopStep DEF OnCpu, PlainInv, StacksKept, WorkersHold, NothingParked
<1>5. CASE HandlePreempted(w)
  <2>1. /\ pc' = [pc EXCEPT ![w] = "find"] /\ pc[w] = "yielded"
        /\ status' = [status EXCEPT ![cur[w]] = "Runnable"]
        /\ local' = [local EXCEPT ![w] = Append(@, cur[w])]
        /\ cur' = [cur EXCEPT ![w] = NoTask]
        /\ UNCHANGED <<hasStack, greenWaiters, onWorker, injector, reason, bodyVars, subsystemVars, aborted>>
    BY <1>5 DEF HandlePreempted, GoTo, DropArc
  <2>2. status[cur[w]] = "Running"
    BY <2>1 DEF PlainInv, WorkersHold, OnCpu
  <2>3. Slots'
    BY <1>1, <2>1, <2>2, PutBack DEF PlainInv
  <2>4. FlagOwned'
    BY <1>0, <2>1, FlagsKept DEF PlainInv
  <2> QED
    BY <1>0, <1>1, <2>1, <2>2, <2>3, <2>4, LoopStep DEF OnCpu, PlainInv, StacksKept, Pending, is_terminal, Terminal
<1> QED BY <1>2, <1>3, <1>4, <1>5

\* The compare_exchange of Claim never fails: nobody else executes the thread.
LEMMA ClaimPlain ==
  ASSUME TypeInv, PlainInv, ConsumedInv', NEW w \in Workers, Claim(w) PROVE PlainInv'
<1>0. /\ pc \in [Workers -> WorkerPcs] /\ cur \in [Workers -> Tasks \cup {NoTask}]
      /\ onWorker \in [Tasks -> BOOLEAN]
      /\ reason \in [Workers -> [why : YieldReasons, on : Tasks \cup {NoTask}]]
  BY DEF TypeInv, TypeOK
<1>1. pc[w] = "claim" /\ cur[w] \in Tasks /\ cur[w] # NoTask
  BY ActorsDistinct DEF Claim, TypeInv, HoldsTask
<1>2. ~onWorker[cur[w]]
  BY <1>1 DEF PlainInv, FlagOwned, Slots, HandsDistinct
<1>3. /\ onWorker' = [onWorker EXCEPT ![cur[w]] = TRUE]
      /\ reason' = [reason EXCEPT ![w] = [why |-> "None", on |-> NoTask]]
      /\ pc' = [pc EXCEPT ![w] = "exec"]
      /\ UNCHANGED <<taskVars, queueVars, cur, bodyVars, subsystemVars, aborted>>
  BY <1>2 DEF Claim, GoTo
<1>4. Slots'
  BY <1>3, SlotsKept DEF PlainInv, Pending, taskVars, queueVars
<1>5. FlagOwned'
  <2> SUFFICES ASSUME NEW t \in Tasks, onWorker'[t]
               PROVE  \E v \in Workers : pc'[v] \in {"exec", "out"} /\ cur[v] = t
    BY <1>3 DEF FlagOwned
  <2>1. CASE t = cur[w]
    BY <1>0, <1>3, <2>1
  <2>2. CASE t # cur[w]
    <3>1. PICK v \in Workers : pc[v] \in {"exec", "out"} /\ cur[v] = t
      BY <1>0, <1>3, <2>2 DEF PlainInv, FlagOwned
    <3> QED BY <1>0, <1>3, <2>2, <3>1
  <2> QED BY <2>1, <2>2
<1> QED
  BY <1>0, <1>1, <1>3, <1>4, <1>5, LoopStep
  DEF OnCpu, PlainInv, StacksKept, WorkersHold, taskVars, bodyVars, subsystemVars

\* Yields: a safepoint or the end of the body.  No other yield is possible.
LEMMA SwitchPlain ==
  ASSUME TypeInv, PlainInv, ConsumedInv', NEW w \in Workers, BodySwitch(w) PROVE PlainInv'
<1>0. /\ pc \in [Workers -> WorkerPcs] /\ cur \in [Workers -> Tasks \cup {NoTask}]
      /\ reason \in [Workers -> [why : YieldReasons, on : Tasks \cup {NoTask}]]
  BY DEF TypeInv, TypeOK
<1>1. pc[w] = "exec" /\ cur[w] \in Tasks
  BY DEF BodySwitch, YieldOnTask, SafepointCancel, SafepointPreempt, aster_green_thread_exit,
     YieldParked, Deregister, TypeInv, HoldsTask
<1>2. body[cur[w]] = "run"
  BY <1>1 DEF PlainInv, NothingParked
<1>3. PICK why \in {"Cancelled", "Preempted", "Completed", "Threw"} :
        YieldTo(w, why, NoTask) /\ UNCHANGED <<body, target>>
  BY <1>2 DEF BodySwitch, YieldOnTask, SafepointCancel, SafepointPreempt, aster_green_thread_exit,
     YieldParked, Deregister, bodyVars
<1>4. /\ pc'[w] = "out" /\ reason'[w].why = why
      /\ \A v \in Workers \ {w} : pc'[v] = pc[v] /\ reason'[v] = reason[v]
      /\ UNCHANGED <<taskVars, onWorker, queueVars, cur, subsystemVars, aborted>>
  BY <1>0, <1>3 DEF YieldTo, GoTo
<1>5. Slots'
  BY <1>4, SlotsKept DEF PlainInv, Pending, taskVars, queueVars
<1>6. FlagOwned'
  BY <1>1, <1>4, FlagsKept DEF PlainInv
<1> QED
  BY <1>1, <1>3, <1>4, <1>5, <1>6, LoopStep DEF OnCpu, PlainInv, StacksKept, WorkersHold, taskVars, subsystemVars

\* A step of a body that leaves it on its worker.
LEMMA BodyKept ==
  ASSUME TypeInv, PlainInv, ConsumedInv', Slots', TargetOver',
         UNCHANGED <<workerVars, onWorker, greenWaiters, jobs, fds, waitq, aborted>>,
         \A t \in Tasks : /\ body'[t] = body[t] /\ status'[t] # "Suspended"
                          /\ status[t] \in Terminal \cup {"Running"} => status'[t] = status[t]
                          /\ Pending(t)' => hasStack'[t]
  PROVE  PlainInv'
<1>1. NothingParked'
  BY DEF PlainInv, NothingParked, workerVars
<1>2. WorkersHold'
  <2>1. \A w \in Workers : pc[w] \in OnCpu => cur[w] \in Tasks
    BY DEF TypeInv, HoldsTask, OnCpu
  <2> QED BY <2>1 DEF PlainInv, WorkersHold, workerVars
<1>3. StacksKept' /\ FlagOwned'
  BY DEF PlainInv, StacksKept, FlagOwned, workerVars
<1>4. RecycledOver'
  <2>1. \A w \in Workers : pc[w] \in {"recycle", "clear"} => cur[w] \in Tasks
    BY DEF TypeInv, HoldsTask
  <2> QED BY <2>1 DEF PlainInv, RecycledOver, is_terminal, workerVars
<1> QED BY <1>1, <1>2, <1>3, <1>4 DEF PlainInv

LEMMA BodyPlain ==
  ASSUME NeverSuspends, TypeInv, PlainInv, ConsumedInv', NEW a \in Actors, BodyStep(a) PROVE PlainInv'
<1>0. /\ status \in [Tasks -> Statuses] /\ hasStack \in [Tasks -> BOOLEAN]
      /\ body \in [Actors -> BodyPcs] /\ target \in [Actors -> Tasks \cup {NoTask}]
      /\ injector \in Seq(Tasks)
  BY DEF TypeInv, TypeOK
<1>1. a # Main => a \in Tasks /\ body[a] = "run"
  BY DEF Actors, PlainInv, NothingParked
<1>2. Main \in Actors /\ \A t \in Tasks : t # Main /\ t \in Actors
  BY ActorsDistinct DEF Actors
<1>3. \A t \in Tasks : status[t] # "Suspended" /\ (Pending(t) => hasStack[t])
  BY DEF PlainInv, NothingParked, StacksKept
<1>4. ASSUME NEW t \in Tasks, spawn_green_thread(a, t) PROVE PlainInv'
  <2>1. /\ status[t] = "unborn" /\ status' = [status EXCEPT ![t] = "Runnable"]
        /\ injector' = Append(injector, t) /\ hasStack' = [hasStack EXCEPT ![t] = TRUE]
        /\ UNCHANGED <<greenWaiters, onWorker, local, workerVars, body, target, subsystemVars, aborted>>
    BY <1>4 DEF spawn_green_thread, Requeue
  <2>2. Slots'
    BY <2>1, Injected DEF PlainInv, workerVars
  <2>3. TargetOver'
    BY <1>0, <2>1 DEF PlainInv, TargetOver, is_terminal, Terminal
  <2> QED BY <1>0, <1>3, <2>1, <2>2, <2>3, BodyKept DEF subsystemVars, Pending, Terminal
<1>5. ASSUME NEW t \in Tasks, cancel_thread(a, t) PROVE PlainInv'
  <2>1. UNCHANGED <<hasStack, onWorker, local, workerVars, body, target, subsystemVars, aborted>>
    BY <1>3, <1>5 DEF cancel_thread
  <2>2. \/ UNCHANGED <<status, greenWaiters, injector>>
        \/ /\ status[t] = "Runnable" /\ status'[t] = "Cancelled"
           /\ UNCHANGED <<greenWaiters, injector>>
           /\ \A u \in Tasks \ {t} : status'[u] = status[u]
    BY <1>3, <1>5, EndsAlone DEF cancel_thread
  <2>3. Slots'
    BY <2>1, <2>2, SlotsKept DEF PlainInv, workerVars, Pending
  <2>4. TargetOver'
    BY <2>1, <2>2 DEF PlainInv, TargetOver, is_terminal, Terminal
  <2> QED BY <1>3, <2>1, <2>2, <2>3, <2>4, BodyKept DEF subsystemVars, Pending, Terminal
<1>6. ASSUME NEW t \in Tasks, BeginResolve(a, t) PROVE PlainInv'
  <2>1. a = Main
    BY <1>6 DEF BeginResolve, Performs, NeverSuspends
  <2>2. /\ body' = [body EXCEPT ![Main] = "wait"] /\ target' = [target EXCEPT ![Main] = t]
        /\ UNCHANGED <<taskVars, onWorker, queueVars, workerVars, subsystemVars, aborted>>
    BY <1>6, <2>1 DEF BeginResolve
  <2>3. Slots'
    BY <2>2, SlotsKept DEF PlainInv, workerVars, queueVars, taskVars, Pending
  <2>4. /\ body'[Main] = "wait" /\ target'[Main] = t
        /\ \A u \in Tasks : body'[u] = body[u]
    BY <1>0, <1>2, <2>2
  <2>5. TargetOver'
    BY <1>6, <2>4 DEF TargetOver
  <2> QED BY <1>3, <2>2, <2>3, <2>4, <2>5, BodyKept DEF subsystemVars, Pending, taskVars
<1>7. CASE WaitOver(a)
  <2>1. a = Main
    BY <1>1, <1>7 DEF WaitOver
  <2>2. /\ body' = [body EXCEPT ![Main] = "consume"] /\ is_terminal(target[Main]) /\ body[Main] = "wait"
        /\ UNCHANGED <<taskVars, onWorker, queueVars, workerVars, target, subsystemVars, aborted>>
    BY <1>7, <2>1 DEF WaitOver
  <2>3. Slots'
    BY <2>2, SlotsKept DEF PlainInv, workerVars, queueVars, taskVars, Pending
  <2>4. \A u \in Tasks : body'[u] = body[u]
    BY <1>0, <1>2, <2>2
  <2>5. TargetOver'
    BY <2>2 DEF PlainInv, TargetOver, taskVars, is_terminal
  <2> QED BY <1>3, <2>2, <2>3, <2>4, <2>5, BodyKept DEF subsystemVars, Pending, taskVars
<1>8. CASE Consume(a)
  <2>1. a = Main /\ body[Main] = "consume"
    BY <1>1, <1>8 DEF Consume
  <2>2. target[Main] \in Tasks /\ is_terminal(target[Main])
    BY <2>1 DEF PlainInv, TargetOver
  <2>3. /\ \E label \in {"run", "recycle"} : body' = [body EXCEPT ![Main] = label]
        /\ UNCHANGED <<status, greenWaiters, hasStack, onWorker, queueVars, workerVars, target,
                       subsystemVars, aborted>>
    BY <1>8, <2>1 DEF Consume
  <2>4. Slots'
    BY <2>3, SlotsKept DEF PlainInv, workerVars, queueVars, Pending
  <2>5. body'[Main] \in {"run", "recycle"} /\ \A u \in Tasks : body'[u] = body[u]
    BY <1>0, <1>2, <2>3
  <2>6. TargetOver'
    BY <2>2, <2>3, <2>5 DEF TargetOver, is_terminal
  <2> QED BY <1>3, <2>3, <2>4, <2>5, <2>6, BodyKept DEF subsystemVars, Pending
<1>10. CASE BodyLooksAtStack(a) \/ BodyTakesStack(a)
  <2>1. a = Main /\ body[Main] \in {"recycle", "clear"}
    BY <1>1, <1>10 DEF BodyLooksAtStack, BodyTakesStack
  <2>2. target[Main] \in Tasks /\ is_terminal(target[Main])
    BY <2>1 DEF PlainInv, TargetOver
  <2>3. /\ \E label \in {"run", "clear"} : body' = [body EXCEPT ![Main] = label]
        /\ UNCHANGED hasStack \/ hasStack' = [hasStack EXCEPT ![target[Main]] = FALSE]
        /\ UNCHANGED <<status, greenWaiters, onWorker, queueVars, workerVars, target,
                       subsystemVars, aborted>>
    BY <1>10, <2>1 DEF BodyLooksAtStack, BodyTakesStack, taskVars
  <2>4. Slots'
    BY <2>3, SlotsKept DEF PlainInv, workerVars, queueVars, Pending
  <2>5. body'[Main] \in {"run", "clear"} /\ \A u \in Tasks : body'[u] = body[u]
    BY <1>0, <1>2, <2>3
  <2>6. TargetOver'
    BY <2>2, <2>3, <2>5 DEF TargetOver, is_terminal
  <2>7. \A u \in Tasks : Pending(u)' => hasStack'[u]
    BY <1>0, <1>3, <2>2, <2>3 DEF Pending, is_terminal, Terminal
  <2> QED BY <1>3, <2>3, <2>4, <2>5, <2>6, <2>7, BodyKept DEF subsystemVars
<1>9. ~(blocking_submit(a) \/ io_wait(a) \/ EnterWaitList(a))
  BY <1>2 DEF blocking_submit, io_wait, EnterWaitList, Performs, NeverSuspends
<1> QED BY <1>4, <1>5, <1>6, <1>7, <1>8, <1>9, <1>10 DEF BodyStep

LEMMA PlainInit == Init => PlainInv
<1> SUFFICES ASSUME Init PROVE PlainInv
  OBVIOUS
<1>1. /\ \A t \in Tasks : /\ status[t] = "unborn" /\ greenWaiters[t] = <<>>
                           /\ ~hasStack[t] /\ ~onWorker[t]
      /\ \A a \in Actors : body[a] = "run"
      /\ \A w \in Workers : local[w] = <<>> /\ pc[w] = "find" /\ cur[w] = NoTask
      /\ injector = <<>> /\ jobs = {} /\ fds = {} /\ waitq = {} /\ ~aborted
  BY DEF Init
<1>2. NothingParked
  BY <1>1 DEF NothingParked, Actors
<1>3. Slots
  BY <1>1, ElemsEmpty, ActorsDistinct DEF Slots, QueuesDistinct, HandsDistinct, Placed, Somewhere, Pending
<1>4. WorkersHold /\ StacksKept /\ FlagOwned /\ TargetOver /\ RecycledOver
  BY <1>1 DEF WorkersHold, StacksKept, FlagOwned, TargetOver, RecycledOver, OnCpu, Pending, Actors
<1>5. ConsumedInv
  BY DEF Init, ConsumedInv, TakenOnce
<1> QED BY <1>1, <1>2, <1>3, <1>4, <1>5 DEF PlainInv

LEMMA LoopPlain ==
  ASSUME TypeInv, PlainInv, ConsumedInv', NEW w \in Workers, WorkerLoop(w) PROVE PlainInv'
<1>1. ~(RequeueWaiter(w) \/ EnlistWaiter(w) \/ MarkSuspended(w))
  BY DEF RequeueWaiter, EnlistWaiter, MarkSuspended, PlainInv, NothingParked
<1> QED
  BY <1>1, FindPlain, IdlePlain, EndPlain, DropPlain, LookPlain, RunPlain, ClaimPlain DEF WorkerLoop

LEMMA PlainNext ==
  ASSUME NeverSuspends, TypeInv, PlainInv, [Next]_vars PROVE PlainInv'
<1>1. ConsumedInv'
  BY ConsumedNext DEF PlainInv
<1>2. ASSUME NEW w \in Workers, WorkerStep(w) PROVE PlainInv'
  <2>1. CASE WorkerLoop(w)
    BY <1>1, <2>1, LoopPlain
  <2>2. CASE BodySwitch(w)
    BY <1>1, <2>2, SwitchPlain
  <2>3. CASE cur[w] # NoTask /\ pc[w] = "exec" /\ BodyStep(cur[w])
    <3>1. cur[w] \in Actors
      BY <2>3 DEF TypeInv, HoldsTask, Actors
    <3> QED BY <1>1, <2>3, <3>1, BodyPlain
  <2> QED BY <1>2, <2>1, <2>2, <2>3 DEF WorkerStep
<1>3. CASE MainStep
  BY <1>1, <1>3, BodyPlain DEF MainStep, Actors
<1>4. ~Waker
  BY DEF Waker, BlockingDone, wake_thread, PlainInv, NothingParked
<1>5. CASE UNCHANGED vars
  <2>1. UNCHANGED <<taskVars, onWorker, queueVars, workerVars, bodyVars, subsystemVars, aborted>>
    BY <1>5 DEF vars
  <2> USE DEF taskVars, queueVars, workerVars, bodyVars, subsystemVars
  <2>2. Slots'
    BY <2>1, SlotsKept DEF PlainInv, Pending
  <2>3. TargetOver'
    BY <2>1 DEF PlainInv, TargetOver, is_terminal
  <2>4. \A t \in Tasks : status[t] # "Suspended" /\ (Pending(t)' => hasStack'[t])
    BY <2>1 DEF PlainInv, NothingParked, StacksKept, Pending
  <2> QED BY <1>1, <2>1, <2>2, <2>3, <2>4, BodyKept
<1> QED BY <1>2, <1>3, <1>4, <1>5 DEF Next

LEMMA PlainInvariant == ASSUME NeverSuspends PROVE Spec => [](TypeInv /\ PlainInv)
<1>1. Init => TypeInv /\ PlainInv
  BY TypeInit, PlainInit
<1>2. TypeInv /\ PlainInv /\ [Next]_vars => (TypeInv /\ PlainInv)'
  BY TypeNext, PlainNext
<1> QED BY <1>1, <1>2, PTL DEF Spec

-----------------------------------------------------------------------------
(* What it gives *)

\* The slots of a pending task, counted as OnePlace counts them.
LEMMA OneSlot ==
  ASSUME TypeInv, Slots, NEW t \in Tasks, Pending(t)
  PROVE  Cardinality(InHand(t)) + Cardinality(Queued(t)) = 1
<1>1. t # NoTask
  BY ActorsDistinct
<1>2. \A w \in Workers : \A i \in DOMAIN local[w] : local[w][i] = t => t \in Elems(local[w])
  BY DEF Elems
<1>3. \A i \in DOMAIN injector : injector[i] = t => t \in Elems(injector)
  BY DEF Elems
<1>4. Cardinality({}) = 0 /\ \A x : Cardinality({x}) = 1
  <2>1. Cardinality({}) = 0
    BY FS_EmptySet
  <2>2. \A x : Cardinality({x}) = 1
    BY FS_Singleton
  <2> QED BY <2>1, <2>2
<1>5. ASSUME NEW w \in Workers, cur[w] = t PROVE InHand(t) = {w} /\ Queued(t) = {}
  <2>1. InHand(t) = {w}
    BY <1>1, <1>5 DEF InHand, Slots, HandsDistinct
  <2>2. t \notin Elems(injector) /\ \A v \in Workers : t \notin Elems(local[v])
    BY <1>5 DEF Slots, HandsDistinct
  <2>3. Queued(t) = {}
    BY <1>2, <1>3, <2>2 DEF Queued
  <2> QED BY <2>1, <2>3
<1>6. ASSUME t \in Elems(injector) PROVE InHand(t) = {} /\ \E x : Queued(t) = {x}
  <2>1. PICK i \in DOMAIN injector : injector[i] = t
    BY <1>6 DEF Elems
  <2>2. {j \in DOMAIN injector : injector[j] = t} = {i}
    BY <2>1 DEF Slots, QueuesDistinct, NoRepeats
  <2>3. \A v \in Workers : {j \in DOMAIN local[v] : local[v][j] = t} = {}
    BY <1>2, <1>6 DEF Slots, QueuesDistinct
  <2>4. Queued(t) = {<<"injector", i>>}
    BY <2>2, <2>3 DEF Queued
  <2>5. InHand(t) = {}
    BY <1>6 DEF InHand, Slots, HandsDistinct
  <2> QED BY <2>4, <2>5
<1>7. ASSUME NEW w \in Workers, t \in Elems(local[w]) PROVE InHand(t) = {} /\ \E x : Queued(t) = {x}
  <2>1. PICK i \in DOMAIN local[w] : local[w][i] = t
    BY <1>7 DEF Elems
  <2>2. {j \in DOMAIN local[w] : local[w][j] = t} = {i}
    BY <2>1 DEF Slots, QueuesDistinct, NoRepeats
  <2>3. \A v \in Workers \ {w} : {j \in DOMAIN local[v] : local[v][j] = t} = {}
    BY <1>2, <1>7 DEF Slots, QueuesDistinct
  <2>4. {j \in DOMAIN injector : injector[j] = t} = {}
    BY <1>3, <1>7 DEF Slots, QueuesDistinct
  <2>5. Queued(t) = {<<w, i>>}
    BY <2>2, <2>3, <2>4 DEF Queued
  <2>6. InHand(t) = {}
    BY <1>7 DEF InHand, Slots, HandsDistinct
  <2> QED BY <2>5, <2>6
<1>8. Somewhere(t)
  BY DEF Slots, Placed
<1>9. \/ Cardinality(InHand(t)) = 1 /\ Cardinality(Queued(t)) = 0
      \/ Cardinality(InHand(t)) = 0 /\ Cardinality(Queued(t)) = 1
  BY <1>4, <1>5, <1>6, <1>7, <1>8 DEF Somewhere
<1> QED BY <1>9

\* However workers pop, steal and batch, and whoever cancels, a pending task of
\* such a program is in exactly one deque slot or on exactly one worker.
THEOREM NoneLostOrDoubled == ASSUME NeverSuspends PROVE Spec => []OnePlace
<1>1. TypeInv /\ PlainInv => OnePlace
  BY OneSlot DEF PlainInv, OnePlace, Pending
<1> QED BY <1>1, PlainInvariant, PTL

\* A thread on a worker is Running, was not finished by a canceller meanwhile, its
\* stack is in its slot, and nobody is on the way to take it from there.
THEOREM StackOwnedWhileRunning == ASSUME NeverSuspends PROVE Spec => []ExecutingOwnsStack
<1>1. ASSUME TypeInv, PlainInv PROVE ExecutingOwnsStack
  <2> SUFFICES ASSUME NEW w \in Workers, pc[w] \in OnCpu
               PROVE  /\ status[cur[w]] = "Running" /\ hasStack[cur[w]]
                      /\ ~Recycling(cur[w], {"recycle", "clear"})
    BY DEF ExecutingOwnsStack, OnCpu
  <2>1. cur[w] \in Tasks /\ status[cur[w]] = "Running"
    BY <1>1 DEF PlainInv, WorkersHold, OnCpu, TypeInv, HoldsTask
  <2>2. hasStack[cur[w]]
    BY <1>1, <2>1 DEF PlainInv, StacksKept, Pending
  <2>3. RecyclingWorkers(cur[w], {"recycle", "clear"}) = {}
    BY <1>1, <2>1 DEF RecyclingWorkers, PlainInv, RecycledOver, is_terminal, Terminal
  <2>4. \A a \in Actors : body[a] \in {"recycle", "clear"} => a = Main /\ is_terminal(target[a])
    BY <1>1 DEF PlainInv, NothingParked, TargetOver, Actors
  <2>5. RecyclingBodies(cur[w], {"recycle", "clear"}) = {}
    BY <2>1, <2>4 DEF RecyclingBodies, is_terminal, Terminal
  <2> QED BY <2>1, <2>2, <2>3, <2>5 DEF Recycling
<1>2. TypeInv /\ PlainInv => ExecutingOwnsStack
  BY <1>1
<1> QED BY <1>2, PlainInvariant, PTL

\* The guard that aborts the process on double scheduling never fires.
THEOREM NeverDoublyScheduled == ASSUME NeverSuspends PROVE Spec => []NoDoubleScheduling
<1>1. TypeInv /\ PlainInv => NoDoubleScheduling
  BY DEF PlainInv, NoDoubleScheduling
<1> QED BY <1>1, PlainInvariant, PTL

-----------------------------------------------------------------------------
(* Every step is a step of TaskLifecycle, or one it does not see *)

Phase(t) == IF status[t] \in Terminal \cup {"unborn"} THEN status[t] ELSE "pending"
SamePhases == \A t \in Tasks : Phase(t)' = Phase(t)

LEMMA StutterRefines ==
  ASSUME SamePhases, UNCHANGED <<cancelRequested, takers>> PROVE UNCHANGED Lifecycle!vars
  BY DEF SamePhases, Phase, Lifecycle!vars

\* Whoever ends a pending task honours an accepted cancellation.
LEMMA FinishRefines ==
  ASSUME TypeInv, NEW t \in Tasks, status[t] \notin Terminal \cup {"unborn"},
         NEW o \in IF cancelRequested[t] THEN {"Cancelled"} ELSE {"Ready", "Failed"},
         status' = [status EXCEPT ![t] = o], UNCHANGED <<cancelRequested, takers>>
  PROVE  Lifecycle!Finish(t)
<1>1. status \in [Tasks -> Statuses] /\ cancelRequested \in [Tasks -> BOOLEAN]
  BY DEF TypeInv, TypeOK
<1>2. o \in Terminal
  BY <1>1 DEF Terminal
<1> QED BY <1>1, <1>2 DEF Lifecycle!Finish, Terminal

LEMMA SpawnRefines ==
  ASSUME TypeInv, NEW a, NEW t \in Tasks, spawn_green_thread(a, t) PROVE Lifecycle!Spawn(t)
<1>1. status \in [Tasks -> Statuses]
  BY DEF TypeInv, TypeOK
<1> QED BY <1>1 DEF spawn_green_thread, Requeue, Lifecycle!Spawn, Terminal

LEMMA CancelRefines ==
  ASSUME TypeInv, NEW a, NEW t \in Tasks, cancel_thread(a, t) PROVE Lifecycle!Cancel(t)
<1>1. status \in [Tasks -> Statuses]
  BY DEF TypeInv, TypeOK
<1>2. CASE UNCHANGED status
  BY <1>1, <1>2 DEF cancel_thread, Lifecycle!Cancel, Terminal
<1>3. CASE status[t] \in {"Runnable", "Suspended"} /\ status' = [status EXCEPT ![t] = "Cancelled"]
  BY <1>1, <1>3 DEF cancel_thread, Lifecycle!Cancel, Terminal
<1> QED BY <1>2, <1>3 DEF cancel_thread, BecomeTerminal

\* The consumed flag is what keeps the abstract takers at one.
LEMMA ConsumeRefines ==
  ASSUME TypeInv, PlainInv, NEW a \in Actors, a = Main, Consume(a)
  PROVE  Lifecycle!Next \/ UNCHANGED Lifecycle!vars
<1> DEFINE t == target[Main]
<1>1. t \in Tasks /\ status[t] \in Terminal
  BY DEF Consume, PlainInv, TargetOver, is_terminal
<1>2. UNCHANGED <<status, cancelRequested>> /\ SamePhases
  BY DEF Consume, SamePhases, Phase
<1>3. CASE UNCHANGED takers
  BY <1>2, <1>3, StutterRefines
<1>4. CASE ~consumed[t] /\ takers' = [takers EXCEPT ![t] = @ \cup {a}]
  <2>1. takers[t] = {}
    BY <1>1, <1>4 DEF PlainInv, ConsumedInv
  <2>2. takers' = [takers EXCEPT ![t] = {a}]
    BY <1>4, <2>1
  <2>3. Lifecycle!Resolve(a, t)
    BY <1>1, <1>2, <2>1, <2>2 DEF Lifecycle!Resolve, Lifecycle!Outcomes, Terminal
  <2> QED BY <1>1, <2>3 DEF Lifecycle!Next
<1> QED BY <1>3, <1>4 DEF Consume

\* A thread that leaves a safepoint as cancelled was asked to stop, and nobody
\* takes the request back while it is on its way to the worker.
Asked ==
  \A w \in Workers :
    pc[w] \in {"out", "save", "yielded"} /\ reason[w].why = "Cancelled" => cancelRequested[cur[w]]

LEMMA RequestsStay ==
  ASSUME TypeInv, [Next]_vars, NEW t \in Tasks, cancelRequested[t] PROVE cancelRequested'[t]
<1>1. cancelRequested \in [Tasks -> BOOLEAN]
  BY DEF TypeInv, TypeOK
<1>2. ASSUME NEW a, BodyStep(a), NEW u \in Tasks, cancel_thread(a, u) PROVE cancelRequested'[t]
  BY <1>1, <1>2 DEF cancel_thread
<1>6. ASSUME NEW a, BodyStep(a), \A u \in Tasks : ~cancel_thread(a, u) PROVE UNCHANGED cancelRequested
  BY <1>6 DEF BodyStep, spawn_green_thread, BeginResolve, WaitOver, Consume,
     BodyLooksAtStack, BodyTakesStack,
     blocking_submit, io_wait, EnterWaitList, taskVars
<1>3. ASSUME NEW w, BodySwitch(w) PROVE UNCHANGED cancelRequested
  BY <1>3 DEF BodySwitch, YieldOnTask, SafepointCancel, SafepointPreempt, aster_green_thread_exit,
     YieldParked, Deregister, YieldTo, taskVars
<1>4. ASSUME NEW w, WorkerLoop(w) PROVE UNCHANGED cancelRequested
  BY <1>4 DEF WorkerLoop, PopLocal, StealBatch, StealFrom, FindNone, poll_io, SkipTerminal, CancelBeforeRun,
     MarkRunning, Claim, SwitchOut, SaveThreadState, HandlePreempted, complete_thread, HandleCancelled,
     RequeueWaiter, EnlistWaiter, MarkSuspended, LookAtStack, TakeStack, taskVars
<1>5. CASE Waker \/ UNCHANGED vars
  BY <1>5 DEF Waker, BlockingDone, wake_thread, vars, taskVars
<1>7. ASSUME NEW a, BodyStep(a) PROVE cancelRequested'[t]
  BY <1>2, <1>6, <1>7
<1> QED BY <1>3, <1>4, <1>5, <1>7 DEF Next, WorkerStep, MainStep

LEMMA AskedNext == ASSUME TypeInv, Asked, [Next]_vars PROVE Asked'
<1> SUFFICES ASSUME NEW w \in Workers, pc'[w] \in {"out", "save", "yielded"}, reason'[w].why = "Cancelled"
             PROVE  cancelRequested'[cur'[w]]
  BY DEF Asked
<1>0. /\ pc \in [Workers -> WorkerPcs] /\ cur \in [Workers -> Tasks \cup {NoTask}]
      /\ reason \in [Workers -> [why : YieldReasons, on : Tasks \cup {NoTask}]]
  BY DEF TypeInv, TypeOK
<1>1. ASSUME pc[w] \in {"out", "save", "yielded"}, cur'[w] = cur[w], reason'[w] = reason[w]
      PROVE  cancelRequested'[cur'[w]]
  <2>1. cur[w] \in Tasks /\ cancelRequested[cur[w]]
    BY <1>1 DEF Asked, TypeInv, HoldsTask
  <2> QED BY <1>1, <2>1, RequestsStay
<1>2. CASE UNCHANGED workerVars
  BY <1>1, <1>2 DEF workerVars
<1>3. ASSUME NEW v \in Workers, WorkerLoop(v) PROVE cancelRequested'[cur'[w]]
  <2> USE DEF GoTo, DropArc
  <2>1. CASE v # w
    <3>1. pc'[w] = pc[w] /\ cur'[w] = cur[w] /\ reason'[w] = reason[w]
      BY <1>0, <1>3, <2>1 DEF WorkerLoop, PopLocal, StealBatch, StealFrom, FindNone, poll_io, SkipTerminal,
         CancelBeforeRun, MarkRunning, Claim, SwitchOut, SaveThreadState, HandlePreempted, complete_thread,
         HandleCancelled, RequeueWaiter, EnlistWaiter, MarkSuspended, LookAtStack, TakeStack, workerVars
    <3> QED BY <1>1, <3>1
  <2>2. CASE v = w /\ (SwitchOut(v) \/ SaveThreadState(v))
    BY <1>0, <1>1, <2>2 DEF SwitchOut, SaveThreadState
  <2>3. CASE v = w /\ ~(SwitchOut(v) \/ SaveThreadState(v))
    BY <1>0, <1>1, <1>3, <2>3 DEF WorkerLoop, PopLocal, StealBatch, StealFrom, FindNone, poll_io, SkipTerminal,
       CancelBeforeRun, MarkRunning, Claim, HandlePreempted, complete_thread,
       HandleCancelled, RequeueWaiter, EnlistWaiter, MarkSuspended, LookAtStack, TakeStack, workerVars
  <2> QED BY <2>1, <2>2, <2>3
<1>4. ASSUME NEW v \in Workers, BodySwitch(v) PROVE cancelRequested'[cur'[w]]
  <2>1. cur' = cur
    BY <1>4 DEF BodySwitch, YieldOnTask, SafepointCancel, SafepointPreempt, aster_green_thread_exit,
       YieldParked, Deregister, YieldTo, workerVars
  <2>2. CASE v = w /\ SafepointCancel(w)
    <3>1. cur[w] \in Tasks /\ cancelRequested[cur[w]]
      BY <2>2 DEF SafepointCancel, TypeInv, HoldsTask
    <3> QED BY <2>1, <3>1, RequestsStay
  <2>3. CASE v = w /\ ~SafepointCancel(w)
    BY <1>0, <1>2, <1>4, <2>3 DEF BodySwitch, YieldOnTask, SafepointPreempt, aster_green_thread_exit,
       YieldParked, Deregister, YieldTo
  <2>4. CASE v # w
    <3>1. pc'[w] = pc[w] /\ reason'[w] = reason[w]
      BY <1>0, <1>4, <2>4 DEF BodySwitch, YieldOnTask, SafepointCancel, SafepointPreempt,
         aster_green_thread_exit, YieldParked, Deregister, YieldTo, GoTo, workerVars
    <3> QED BY <1>1, <2>1, <3>1
  <2> QED BY <2>2, <2>3, <2>4
<1>5. ASSUME NEW a, BodyStep(a) PROVE UNCHANGED workerVars
  BY <1>5 DEF BodyStep, spawn_green_thread, cancel_thread, BeginResolve, WaitOver, Consume,
     BodyLooksAtStack, BodyTakesStack,
     blocking_submit, io_wait, EnterWaitList
<1>6. CASE Waker \/ UNCHANGED vars
  BY <1>2, <1>6 DEF Waker, BlockingDone, wake_thread, vars
<1> QED BY <1>2, <1>3, <1>4, <1>5, <1>6 DEF Next, WorkerStep, MainStep

\* Of the worker loop only the three endings are visible.
LEMMA LoopRefines ==
  ASSUME TypeInv, PlainInv, Asked, NEW w \in Workers, WorkerLoop(w)
  PROVE  Lifecycle!Next \/ UNCHANGED Lifecycle!vars
<1>0. status \in [Tasks -> Statuses] /\ cancelRequested \in [Tasks -> BOOLEAN]
  BY DEF TypeInv, TypeOK
<1>1. UNCHANGED <<cancelRequested, takers>>
  BY DEF WorkerLoop, PopLocal, StealBatch, StealFrom, FindNone, poll_io, SkipTerminal, CancelBeforeRun,
     MarkRunning, Claim, SwitchOut, SaveThreadState, HandlePreempted, complete_thread, HandleCancelled,
     RequeueWaiter, EnlistWaiter, MarkSuspended, LookAtStack, TakeStack, taskVars
<1>2. pc[w] = "yielded" => ~is_terminal(cur[w])
  BY DEF PlainInv, WorkersHold, OnCpu, is_terminal, Terminal
<1>3. ASSUME pc[w] \notin {"find", "idle"}, ~is_terminal(cur[w])
      PROVE  cur[w] \in Tasks /\ status[cur[w]] \notin Terminal \cup {"unborn"}
  BY <1>3 DEF TypeInv, HoldsTask, PlainInv, Slots, Placed, Somewhere, is_terminal
<1>4. ASSUME pc[w] \notin {"find", "idle"}, ~is_terminal(cur[w]),
             NEW o \in IF cancelRequested[cur[w]] THEN {"Cancelled"} ELSE {"Ready", "Failed"},
             status' = [status EXCEPT ![cur[w]] = o]
      PROVE  Lifecycle!Next
  <2>1. PICK t \in Tasks : t = cur[w] /\ status[t] \notin Terminal \cup {"unborn"}
    BY <1>3, <1>4
  <2>2. Lifecycle!Finish(t)
    BY <1>1, <1>4, <2>1, FinishRefines
  <2> QED BY <2>2 DEF Lifecycle!Next
<1>5. CASE CancelBeforeRun(w) \/ HandleCancelled(w)
  <2>1. cancelRequested[cur[w]] /\ ~is_terminal(cur[w]) /\ pc[w] \notin {"find", "idle"}
    BY <1>2, <1>5 DEF CancelBeforeRun, HandleCancelled, Asked
  <2>2. status' = [status EXCEPT ![cur[w]] = "Cancelled"]
    BY <1>5 DEF CancelBeforeRun, HandleCancelled, BecomeTerminal
  <2> QED BY <1>4, <2>1, <2>2
<1>6. CASE complete_thread(w)
  <2>1. ~is_terminal(cur[w]) /\ pc[w] \notin {"find", "idle"}
    BY <1>2, <1>6 DEF complete_thread
  <2>2. \E o \in IF cancelRequested[cur[w]] THEN {"Cancelled"} ELSE {"Ready", "Failed"} :
          status' = [status EXCEPT ![cur[w]] = o]
    BY <1>6 DEF complete_thread, BecomeTerminal
  <2> QED BY <1>4, <2>1, <2>2
<1>7. CASE MarkRunning(w) \/ HandlePreempted(w)
  <2>1. /\ pc[w] \in {"check", "yielded"} /\ ~is_terminal(cur[w])
        /\ \E s \in {"Runnable", "Running"} : status' = [status EXCEPT ![cur[w]] = s]
    BY <1>2, <1>7 DEF MarkRunning, HandlePreempted
  <2>2. SamePhases
    BY <1>0, <1>3, <2>1 DEF SamePhases, Phase, Terminal
  <2> QED BY <1>1, <2>2, StutterRefines
<1>8. CASE UNCHANGED status
  BY <1>1, <1>8, StutterRefines DEF SamePhases, Phase
<1>9. ~(RequeueWaiter(w) \/ EnlistWaiter(w) \/ MarkSuspended(w))
  BY DEF RequeueWaiter, EnlistWaiter, MarkSuspended, PlainInv, NothingParked
<1> QED
  BY <1>5, <1>6, <1>7, <1>8, <1>9 DEF WorkerLoop, PopLocal, StealBatch, StealFrom, FindNone, poll_io,
     SkipTerminal, Claim, SwitchOut, SaveThreadState, LookAtStack, TakeStack, taskVars

LEMMA BodyRefines ==
  ASSUME NeverSuspends, TypeInv, PlainInv, NEW a \in Actors, BodyStep(a)
  PROVE  Lifecycle!Next \/ UNCHANGED Lifecycle!vars
<1>1. ASSUME NEW t \in Tasks, spawn_green_thread(a, t) PROVE Lifecycle!Next
  BY <1>1, SpawnRefines DEF Lifecycle!Next
<1>2. ASSUME NEW t \in Tasks, cancel_thread(a, t) PROVE Lifecycle!Next
  BY <1>2, CancelRefines DEF Lifecycle!Next
<1>3. CASE Consume(a)
  <2>1. a = Main
    BY <1>3 DEF Consume, Actors, PlainInv, NothingParked
  <2> QED BY <1>3, <2>1, ConsumeRefines
<1>4. CASE UNCHANGED <<status, cancelRequested, takers>>
  BY <1>4, StutterRefines DEF SamePhases, Phase
<1> QED
  BY <1>1, <1>2, <1>3, <1>4 DEF BodyStep, BeginResolve, WaitOver, BodyLooksAtStack, BodyTakesStack,
     blocking_submit, io_wait, EnterWaitList, taskVars

\* The safety half of ImplementsLifecycle: a non-suspending program goes through
\* TaskLifecycle, each task ending once, cancelled if that was asked in time, and
\* its outcome given to one client.
THEOREM StepsKeepLifecycle ==
  ASSUME NeverSuspends PROVE Spec => Lifecycle!Init /\ [][Lifecycle!Next]_(Lifecycle!vars)
<1>1. Init => Lifecycle!Init
  BY DEF Init, Lifecycle!Init, Terminal
<1>2. Init => Asked
  BY DEF Init, Asked
<1>3. TypeInv /\ PlainInv /\ Asked /\ [Next]_vars => [Lifecycle!Next]_(Lifecycle!vars)
  <2> SUFFICES ASSUME TypeInv, PlainInv, Asked, [Next]_vars PROVE Lifecycle!Next \/ UNCHANGED Lifecycle!vars
    OBVIOUS
  <2>1. ASSUME UNCHANGED <<status, cancelRequested, takers>> PROVE UNCHANGED Lifecycle!vars
    BY <2>1, StutterRefines DEF SamePhases, Phase
  <2>2. ASSUME NEW w \in Workers, WorkerStep(w) PROVE Lifecycle!Next \/ UNCHANGED Lifecycle!vars
    <3>1. CASE WorkerLoop(w)
      BY <3>1, LoopRefines
    <3>2. CASE BodySwitch(w)
      BY <2>1, <3>2 DEF BodySwitch, YieldOnTask, SafepointCancel, SafepointPreempt, aster_green_thread_exit,
         YieldParked, Deregister, YieldTo, taskVars
    <3>3. CASE cur[w] # NoTask /\ pc[w] = "exec" /\ BodyStep(cur[w])
      <4>1. cur[w] \in Actors
        BY <3>3 DEF TypeInv, HoldsTask, Actors
      <4> QED BY <3>3, <4>1, BodyRefines
    <3> QED BY <2>2, <3>1, <3>2, <3>3 DEF WorkerStep
  <2>3. CASE MainStep
    BY <2>3, BodyRefines DEF MainStep, Actors
  <2>4. ~Waker
    BY DEF Waker, BlockingDone, wake_thread, PlainInv, NothingParked
  <2>5. CASE UNCHANGED vars
    BY <2>1, <2>5 DEF vars, taskVars
  <2> QED BY <2>2, <2>3, <2>4, <2>5 DEF Next
<1>4. TypeInv /\ Asked /\ [Next]_vars => Asked'
  BY AskedNext
<1> QED BY <1>1, <1>2, <1>3, <1>4, PlainInvariant, PTL DEF Spec

=============================================================================
