---------------------------- MODULE GcHeapProofs ----------------------------
(***************************************************************************)
(* Theorems about GcHeap, for every heap, every number of green threads    *)
(* and every bound: type correctness, that a collection frees exactly what *)
(* the running shadow stack does not reach, and that nothing in use is     *)
(* freed before a collection starts that misses it.                        *)
(***************************************************************************)
EXTENDS GcHeap, SequenceTheorems, FiniteSetTheorems, TLAPS

USE DEF Values, Plain, Handles, AllKinds, Requests

-----------------------------------------------------------------------------
(* Sequences of values *)

\* The last element of a non-empty sequence and what is left without it.
LEMMA ButLastFacts ==
  ASSUME NEW T, NEW s \in Seq(T), Len(s) > 0
  PROVE  /\ ButLast(s) \in Seq(T)
         /\ Len(ButLast(s)) = Len(s) - 1
         /\ \A i \in 1..(Len(s) - 1) : ButLast(s)[i] = s[i]
         /\ s[Len(s)] \in T
<1>1. SubSeq(s, 1, Len(s) - 1) \in Seq(T)
  OBVIOUS
<1>2. \A n \in 0..Len(s) : Len(SubSeq(s, 1, n)) = n
  OBVIOUS
<1>3. \A i \in 1..(Len(s) - 1) : SubSeq(s, 1, Len(s) - 1)[i] = s[i]
  OBVIOUS
<1>4. Len(s) - 1 \in 0..Len(s) /\ s[Len(s)] \in T
  OBVIOUS
<1>. QED BY <1>1, <1>2, <1>3, <1>4 DEF ButLast

\* Appending to what is left replaces the last element.
LEMMA ReplaceLast ==
  ASSUME NEW T, NEW s \in Seq(T), Len(s) > 0, NEW v \in T
  PROVE  Append(ButLast(s), v) \in Seq(T)
BY ButLastFacts

\* The registers of the running green thread are typed like all registers.
LEMMA RegisterTypes ==
  ASSUME TypeOK
  PROVE  /\ regs[running] \in Seq(Values)
         /\ Holds(1) => Top \in Values
         /\ Holds(2) => Below \in Values /\ Holds(1)
BY DEF TypeOK, Top, Below, Holds

\* What SetRegs, PushReg and PopReg leave behind.
LEMMA SetRegsType ==
  ASSUME TypeOK, NEW s \in Seq(Values), SetRegs(s)
  PROVE  regs' \in [Fibers -> Seq(Values)]
BY DEF TypeOK, SetRegs

LEMMA PushRegType ==
  ASSUME TypeOK, NEW v \in Values, PushReg(v)
  PROVE  regs' \in [Fibers -> Seq(Values)]
<1>1. Append(regs[running], v) \in Seq(Values)
  BY RegisterTypes
<1>. QED BY <1>1, SetRegsType DEF PushReg

LEMMA PopRegType ==
  ASSUME TypeOK, Holds(1), PopReg
  PROVE  regs' \in [Fibers -> Seq(Values)]
<1>1. regs[running] \in Seq(Values) /\ Len(regs[running]) > 0
  BY RegisterTypes DEF Holds
<1>2. ButLast(regs[running]) \in Seq(Values)
  BY <1>1, ButLastFacts
<1>. QED BY <1>2, SetRegsType DEF PopReg

\* The elements an object is indexed by.
LEMMA BodyTypes ==
  ASSUME TypeOK, NEW o \in Values, Indexable(o)
  PROVE  /\ o \in Addrs
         /\ Body(o) \in Addrs
         /\ elems[Body(o)] \in Seq(Values)
         /\ \A i \in DOMAIN elems[Body(o)] : Element(o, i) \in Values
BY DEF TypeOK, Indexable, IsList, Body, Element

-----------------------------------------------------------------------------
(* Type correctness *)

LEMMA TypeInit == Init => TypeOK
<1>. SUFFICES ASSUME Init PROVE TypeOK
  OBVIOUS
<1>1. <<>> \in Seq(Values) /\ <<>> \in Seq([Slots -> Values]) /\ <<>> \in Seq(Requests)
  OBVIOUS
<1>2. kind \in [Addrs -> AllKinds] /\ elems \in [Addrs -> Seq(Values)]
      /\ block \in [Addrs -> Values] /\ cap \in [Addrs -> Nat] /\ mark \in [Addrs -> BOOLEAN]
  BY <1>1 DEF Init
<1>3. bytes \in Nat /\ threshold \in Nat /\ suspend \in Nat
  BY SizesNat DEF Init
<1>4. frames \in [Fibers -> Seq([Slots -> Values])] /\ regs \in [Fibers -> Seq(Values)]
  BY <1>1 DEF Init
<1>5. running \in Fibers /\ want \in Seq(Requests) /\ gc \in {"idle", "mark", "alloc"}
      /\ worklist \subseteq Addrs /\ exposed \in BOOLEAN
  BY <1>1 DEF Init
<1>. QED BY <1>2, <1>3, <1>4, <1>5 DEF TypeOK

LEMMA FrameTypes ==
  ASSUME TypeOK, Depth(running) > 0
  PROVE  frames[running][Depth(running)] \in [Slots -> Values]
BY DEF TypeOK, Depth

LEMMA TypeMutator == TypeOK /\ Mutator => TypeOK'
<1>. SUFFICES ASSUME TypeOK, Mutator PROVE TypeOK'
  OBVIOUS
<1>1. CASE aster_gc_push_roots
  <2>1. [s \in Slots |-> Null] \in [Slots -> Values]
    OBVIOUS
  <2>2. frames' \in [Fibers -> Seq([Slots -> Values])]
    BY <1>1, <2>1 DEF TypeOK, aster_gc_push_roots
  <2>. QED BY <1>1, <2>2 DEF TypeOK, aster_gc_push_roots, heapVars, counterVars, collectorVars
<1>2. CASE aster_gc_pop_roots
  <2>1. frames[running] \in Seq([Slots -> Values]) /\ Len(frames[running]) > 0
    BY <1>2 DEF TypeOK, aster_gc_pop_roots, Depth
  <2>2. ButLast(frames[running]) \in Seq([Slots -> Values])
    BY <2>1, ButLastFacts
  <2>3. frames' \in [Fibers -> Seq([Slots -> Values])]
    BY <1>2, <2>2 DEF TypeOK, aster_gc_pop_roots
  <2>. QED BY <1>2, <2>3 DEF TypeOK, aster_gc_pop_roots, heapVars, counterVars, collectorVars
<1>3. ASSUME NEW s \in Slots, LoadLocal(s) PROVE TypeOK'
  <2>1. frames[running][Depth(running)][s] \in Values
    BY <1>3, FrameTypes DEF LoadLocal
  <2>2. regs' \in [Fibers -> Seq(Values)]
    BY <1>3, <2>1, PushRegType DEF LoadLocal
  <2>. QED BY <1>3, <2>2 DEF TypeOK, LoadLocal, heapVars, counterVars, collectorVars
<1>4. ASSUME NEW s \in Slots, StoreLocal(s) PROVE TypeOK'
  <2>1. regs' \in [Fibers -> Seq(Values)]
    BY <1>4, PopRegType DEF StoreLocal
  <2>2. Top \in Values
    BY <1>4, RegisterTypes DEF StoreLocal
  <2>3. frames[running] \in Seq([Slots -> Values]) /\ Depth(running) \in 1..Len(frames[running])
    BY <1>4 DEF TypeOK, StoreLocal, Depth
  <2>4. [frames[running][Depth(running)] EXCEPT ![s] = Top] \in [Slots -> Values]
    BY <2>2, <1>4, FrameTypes DEF StoreLocal
  <2>5. [frames[running] EXCEPT ![Depth(running)] = [@ EXCEPT ![s] = Top]] \in Seq([Slots -> Values])
    BY <2>3, <2>4
  <2>6. frames' \in [Fibers -> Seq([Slots -> Values])]
    BY <1>4, <2>5 DEF TypeOK, StoreLocal
  <2>. QED BY <1>4, <2>1, <2>6 DEF TypeOK, StoreLocal, heapVars, counterVars, collectorVars
<1>5. ASSUME NEW i \in 1..MaxLen, LoadElem(i) PROVE TypeOK'
  <2>1. Element(Top, i) \in Values
    BY <1>5, RegisterTypes, BodyTypes DEF LoadElem
  <2>2. regs[running] \in Seq(Values) /\ Len(regs[running]) > 0
    BY <1>5, RegisterTypes DEF LoadElem, Holds
  <2>3. Append(ButLast(regs[running]), Element(Top, i)) \in Seq(Values)
    BY <2>1, <2>2, ReplaceLast
  <2>4. regs' \in [Fibers -> Seq(Values)]
    BY <1>5, <2>3, SetRegsType DEF LoadElem
  <2>. QED BY <1>5, <2>4 DEF TypeOK, LoadElem, heapVars, counterVars, collectorVars
<1>6. ASSUME NEW i \in 1..MaxLen, StoreElem(i) PROVE TypeOK'
  <2>1. regs' \in [Fibers -> Seq(Values)]
    BY <1>6, PopRegType, RegisterTypes DEF StoreElem
  <2>2. Top \in Values /\ Body(Below) \in Addrs /\ elems[Body(Below)] \in Seq(Values)
    BY <1>6, RegisterTypes, BodyTypes DEF StoreElem
  <2>3. [elems[Body(Below)] EXCEPT ![i] = Top] \in Seq(Values)
    BY <1>6, <2>2 DEF StoreElem
  <2>4. elems' \in [Addrs -> Seq(Values)]
    BY <1>6, <2>2, <2>3 DEF TypeOK, StoreElem
  <2>. QED BY <1>6, <2>1, <2>4 DEF TypeOK, StoreElem, counterVars, collectorVars
<1>7. CASE Drop
  <2>1. regs' \in [Fibers -> Seq(Values)]
    BY <1>7, PopRegType DEF Drop
  <2>. QED BY <1>7, <2>1 DEF TypeOK, Drop, heapVars, counterVars, collectorVars
<1>8. ASSUME NEW k \in ObjectKinds, New(k) PROVE TypeOK'
  <2>1. k \in Plain \cup Handles
    BY KindsKnown
  <2>2. <<"block", k>> \in Seq(Requests) /\ <<k>> \in Seq(Requests)
    BY <2>1
  <2>3. want' \in Seq(Requests)
    BY <1>8, <2>2 DEF New
  <2>. QED BY <1>8, <2>3 DEF TypeOK, New, heapVars, counterVars, mutatorVars, collectorVars
<1>9. CASE aster_list_push
  <2>. DEFINE b == block[Below]
  <2>1. Top \in Values /\ Holds(1) /\ Below \in Values
    BY <1>9, RegisterTypes DEF aster_list_push
  <2>2. b \in Addrs /\ elems[b] \in Seq(Values)
    BY <1>9, <2>1 DEF TypeOK, aster_list_push, IsList
  <2>3. CASE want' = <<"grow">> /\ UNCHANGED <<elems, regs>>
    <3>1. want' \in Seq(Requests)
      BY <2>3
    <3>. QED BY <1>9, <2>3, <3>1 DEF TypeOK, aster_list_push, counterVars, collectorVars
  <2>4. CASE elems' = [elems EXCEPT ![b] = Append(@, Top)] /\ PopReg /\ UNCHANGED want
    <3>1. regs' \in [Fibers -> Seq(Values)]
      BY <2>1, <2>4, PopRegType
    <3>2. Append(elems[b], Top) \in Seq(Values)
      BY <2>1, <2>2
    <3>3. elems' \in [Addrs -> Seq(Values)]
      BY <2>2, <2>4, <3>2 DEF TypeOK
    <3>. QED BY <1>9, <2>4, <3>1, <3>3 DEF TypeOK, aster_list_push, counterVars, collectorVars
  <2>. QED BY <1>9, <2>3, <2>4 DEF aster_list_push
<1>10. CASE aster_list_pop
  <2>. DEFINE b == block[Top]
  <2>1. Top \in Values /\ Indexable(Top) /\ Body(Top) = b
    BY <1>10, RegisterTypes DEF aster_list_pop, Indexable, IsList, Body
  <2>2. b \in Addrs /\ elems[b] \in Seq(Values) /\ Len(elems[b]) > 0
    BY <1>10, <2>1, BodyTypes DEF aster_list_pop
  <2>3. Element(Top, Len(elems[b])) \in Values
    BY <2>1, <2>2, BodyTypes
  <2>4. regs[running] \in Seq(Values) /\ Len(regs[running]) > 0
    BY <1>10, RegisterTypes DEF aster_list_pop, Holds
  <2>5. Append(ButLast(regs[running]), Element(Top, Len(elems[b]))) \in Seq(Values)
    BY <2>3, <2>4, ReplaceLast
  <2>6. regs' \in [Fibers -> Seq(Values)]
    BY <1>10, <2>5, SetRegsType DEF aster_list_pop
  <2>7. ButLast(elems[b]) \in Seq(Values)
    BY <2>2, ButLastFacts
  <2>8. elems' \in [Addrs -> Seq(Values)]
    BY <1>10, <2>2, <2>7 DEF TypeOK, aster_list_pop
  <2>. QED BY <1>10, <2>6, <2>8 DEF TypeOK, aster_list_pop, counterVars, collectorVars
<1>11. CASE PauseGc
  BY <1>11 DEF TypeOK, PauseGc, heapVars, mutatorVars, collectorVars
<1>12. CASE ResumeGc
  BY <1>12 DEF TypeOK, ResumeGc, heapVars, mutatorVars, collectorVars
<1>13. ASSUME NEW f \in Fibers, SwitchTo(f) PROVE TypeOK'
  BY <1>13 DEF TypeOK, SwitchTo, heapVars, counterVars, collectorVars
<1>. QED BY <1>1, <1>2, <1>3, <1>4, <1>5, <1>6, <1>7, <1>8, <1>9, <1>10, <1>11, <1>12, <1>13
       DEF Mutator

\* The part of the type invariant that a fresh object disturbs.
LEMMA NewAtTypes ==
  ASSUME TypeOK, NEW a \in Addrs, NEW k \in AllKinds, NEW contents \in Seq(Values),
         NEW capacity \in Nat, NewAt(a, k, contents, capacity), want # <<>>
  PROVE  /\ kind' \in [Addrs -> AllKinds]
         /\ elems' \in [Addrs -> Seq(Values)]
         /\ cap' \in [Addrs -> Nat]
         /\ mark' \in [Addrs -> BOOLEAN]
         /\ want' \in Seq(Requests)
         /\ gc' = "idle"
         /\ UNCHANGED <<bytes, threshold, suspend, frames, running, worklist, exposed>>
<1>1. Tail(want) \in Seq(Requests)
  BY DEF TypeOK
<1>2. want' \in Seq(Requests) /\ gc' = "idle"
      /\ UNCHANGED <<bytes, threshold, suspend, frames, running, worklist, exposed>>
  BY <1>1 DEF NewAt, counterVars
<1>3. /\ kind' \in [Addrs -> AllKinds]
      /\ elems' \in [Addrs -> Seq(Values)]
      /\ cap' \in [Addrs -> Nat]
      /\ mark' \in [Addrs -> BOOLEAN]
  BY DEF TypeOK, NewAt
<1>. QED BY <1>2, <1>3

\* The next threshold is a number: the survivors are finitely many.
LEMMA NextThresholdNat == NextThreshold \in Nat
<1>1. IsFiniteSet(Survivors)
  BY AddrsFinite, FS_Subset DEF Survivors, Live
<1>2. Cardinality(Survivors) \in Nat
  BY <1>1, FS_CardinalityType
<1>. QED BY <1>2, SizesNat DEF NextThreshold, Doubled

LEMMA TypeCollector == TypeOK /\ Collector => TypeOK'
<1>. SUFFICES ASSUME TypeOK, Collector PROVE TypeOK'
  OBVIOUS
<1>1. Roots(running) \subseteq Addrs
  BY DEF Roots
<1>2. CASE gc_alloc_inner
  <2>1. bytes' \in Nat
    BY <1>2 DEF TypeOK, gc_alloc_inner
  <2>2. gc' \in {"idle", "mark", "alloc"} /\ worklist' \subseteq Addrs /\ exposed' \in BOOLEAN
    BY <1>1, <1>2 DEF TypeOK, gc_alloc_inner, StartMark
  <2>. QED BY <1>2, <2>1, <2>2 DEF TypeOK, gc_alloc_inner, heapVars, mutatorVars
<1>3. CASE aster_gc_collect
  <2>1. gc' \in {"idle", "mark", "alloc"} /\ worklist' \subseteq Addrs /\ exposed' \in BOOLEAN
    BY <1>1, <1>3 DEF TypeOK, aster_gc_collect, StartMark
  <2>. QED BY <1>3, <2>1 DEF TypeOK, aster_gc_collect, heapVars, counterVars, mutatorVars
<1>4. ASSUME NEW a \in Addrs, gc_mark(a) PROVE TypeOK'
  <2>1. Refs(elems[a]) \subseteq Addrs /\ (block[a] \in Addrs => Refs(elems[block[a]]) \subseteq Addrs)
    BY DEF TypeOK, Refs
  <2>2. Traced(a) \subseteq Addrs
    BY <2>1 DEF TypeOK, Traced
  <2>3. worklist' \subseteq Addrs
    BY <1>4, <2>2 DEF TypeOK, gc_mark
  <2>4. mark' \in [Addrs -> BOOLEAN]
    BY <1>4 DEF TypeOK, gc_mark
  <2>. QED BY <1>4, <2>3, <2>4 DEF TypeOK, gc_mark, counterVars, mutatorVars
<1>5. CASE Sweep
  <2>1. <<>> \in Seq(Values)
    OBVIOUS
  <2>2. kind' \in [Addrs -> AllKinds] /\ elems' \in [Addrs -> Seq(Values)]
        /\ block' \in [Addrs -> Values] /\ cap' \in [Addrs -> Nat] /\ mark' \in [Addrs -> BOOLEAN]
    BY <1>5, <2>1 DEF TypeOK, Sweep
  <2>3. threshold' \in Nat
    BY <1>5, NextThresholdNat DEF Sweep
  <2>4. bytes' \in Nat /\ gc' \in {"idle", "mark", "alloc"}
    BY <1>5 DEF TypeOK, Sweep
  <2>. QED BY <1>5, <2>2, <2>3, <2>4 DEF TypeOK, Sweep, mutatorVars
<1>6. ASSUME NEW a \in Addrs, AllocValue(a) PROVE TypeOK'
  <2>. DEFINE fields == IF Head(want) \in {"class", "closure"} THEN [i \in 1..Fields |-> Null] ELSE <<>>
  <2>. DEFINE room == IF Head(want) = "block" THEN InitCap ELSE 0
  <2>1. [i \in 1..Fields |-> Null] \in Seq(Values) /\ <<>> \in Seq(Values)
    BY SizesNat
  <2>2. fields \in Seq(Values) /\ room \in Nat /\ Head(want) \in AllKinds /\ want # <<>>
    BY <1>6, <2>1, SizesNat DEF AllocValue
  <2>3. NewAt(a, Head(want), fields, room)
    BY <1>6 DEF AllocValue
  <2>4. regs' \in [Fibers -> Seq(Values)] /\ block' = block
    BY <1>6, PushRegType DEF AllocValue
  <2>. HIDE DEF fields, room
  <2>. QED BY <2>2, <2>3, <2>4, NewAtTypes DEF TypeOK
<1>7. ASSUME NEW a \in Addrs, AllocHandle(a) PROVE TypeOK'
  <2>1. <<>> \in Seq(Values) /\ Head(want) \in AllKinds /\ want # <<>> /\ 0 \in Nat
    BY <1>7 DEF AllocHandle
  <2>2. NewAt(a, Head(want), <<>>, 0)
    BY <1>7 DEF AllocHandle
  <2>3. Top \in Values /\ regs[running] \in Seq(Values) /\ Len(regs[running]) > 0
    BY <1>7, RegisterTypes DEF AllocHandle, Holds
  <2>4. Append(ButLast(regs[running]), a) \in Seq(Values)
    BY <2>3, ReplaceLast
  <2>5. regs' \in [Fibers -> Seq(Values)]
    BY <1>7, <2>4, SetRegsType DEF AllocHandle
  <2>6. block' \in [Addrs -> Values]
    BY <1>7, <2>3 DEF TypeOK, AllocHandle
  <2>. QED BY <2>1, <2>2, <2>5, <2>6, NewAtTypes DEF TypeOK
<1>8. ASSUME NEW a \in Addrs, AllocGrown(a) PROVE TypeOK'
  <2>. DEFINE grown == Append(elems[block[Below]], Top)
  <2>. DEFINE room == Doubled(cap[block[Below]], InitCap)
  <2>1. Top \in Values /\ Below \in Values /\ Holds(1) /\ want # <<>>
    BY <1>8, RegisterTypes DEF AllocGrown
  <2>2. block[Below] \in Addrs
    BY <1>8, <2>1 DEF TypeOK, AllocGrown, IsList
  <2>3. elems[block[Below]] \in Seq(Values) /\ cap[block[Below]] \in Nat
    BY <2>2 DEF TypeOK
  <2>4. grown \in Seq(Values) /\ room \in Nat /\ "block" \in AllKinds
    BY <2>1, <2>3, SizesNat DEF Doubled
  <2>5. NewAt(a, "block", grown, room)
    BY <1>8 DEF AllocGrown
  <2>6. regs' \in [Fibers -> Seq(Values)]
    BY <1>8, <2>1, PopRegType DEF AllocGrown
  <2>7. block' \in [Addrs -> Values]
    BY <1>8 DEF TypeOK, AllocGrown
  <2>. HIDE DEF grown, room
  <2>. QED BY <2>1, <2>4, <2>5, <2>6, <2>7, NewAtTypes DEF TypeOK
<1>. QED BY <1>2, <1>3, <1>4, <1>5, <1>6, <1>7, <1>8 DEF Collector

LEMMA TypeStep == TypeOK /\ [Next]_vars => TypeOK'
<1>1. CASE UNCHANGED vars
  BY <1>1 DEF TypeOK, vars, heapVars, counterVars, mutatorVars, collectorVars
<1>. QED BY <1>1, TypeMutator, TypeCollector DEF Next

\* The heap, the shadow stacks, the registers and the counters keep their types
\* whatever the program allocates, stores and collects.
THEOREM TypeCorrect == Spec => []TypeOK
BY TypeInit, TypeStep, PTL DEF Spec

-----------------------------------------------------------------------------
(* The inductive invariant *)

Marked == {a \in Addrs : mark[a]}

\* The addresses in use are what the collector took them to be: until a
\* collection that misses one is over, and until its allocation is over where a
\* weaker fact will do.
Trusted == gc = "mark" \/ ~exposed
Returning == gc = "alloc" \/ Trusted

\* The allocations of one runtime helper.
CallOK ==
  /\ \/ want = <<>>
     \/ \E k \in Plain \cup Handles \cup {"grow"} : want = <<k>>
     \/ \E k \in Handles : want = <<"block", k>>
  /\ gc = "alloc" => want # <<>>

\* A list handle points to a data block.
HandlesOK ==
  Returning => \A a \in Addrs : kind[a] \in Handles => block[a] \in Addrs /\ kind[block[a]] = "block"

\* aster_list_new holds the fresh block while it allocates the handle.
PendingOK ==
  want # <<>> /\ Head(want) \in Handles =>
    /\ Holds(1)
    /\ Trusted => Top \in Addrs /\ kind[Top] = "block" /\ elems[Top] = <<>>

\* Allocated objects point to allocated objects, and what is in use is allocated.
GraphOK == Trusted => Closed(Live) /\ InUse \subseteq Live

\* While marking: the roots are marked or waiting, a marked object's successors
\* are too, and nothing else is.
MarkOK ==
  /\ gc = "mark" =>
       /\ Roots(running) \subseteq Marked \cup worklist
       /\ \A a \in Marked : BlockOf(a) \subseteq Marked /\ Traced(a) \subseteq Marked \cup worklist
       /\ Marked \cup worklist \subseteq Reach(Roots(running))
       /\ ~exposed => InUse \subseteq Reach(Roots(running))
  /\ gc # "mark" => Marked = {} /\ worklist = {}

\* Room for the elements of every block.
RoomOK == \A a \in Addrs : kind[a] = "block" => cap[a] \in Nat \ {0} /\ Len(elems[a]) <= cap[a]

IInv == TypeOK /\ CallOK /\ HandlesOK /\ PendingOK /\ GraphOK /\ MarkOK /\ RoomOK

-----------------------------------------------------------------------------
(* The object graph *)

LEMMA RefsAppend ==
  ASSUME NEW s \in Seq(Values), NEW v \in Values
  PROVE  Refs(Append(s, v)) = Refs(s) \cup ({v} \ {Null})
<1>1. DOMAIN Append(s, v) = DOMAIN s \cup {Len(s) + 1} /\ Append(s, v)[Len(s) + 1] = v
      /\ \A i \in DOMAIN s : Append(s, v)[i] = s[i]
  OBVIOUS
<1>. QED BY <1>1 DEF Refs

LEMMA RefsButLast ==
  ASSUME NEW s \in Seq(Values), Len(s) > 0
  PROVE  Refs(ButLast(s)) \subseteq Refs(s) /\ {s[Len(s)]} \ {Null} \subseteq Refs(s)
<1>1. DOMAIN ButLast(s) = 1..(Len(s) - 1) /\ \A i \in 1..(Len(s) - 1) : ButLast(s)[i] = s[i]
  BY ButLastFacts
<1>2. DOMAIN s = 1..Len(s) /\ 1..(Len(s) - 1) \subseteq 1..Len(s) /\ Len(s) \in 1..Len(s)
  OBVIOUS
<1>. QED BY <1>1, <1>2 DEF Refs

LEMMA RefsUpdate ==
  ASSUME NEW s \in Seq(Values), NEW i \in DOMAIN s, NEW v \in Values
  PROVE  Refs([s EXCEPT ![i] = v]) \subseteq Refs(s) \cup ({v} \ {Null})
BY DEF Refs

LEMMA RefsNone == Refs(<<>>) = {} /\ Refs([i \in 1..Fields |-> Null]) = {}
BY DEF Refs

\* Objects point to addresses.
LEMMA EdgesInHeap ==
  ASSUME TypeOK, NEW a \in Addrs
  PROVE  Traced(a) \subseteq Addrs /\ BlockOf(a) \subseteq Addrs /\ Edges(a) \subseteq Addrs
<1>1. Refs(elems[a]) \subseteq Addrs /\ (block[a] \in Addrs => Refs(elems[block[a]]) \subseteq Addrs)
  BY DEF TypeOK, Refs
<1>. QED BY <1>1 DEF TypeOK, Traced, BlockOf, Edges

\* What is reachable holds the roots, is closed, and is the least such set.
LEMMA ReachRoots == \A R \in SUBSET Addrs : R \subseteq Reach(R) /\ Reach(R) \subseteq Addrs
BY DEF Reach

LEMMA ReachClosed ==
  ASSUME TypeOK, NEW R
  PROVE  Closed(Reach(R))
<1>. SUFFICES ASSUME NEW a \in Reach(R), NEW b \in Edges(a) PROVE b \in Reach(R)
  BY DEF Closed
<1>1. a \in Addrs /\ b \in Addrs
  BY EdgesInHeap DEF Reach
<1>2. ASSUME NEW S \in SUBSET Addrs, R \subseteq S, Closed(S) PROVE b \in S
  BY <1>2, <1>1 DEF Reach, Closed
<1>. QED BY <1>1, <1>2 DEF Reach

LEMMA ReachLeast ==
  ASSUME NEW R, NEW S \in SUBSET Addrs, R \subseteq S, Closed(S)
  PROVE  Reach(R) \subseteq S
BY DEF Reach

\* A step that leaves kinds, contents and blocks alone leaves the graph alone.
LEMMA SameGraph ==
  ASSUME UNCHANGED <<kind, elems, block>>
  PROVE  /\ \A a \in Addrs : Traced(a)' = Traced(a) /\ BlockOf(a)' = BlockOf(a)
         /\ Live' = Live
         /\ \A S : Closed(S)' <=> Closed(S)
         /\ \A R : Reach(R)' = Reach(R)
<1>1. ASSUME NEW a PROVE Traced(a)' = Traced(a) /\ BlockOf(a)' = BlockOf(a)
  BY DEF Traced, BlockOf
<1>2. Live' = Live
  BY DEF Live
<1>3. ASSUME NEW S PROVE Closed(S)' <=> Closed(S)
  BY <1>1 DEF Closed, Edges
<1>4. ASSUME NEW R PROVE Reach(R)' = Reach(R)
  BY <1>3 DEF Reach
<1>. QED BY <1>1, <1>2, <1>3, <1>4

-----------------------------------------------------------------------------
(* What is in use *)

\* What a green thread has in a root slot or a register is in use.
LEMMA RegistersInUse ==
  ASSUME TypeOK
  PROVE  /\ \A f \in Fibers : Roots(f) \subseteq InUse /\ Held(f) \subseteq InUse
         /\ Holds(1) => {Top} \ {Null} \subseteq InUse
         /\ Holds(2) => {Below} \ {Null} \subseteq InUse
         /\ Holds(1) => Refs(ButLast(regs[running])) \subseteq InUse
<1>1. \A f \in Fibers : Roots(f) \subseteq InUse /\ Held(f) \subseteq InUse
  BY DEF InUse
<1>2. regs[running] \in Seq(Values) /\ running \in Fibers /\ Held(running) = Refs(regs[running])
  BY DEF TypeOK, Held
<1>3. ASSUME Holds(1) PROVE {Top} \ {Null} \subseteq InUse /\ Refs(ButLast(regs[running])) \subseteq InUse
  <2>1. Len(regs[running]) > 0
    BY <1>2, <1>3 DEF Holds
  <2>. QED BY <1>1, <1>2, <2>1, RefsButLast DEF Top
<1>4. ASSUME Holds(2) PROVE {Below} \ {Null} \subseteq InUse
  <2>1. Len(regs[running]) - 1 \in DOMAIN regs[running]
    BY <1>2, <1>4 DEF Holds
  <2>2. {Below} \ {Null} \subseteq Refs(regs[running])
    BY <2>1 DEF Below, Refs
  <2>. QED BY <1>1, <1>2, <2>2
<1>. QED BY <1>1, <1>3, <1>4

\* A step that gives the running green thread the registers s, leaves the root
\* slots alone or fills them with values that are live, and frees nothing.
LEMMA InUseKept ==
  ASSUME TypeOK, NEW S, InUse \subseteq S,
         regs' = regs \/ \E s \in Seq(Values) : SetRegs(s) /\ Refs(s) \subseteq S,
         frames' = frames \/ \A f \in Fibers : Roots(f)' \subseteq S
  PROVE  InUse' \subseteq S
<1>. SUFFICES ASSUME NEW f \in Fibers PROVE Roots(f)' \subseteq S /\ Held(f)' \subseteq S
  BY DEF InUse
<1>1. Roots(f) \subseteq S /\ Held(f) \subseteq S
  BY DEF InUse
<1>2. Roots(f)' \subseteq S
  <2>1. CASE frames' = frames
    BY <1>1, <2>1 DEF Roots
  <2>. QED BY <2>1
<1>3. Held(f)' \subseteq S
  <2>1. CASE regs' = regs
    BY <1>1, <2>1 DEF Held
  <2>2. CASE \E s \in Seq(Values) : SetRegs(s) /\ Refs(s) \subseteq S
    <3>1. PICK s \in Seq(Values) : SetRegs(s) /\ Refs(s) \subseteq S
      BY <2>2
    <3>2. regs'[f] = s \/ regs'[f] = regs[f]
      BY <3>1 DEF SetRegs, TypeOK
    <3>. QED BY <1>1, <3>1, <3>2 DEF Held
  <2>. QED BY <2>1, <2>2
<1>. QED BY <1>2, <1>3

-----------------------------------------------------------------------------
(* The program preserves the invariant *)

LEMMA InvInit == Init => IInv
<1>. SUFFICES ASSUME Init PROVE IInv
  OBVIOUS
<1>1. TypeOK
  BY TypeInit
<1>2. Live = {} /\ Marked = {} /\ worklist = {} /\ gc = "idle" /\ want = <<>>
  BY DEF Init, Live, Marked
<1>3. InUse = {}
  <2>1. \A f \in Fibers : Roots(f) = {} /\ Held(f) = {}
    BY DEF Init, Roots, Held, Refs
  <2>. QED BY <2>1 DEF InUse
<1>4. CallOK /\ PendingOK /\ MarkOK /\ GraphOK
  BY <1>2, <1>3 DEF CallOK, PendingOK, MarkOK, GraphOK, Closed
<1>5. HandlesOK /\ RoomOK
  BY DEF Init, HandlesOK, RoomOK
<1>. QED BY <1>1, <1>4, <1>5 DEF IInv

\* What every step of the program leaves alone, and the calls it can make.
LEMMA MutatorFrame ==
  ASSUME TypeOK, Mutator
  PROVE  /\ gc = "idle" /\ want = <<>> /\ ~exposed
         /\ UNCHANGED <<kind, block, cap, mark, gc, worklist, exposed>>
         /\ \/ want' = <<>> \/ want' = <<"grow">>
            \/ \E k \in Plain : want' = <<k>>
            \/ \E k \in Handles : want' = <<"block", k>>
<1>1. CASE aster_gc_push_roots
  BY <1>1 DEF aster_gc_push_roots, Computing, heapVars, collectorVars
<1>2. CASE aster_gc_pop_roots
  BY <1>2 DEF aster_gc_pop_roots, Computing, heapVars, collectorVars
<1>3. CASE \E s \in Slots : LoadLocal(s) \/ StoreLocal(s)
  BY <1>3 DEF LoadLocal, StoreLocal, Computing, heapVars, collectorVars
<1>4. CASE \E i \in 1..MaxLen : LoadElem(i) \/ StoreElem(i)
  BY <1>4 DEF LoadElem, StoreElem, Computing, heapVars, collectorVars
<1>5. CASE Drop
  BY <1>5 DEF Drop, Computing, heapVars, collectorVars
<1>6. ASSUME NEW k \in ObjectKinds, New(k)
      PROVE  /\ gc = "idle" /\ want = <<>> /\ ~exposed
             /\ UNCHANGED <<kind, block, cap, mark, gc, worklist, exposed>>
             /\ k \in Plain \cup Handles
             /\ want' = IF k \in Handles THEN <<"block", k>> ELSE <<k>>
  BY <1>6, KindsKnown DEF New, Computing, heapVars, collectorVars
<1>7. CASE aster_list_push
  BY <1>7 DEF aster_list_push, Computing, collectorVars
<1>8. CASE aster_list_pop
  BY <1>8 DEF aster_list_pop, Computing, collectorVars
<1>9. CASE PauseGc \/ ResumeGc
  BY <1>9 DEF PauseGc, ResumeGc, Computing, heapVars, collectorVars
<1>10. CASE \E f \in Fibers \ {running} : SwitchTo(f)
  BY <1>10 DEF SwitchTo, Computing, heapVars, collectorVars
<1>. QED BY <1>1, <1>2, <1>3, <1>4, <1>5, <1>6, <1>7, <1>8, <1>9, <1>10 DEF Mutator

\* What a register can be read from or written to is live.
LEMMA BodyLive ==
  ASSUME IInv, Trusted, NEW o \in Values, {o} \ {Null} \subseteq InUse, Indexable(o)
  PROVE  /\ o \in Live
         /\ kind[Body(o)] = "block" \/ kind[Body(o)] \in {"class", "closure"}
         /\ \A i \in DOMAIN elems[Body(o)] : {Element(o, i)} \ {Null} \subseteq Live
<1>1. o \in Addrs /\ o # Null /\ TypeOK
  BY BodyTypes DEF IInv, Indexable, IsList
<1>2. o \in Live /\ Closed(Live)
  BY <1>1 DEF IInv, GraphOK
<1>3. Edges(o) \subseteq Live
  BY <1>2 DEF Closed
<1>4. CASE kind[o] \in {"class", "closure"}
  <2>1. Body(o) = o /\ Traced(o) = Refs(elems[o])
    BY <1>4 DEF Body, Traced
  <2>2. \A i \in DOMAIN elems[o] : {Element(o, i)} \ {Null} \subseteq Refs(elems[o])
    BY <1>4, <2>1 DEF Element, Refs
  <2>. QED BY <1>2, <1>3, <1>4, <2>1, <2>2 DEF Edges
<1>5. CASE kind[o] = "list"
  <2>1. Body(o) = block[o] /\ block[o] \in Addrs /\ kind[block[o]] = "block"
    BY <1>1, <1>5 DEF Body, IInv, HandlesOK, Returning
  <2>2. Traced(o) = Refs(elems[block[o]])
    BY <1>5, <2>1, AddrsFinite DEF Traced
  <2>3. \A i \in DOMAIN elems[block[o]] : {Element(o, i)} \ {Null} \subseteq Refs(elems[block[o]])
    BY <1>5, <2>1 DEF Element, Refs
  <2>. QED BY <1>2, <1>3, <2>1, <2>2, <2>3 DEF Edges
<1>6. CASE kind[o] = "noptr"
  <2>1. Body(o) = block[o] /\ kind[block[o]] = "block"
    BY <1>1, <1>6 DEF Body, IInv, HandlesOK, Returning
  <2>. QED BY <1>2, <1>6, <2>1 DEF Element
<1>. QED BY <1>1, <1>4, <1>5, <1>6 DEF Indexable, IsList

\* Stores of live values keep the live objects closed.
LEMMA StoresKeepClosed ==
  ASSUME TypeOK, Closed(Live), UNCHANGED <<kind, block>>,
         \A b \in Addrs : Refs(elems'[b]) \subseteq Refs(elems[b]) \cup Live
  PROVE  Closed(Live)'
<1>1. Live' = Live
  BY DEF Live
<1>. SUFFICES ASSUME NEW a \in Live PROVE Edges(a)' \subseteq Live
  BY <1>1 DEF Closed
<1>2. a \in Addrs /\ Edges(a) \subseteq Live
  BY DEF Closed, Live
<1>3. BlockOf(a)' = BlockOf(a)
  BY DEF BlockOf
<1>4. Traced(a)' \subseteq Traced(a) \cup Live
  <2>1. CASE kind[a] \in {"class", "closure"}
    BY <1>2, <2>1 DEF Traced
  <2>2. CASE kind[a] = "list" /\ block[a] # Null
    <3>1. block[a] \in Addrs
      BY <1>2, <2>2 DEF TypeOK
    <3>. QED BY <2>2, <3>1 DEF Traced
  <2>. QED BY <2>1, <2>2 DEF Traced
<1>. QED BY <1>2, <1>3, <1>4 DEF Edges

\* Popping or dropping a register, and replacing the last one.
LEMMA InUsePop ==
  ASSUME TypeOK, NEW S, InUse \subseteq S, Holds(1), PopReg,
         frames' = frames \/ \A f \in Fibers : Roots(f)' \subseteq S
  PROVE  InUse' \subseteq S
<1>1. regs[running] \in Seq(Values) /\ Len(regs[running]) > 0
  BY RegisterTypes DEF Holds
<1>2. ButLast(regs[running]) \in Seq(Values) /\ Refs(ButLast(regs[running])) \subseteq S
  BY <1>1, ButLastFacts, RegistersInUse
<1>. QED BY <1>2, InUseKept DEF PopReg

LEMMA InUseReplace ==
  ASSUME TypeOK, NEW S, InUse \subseteq S, Holds(1), NEW v \in Values, {v} \ {Null} \subseteq S,
         SetRegs(Append(ButLast(regs[running]), v)), frames' = frames
  PROVE  InUse' \subseteq S
<1>1. regs[running] \in Seq(Values) /\ Len(regs[running]) > 0
  BY RegisterTypes DEF Holds
<1>2. ButLast(regs[running]) \in Seq(Values) /\ Refs(ButLast(regs[running])) \subseteq S
  BY <1>1, ButLastFacts, RegistersInUse
<1>3. Append(ButLast(regs[running]), v) \in Seq(Values)
      /\ Refs(Append(ButLast(regs[running]), v)) \subseteq S
  BY <1>1, <1>2, ReplaceLast, RefsAppend
<1>. QED BY <1>3, InUseKept

LEMMA InUsePush ==
  ASSUME TypeOK, NEW S, InUse \subseteq S, NEW v \in Values, {v} \ {Null} \subseteq S,
         PushReg(v), frames' = frames
  PROVE  InUse' \subseteq S
<1>1. regs[running] \in Seq(Values) /\ Refs(regs[running]) \subseteq S
  BY RegistersInUse DEF TypeOK, Held
<1>2. Append(regs[running], v) \in Seq(Values) /\ Refs(Append(regs[running], v)) \subseteq S
  BY <1>1, RefsAppend
<1>. QED BY <1>2, InUseKept DEF PushReg

\* The program only ever holds live addresses.
LEMMA MutatorInUse ==
  ASSUME IInv, Mutator
  PROVE  InUse' \subseteq Live
<1>1. TypeOK /\ Trusted /\ InUse \subseteq Live
  BY MutatorFrame DEF IInv, GraphOK, Trusted
<1>2. CASE aster_gc_push_roots
  <2>1. \A f \in Fibers : Roots(f)' \subseteq Roots(f)
    BY <1>1, <1>2, AddrsFinite DEF TypeOK, aster_gc_push_roots, Roots
  <2>2. \A f \in Fibers : Roots(f)' \subseteq Live
    BY <1>1, <2>1, RegistersInUse
  <2>. QED BY <1>1, <1>2, <2>2, InUseKept DEF aster_gc_push_roots
<1>3. CASE aster_gc_pop_roots
  <2>1. frames[running] \in Seq([Slots -> Values]) /\ Len(frames[running]) > 0
    BY <1>1, <1>3 DEF TypeOK, aster_gc_pop_roots, Depth
  <2>2. DOMAIN ButLast(frames[running]) \subseteq DOMAIN frames[running]
        /\ \A i \in DOMAIN ButLast(frames[running]) : ButLast(frames[running])[i] = frames[running][i]
    BY <2>1, ButLastFacts
  <2>3. \A f \in Fibers : Roots(f)' \subseteq Roots(f)
    BY <1>1, <1>3, <2>2 DEF TypeOK, aster_gc_pop_roots, Roots
  <2>4. \A f \in Fibers : Roots(f)' \subseteq Live
    BY <1>1, <2>3, RegistersInUse
  <2>. QED BY <1>1, <1>3, <2>4, InUseKept DEF aster_gc_pop_roots
<1>4. ASSUME NEW s \in Slots, LoadLocal(s) PROVE InUse' \subseteq Live
  <2>. DEFINE v == frames[running][Depth(running)][s]
  <2>1. v \in Values /\ Depth(running) \in DOMAIN frames[running]
    BY <1>1, <1>4, FrameTypes DEF LoadLocal, TypeOK, Depth
  <2>2. {v} \ {Null} \subseteq Roots(running)
    BY <2>1 DEF Roots
  <2>3. {v} \ {Null} \subseteq Live
    BY <1>1, <2>2, RegistersInUse DEF TypeOK
  <2>. QED BY <1>1, <1>4, <2>1, <2>3, InUsePush DEF LoadLocal
<1>5. ASSUME NEW s \in Slots, StoreLocal(s) PROVE InUse' \subseteq Live
  <2>1. Top \in Values /\ {Top} \ {Null} \subseteq Live
    BY <1>1, <1>5, RegisterTypes, RegistersInUse DEF StoreLocal
  <2>2. \A f \in Fibers : Roots(f)' \subseteq Roots(f) \cup ({Top} \ {Null})
    BY <1>1, <1>5, AddrsFinite DEF TypeOK, StoreLocal, Roots, Depth
  <2>3. \A f \in Fibers : Roots(f)' \subseteq Live
    BY <1>1, <2>1, <2>2, RegistersInUse
  <2>. QED BY <1>1, <1>5, <2>3, InUsePop DEF StoreLocal
<1>6. ASSUME NEW i \in 1..MaxLen, LoadElem(i) PROVE InUse' \subseteq Live
  <2>1. Holds(1) /\ Top \in Values /\ {Top} \ {Null} \subseteq InUse /\ Indexable(Top)
    BY <1>1, <1>6, RegisterTypes, RegistersInUse DEF LoadElem
  <2>2. Element(Top, i) \in Values /\ {Element(Top, i)} \ {Null} \subseteq Live
    BY <1>1, <1>6, <2>1, BodyTypes, BodyLive DEF LoadElem
  <2>. QED BY <1>1, <1>6, <2>1, <2>2, InUseReplace DEF LoadElem
<1>7. ASSUME NEW i \in 1..MaxLen, StoreElem(i) PROVE InUse' \subseteq Live
  BY <1>1, <1>7, RegisterTypes, InUsePop DEF StoreElem
<1>8. CASE Drop
  BY <1>1, <1>8, InUsePop DEF Drop
<1>9. CASE \E k \in ObjectKinds : New(k)
  BY <1>1, <1>9, InUseKept DEF New, mutatorVars
<1>10. CASE aster_list_push
  <2>1. (UNCHANGED regs \/ PopReg) /\ Holds(1) /\ frames' = frames
    BY <1>1, <1>10, RegisterTypes DEF aster_list_push
  <2>. QED BY <1>1, <2>1, InUsePop, InUseKept
<1>11. CASE aster_list_pop
  <2>. DEFINE n == Len(elems[block[Top]])
  <2>1. Holds(1) /\ Top \in Values /\ {Top} \ {Null} \subseteq InUse /\ Indexable(Top) /\ Body(Top) = block[Top]
    BY <1>1, <1>11, RegisterTypes, RegistersInUse DEF aster_list_pop, Indexable, IsList, Body
  <2>2. elems[block[Top]] \in Seq(Values) /\ elems[block[Top]] # <<>>
    BY <1>1, <1>11, <2>1, BodyTypes DEF aster_list_pop
  <2>3. n \in DOMAIN elems[Body(Top)]
    BY <2>1, <2>2
  <2>4. Element(Top, n) \in Values /\ {Element(Top, n)} \ {Null} \subseteq Live
    BY <1>1, <2>1, <2>3, BodyTypes, BodyLive
  <2>. QED BY <1>1, <1>11, <2>1, <2>4, InUseReplace DEF aster_list_pop
<1>12. CASE PauseGc \/ ResumeGc
  BY <1>1, <1>12, InUseKept DEF PauseGc, ResumeGc, mutatorVars
<1>13. CASE \E f \in Fibers \ {running} : SwitchTo(f)
  BY <1>1, <1>13, InUseKept DEF SwitchTo
<1>. QED BY <1>2, <1>3, <1>4, <1>5, <1>6, <1>7, <1>8, <1>9, <1>10, <1>11, <1>12, <1>13
       DEF Mutator

\* Its stores put live values, and no more of them than there is room for, into
\* the objects.
LEMMA MutatorStores ==
  ASSUME IInv, Mutator
  PROVE  \A b \in Addrs :
           /\ Refs(elems'[b]) \subseteq Refs(elems[b]) \cup Live
           /\ kind[b] = "block" => Len(elems'[b]) <= cap[b]
<1>1. TypeOK /\ Trusted /\ InUse \subseteq Live /\ RoomOK
  BY MutatorFrame DEF IInv, GraphOK, Trusted
<1>. DEFINE Goal == \A b \in Addrs :
                      /\ Refs(elems'[b]) \subseteq Refs(elems[b]) \cup Live
                      /\ kind[b] = "block" => Len(elems'[b]) <= cap[b]
<1>2. CASE elems' = elems
  BY <1>1, <1>2 DEF RoomOK
<1>3. ASSUME NEW i \in 1..MaxLen, StoreElem(i) PROVE Goal
  <2>. DEFINE b == Body(Below)
  <2>1. Below \in Values /\ Top \in Values /\ {Top} \ {Null} \subseteq Live /\ Indexable(Below)
    BY <1>1, <1>3, RegisterTypes, RegistersInUse DEF StoreElem
  <2>2. b \in Addrs /\ elems[b] \in Seq(Values) /\ i \in DOMAIN elems[b]
    BY <1>1, <1>3, <2>1, BodyTypes DEF StoreElem
  <2>3. Refs([elems[b] EXCEPT ![i] = Top]) \subseteq Refs(elems[b]) \cup Live
    BY <2>1, <2>2, RefsUpdate
  <2>4. Len([elems[b] EXCEPT ![i] = Top]) = Len(elems[b])
    BY <2>1, <2>2
  <2>5. elems' = [elems EXCEPT ![b] = [elems[b] EXCEPT ![i] = Top]]
    BY <1>3 DEF StoreElem
  <2>. HIDE DEF b
  <2>. QED BY <1>1, <2>2, <2>3, <2>4, <2>5 DEF TypeOK, RoomOK
<1>4. CASE aster_list_push /\ elems' # elems
  <2>. DEFINE b == block[Below]
  <2>1. Below \in Values /\ Top \in Values /\ {Top} \ {Null} \subseteq Live
    BY <1>1, <1>4, RegisterTypes, RegistersInUse DEF aster_list_push
  <2>2. b \in Addrs /\ elems[b] \in Seq(Values)
    BY <1>1, <1>4, <2>1 DEF TypeOK, aster_list_push, IsList
  <2>3. elems' = [elems EXCEPT ![b] = Append(elems[b], Top)] /\ ~(Len(elems[b]) >= cap[b])
    BY <1>4 DEF aster_list_push
  <2>4. Refs(Append(elems[b], Top)) \subseteq Refs(elems[b]) \cup Live
    BY <2>1, <2>2, RefsAppend
  <2>5. Len(Append(elems[b], Top)) = Len(elems[b]) + 1 /\ cap[b] \in Nat /\ Len(elems[b]) \in Nat
    BY <1>1, <2>1, <2>2 DEF TypeOK
  <2>. HIDE DEF b
  <2>6. Len(Append(elems[b], Top)) <= cap[b]
    BY <2>3, <2>5
  <2>. QED BY <1>1, <2>2, <2>3, <2>4, <2>6 DEF TypeOK, RoomOK
<1>5. CASE aster_list_pop
  <2>. DEFINE b == block[Top]
  <2>1. Top \in Values /\ Indexable(Top) /\ Body(Top) = b
    BY <1>1, <1>5, RegisterTypes DEF aster_list_pop, Indexable, IsList, Body
  <2>2. b \in Addrs /\ elems[b] \in Seq(Values) /\ Len(elems[b]) > 0
    BY <1>1, <1>5, <2>1, BodyTypes DEF aster_list_pop
  <2>3. elems' = [elems EXCEPT ![b] = ButLast(elems[b])]
    BY <1>5 DEF aster_list_pop
  <2>4. Refs(ButLast(elems[b])) \subseteq Refs(elems[b]) /\ Len(ButLast(elems[b])) = Len(elems[b]) - 1
    BY <2>2, RefsButLast, ButLastFacts
  <2>5. Len(elems[b]) - 1 <= Len(elems[b]) /\ Len(elems[b]) \in Nat
    BY <2>2
  <2>. HIDE DEF b
  <2>6. kind[b] = "block" => Len(ButLast(elems[b])) <= cap[b]
    BY <1>1, <2>2, <2>4, <2>5 DEF TypeOK, RoomOK
  <2>. QED BY <1>1, <2>2, <2>3, <2>4, <2>6 DEF TypeOK, RoomOK
<1>6. elems' = elems \/ aster_list_push \/ aster_list_pop \/ \E i \in 1..MaxLen : StoreElem(i)
  BY DEF Mutator, aster_gc_push_roots, aster_gc_pop_roots, LoadLocal, StoreLocal, LoadElem, Drop,
         New, PauseGc, ResumeGc, SwitchTo, heapVars
<1>. QED BY <1>2, <1>3, <1>4, <1>5, <1>6

LEMMA InvMutator == IInv /\ Mutator => IInv'
<1>. SUFFICES ASSUME IInv, Mutator PROVE IInv'
  OBVIOUS
<1>1. TypeOK /\ TypeOK'
  BY TypeMutator DEF IInv
<1>2. /\ gc = "idle" /\ want = <<>> /\ ~exposed
      /\ UNCHANGED <<kind, block, cap, mark, gc, worklist, exposed>>
  BY <1>1, MutatorFrame
<1>3. want' = <<>> \/ want' = <<"grow">> \/ (\E k \in Plain : want' = <<k>>)
      \/ (\E k \in Handles : want' = <<"block", k>>)
  BY <1>1, MutatorFrame
<1>4. CallOK'
  BY <1>2, <1>3 DEF CallOK
<1>5. PendingOK'
  BY <1>3 DEF PendingOK
<1>6. HandlesOK'
  BY <1>2 DEF IInv, HandlesOK, Returning, Trusted
<1>7. GraphOK'
  <2>1. Live' = Live /\ Closed(Live)
    BY <1>2 DEF Live, IInv, GraphOK, Trusted
  <2>2. InUse' \subseteq Live'
    BY <2>1, MutatorInUse
  <2>3. Closed(Live)'
    BY <1>1, <1>2, <2>1, MutatorStores, StoresKeepClosed
  <2>. QED BY <2>2, <2>3 DEF GraphOK
<1>8. MarkOK'
  BY <1>2 DEF IInv, MarkOK, Marked
<1>9. RoomOK'
  BY <1>2, MutatorStores DEF IInv, RoomOK
<1>. QED BY <1>1, <1>4, <1>5, <1>6, <1>7, <1>8, <1>9 DEF IInv

-----------------------------------------------------------------------------
(* The collector preserves the invariant *)

\* A collection starts with its roots on the worklist and nothing marked.
LEMMA InvStart ==
  ASSUME IInv, gc = "idle", ~exposed, TypeOK', UNCHANGED <<heapVars, frames, regs, running, want>>,
         StartMark \/ (gc' = "alloc" /\ want # <<>> /\ UNCHANGED <<worklist, exposed>>)
  PROVE  IInv'
<1>1. UNCHANGED <<kind, elems, block, cap, mark, frames, regs, running, want>>
  BY DEF heapVars
<1>2. Trusted /\ Returning
  BY DEF Trusted, Returning
<1>3. CallOK' /\ RoomOK'
  BY <1>1 DEF IInv, CallOK, RoomOK, StartMark
<1>4. HandlesOK' /\ PendingOK'
  BY <1>1, <1>2 DEF IInv, HandlesOK, PendingOK, Holds, Top
<1>5. InUse' = InUse /\ \A f \in Fibers : Roots(f)' = Roots(f)
  BY <1>1 DEF InUse, Roots, Held
<1>6. GraphOK'
  BY <1>1, <1>2, <1>5, SameGraph DEF IInv, GraphOK
<1>7. Marked' = {} /\ Marked = {}
  BY <1>1 DEF IInv, MarkOK, Marked
<1>8. MarkOK'
  <2>1. CASE StartMark
    <3>1. Roots(running)' = Roots(running) /\ Reach(Roots(running))' = Reach(Roots(running))
      BY <1>1, <1>5, SameGraph DEF IInv, TypeOK
    <3>2. Roots(running) \subseteq Reach(Roots(running))
      BY ReachRoots DEF Roots
    <3>3. worklist' = Roots(running) /\ gc' = "mark" /\ exposed' = ~(InUse \subseteq Reach(Roots(running)))
      BY <2>1 DEF StartMark
    <3>. QED BY <1>5, <1>7, <3>1, <3>2, <3>3 DEF MarkOK
  <2>2. CASE gc' = "alloc" /\ UNCHANGED <<worklist, exposed>>
    BY <1>7, <2>2 DEF IInv, MarkOK
  <2>. QED BY <2>1, <2>2
<1>. QED BY <1>3, <1>4, <1>6, <1>8 DEF IInv

\* A turn of the marking loop.
LEMMA InvMark ==
  ASSUME IInv, NEW a \in Addrs, gc_mark(a), TypeOK'
  PROVE  IInv'
<1>1. /\ UNCHANGED <<kind, elems, block, cap, frames, regs, running, want, gc, exposed>>
      /\ gc = "mark" /\ a \in worklist /\ TypeOK
  BY DEF gc_mark, mutatorVars, IInv
<1>2. Trusted /\ Returning
  BY <1>1 DEF Trusted, Returning
<1>3. CallOK' /\ RoomOK'
  BY <1>1 DEF IInv, CallOK, RoomOK
<1>4. HandlesOK' /\ PendingOK'
  BY <1>1, <1>2 DEF IInv, HandlesOK, PendingOK, Holds, Top
<1>5. InUse' = InUse /\ \A f \in Fibers : Roots(f)' = Roots(f)
  BY <1>1 DEF InUse, Roots, Held
<1>6. GraphOK'
  BY <1>1, <1>2, <1>5, SameGraph DEF IInv, GraphOK
<1>7. /\ Roots(running)' = Roots(running)
      /\ Reach(Roots(running))' = Reach(Roots(running))
      /\ \A o \in Addrs : Traced(o)' = Traced(o) /\ BlockOf(o)' = BlockOf(o)
  BY <1>1, <1>5, SameGraph DEF TypeOK
<1>. DEFINE R == Reach(Roots(running))
<1>8. /\ Roots(running) \subseteq Marked \cup worklist
      /\ \A o \in Marked : BlockOf(o) \subseteq Marked /\ Traced(o) \subseteq Marked \cup worklist
      /\ Marked \cup worklist \subseteq R
      /\ ~exposed => InUse \subseteq R
  BY <1>1 DEF IInv, MarkOK
<1>9. CASE mark[a]
  <2>1. worklist' = worklist \ {a} /\ mark' = mark /\ a \in Marked
    BY <1>1, <1>9 DEF gc_mark, Marked
  <2>2. Marked' = Marked /\ Marked' \cup worklist' = Marked \cup worklist
    BY <2>1 DEF Marked
  <2>3. Marked \subseteq Addrs
    BY DEF Marked
  <2>4. MarkOK'
    BY <1>1, <1>5, <1>7, <1>8, <2>2, <2>3 DEF MarkOK
  <2>. QED BY <1>3, <1>4, <1>6, <2>4 DEF IInv
<1>10. CASE ~mark[a]
  <2>1. /\ mark' = [o \in Addrs |-> mark[o] \/ o = a \/ o \in BlockOf(a)]
        /\ worklist' = (worklist \ {a}) \cup Traced(a)
    BY <1>10 DEF gc_mark
  <2>2. BlockOf(a) \subseteq Addrs /\ \A o \in BlockOf(a) : kind[o] = "block"
    BY <1>1, <1>2, EdgesInHeap DEF IInv, HandlesOK, BlockOf
  <2>3. Marked' = Marked \cup {a} \cup BlockOf(a) /\ Marked' \subseteq Addrs
    BY <2>1, <2>2 DEF Marked
  <2>4. \A o \in BlockOf(a) : BlockOf(o) = {} /\ Traced(o) = {}
    BY <2>2 DEF BlockOf, Traced
  <2>5. Edges(a) \subseteq R /\ a \in R
    BY <1>1, <1>8, ReachClosed DEF Closed
  <2>6. Marked' \cup worklist' \subseteq R
    BY <1>8, <2>1, <2>3, <2>5 DEF Edges
  <2>7. Roots(running) \subseteq Marked' \cup worklist'
    BY <1>8, <2>1, <2>3
  <2>8. \A o \in Marked' : BlockOf(o) \subseteq Marked' /\ Traced(o) \subseteq Marked' \cup worklist'
    BY <1>8, <2>1, <2>3, <2>4
  <2>9. MarkOK'
    BY <1>1, <1>5, <1>7, <1>8, <2>3, <2>6, <2>7, <2>8 DEF MarkOK
  <2>. QED BY <1>3, <1>4, <1>6, <2>9 DEF IInv
<1>. QED BY <1>9, <1>10

\* When the worklist is empty, the marked objects are the reachable ones, and
\* they are all live.
LEMMA MarkedExactly ==
  ASSUME IInv, gc = "mark", worklist = {}
  PROVE  Marked = Reach(Roots(running)) /\ Marked \subseteq Live /\ Closed(Marked)
<1>1. TypeOK /\ Trusted
  BY DEF IInv, Trusted
<1>2. Roots(running) \subseteq Marked /\ Closed(Marked) /\ Marked \subseteq Reach(Roots(running))
  BY DEF IInv, MarkOK, Closed, Edges
<1>3. Marked \in SUBSET Addrs /\ Live \in SUBSET Addrs
  BY DEF Marked, Live
<1>4. Reach(Roots(running)) \subseteq Marked
  BY <1>2, <1>3, ReachLeast
<1>5. Roots(running) \subseteq Live /\ Closed(Live)
  BY <1>1, RegistersInUse DEF IInv, GraphOK, TypeOK
<1>6. Reach(Roots(running)) \subseteq Live
  BY <1>3, <1>5, ReachLeast
<1>. QED BY <1>2, <1>4, <1>6

LEMMA InvSweep ==
  ASSUME IInv, Sweep, TypeOK'
  PROVE  IInv'
<1>1. /\ gc = "mark" /\ worklist = {} /\ TypeOK
      /\ kind' = [o \in Addrs |-> IF mark[o] THEN kind[o] ELSE "free"]
      /\ elems' = [o \in Addrs |-> IF mark[o] THEN elems[o] ELSE <<>>]
      /\ block' = [o \in Addrs |-> IF mark[o] THEN block[o] ELSE Null]
      /\ cap' = [o \in Addrs |-> IF mark[o] THEN cap[o] ELSE 0]
      /\ mark' = [o \in Addrs |-> FALSE]
      /\ gc' = IF want = <<>> THEN "idle" ELSE "alloc"
      /\ UNCHANGED <<frames, regs, running, want, worklist, exposed>>
  BY DEF Sweep, mutatorVars, IInv
<1>2. Marked = Reach(Roots(running)) /\ Marked \subseteq Live /\ Closed(Marked)
  BY <1>1, MarkedExactly
<1>3. Trusted /\ Returning
  BY <1>1 DEF Trusted, Returning
<1>4. Marked \subseteq Addrs /\ Live' = Marked /\ Marked' = {}
  BY <1>1, <1>2 DEF Marked, Live
<1>5. CallOK' /\ MarkOK'
  BY <1>1, <1>4 DEF IInv, CallOK, MarkOK
<1>6. RoomOK'
  BY <1>1 DEF IInv, RoomOK
<1>7. \A o \in Marked : BlockOf(o) \subseteq Marked /\ Traced(o) \subseteq Marked
  BY <1>2 DEF Closed, Edges
<1>8. \A o \in Marked : kind[o] \in Handles => block[o] \in Marked
  BY <1>3, <1>4, <1>7, AddrsFinite DEF IInv, HandlesOK, BlockOf
<1>9. HandlesOK'
  <2>. SUFFICES ASSUME NEW o \in Addrs, kind'[o] \in Handles
                PROVE  block'[o] \in Addrs /\ kind'[block'[o]] = "block"
    BY DEF HandlesOK
  <2>1. mark[o] /\ kind[o] \in Handles /\ block'[o] = block[o]
    BY <1>1
  <2>2. block[o] \in Marked /\ kind[block[o]] = "block"
    BY <1>3, <1>8, <2>1 DEF IInv, HandlesOK, Marked
  <2>. QED BY <1>1, <2>1, <2>2 DEF Marked
<1>10. Trusted' => ~exposed /\ InUse \subseteq Marked
  BY <1>1, <1>2 DEF IInv, MarkOK, Trusted
<1>11. PendingOK'
  <2>. SUFFICES ASSUME want # <<>>, Head(want) \in Handles
                PROVE  /\ Holds(1)'
                       /\ Trusted' => Top' \in Addrs /\ kind'[Top'] = "block" /\ elems'[Top'] = <<>>
    BY <1>1 DEF PendingOK
  <2>1. Holds(1) /\ Top \in Addrs /\ kind[Top] = "block" /\ elems[Top] = <<>>
    BY <1>3 DEF IInv, PendingOK
  <2>2. Holds(1)' /\ Top' = Top
    BY <1>1, <2>1 DEF Holds, Top
  <2>3. Trusted' => Top \in Marked
    BY <1>1, <1>10, <2>1, RegistersInUse, AddrsFinite
  <2>. QED BY <1>1, <2>1, <2>2, <2>3 DEF Marked
<1>12. GraphOK'
  <2>. SUFFICES ASSUME Trusted' PROVE Closed(Live)' /\ InUse' \subseteq Live'
    BY DEF GraphOK
  <2>1. InUse' = InUse
    BY <1>1 DEF InUse, Roots, Held
  <2>2. \A o \in Marked : BlockOf(o)' = BlockOf(o)
    BY <1>1, <1>4 DEF BlockOf, Marked
  <2>3. \A o \in Marked : Traced(o)' = Traced(o)
    BY <1>1, <1>4, <1>8 DEF Traced, Marked
  <2>4. Closed(Live)'
    BY <1>4, <1>7, <2>2, <2>3 DEF Closed, Edges
  <2>. QED BY <1>4, <1>10, <2>1, <2>4
<1>. QED BY <1>5, <1>6, <1>9, <1>11, <1>12 DEF IInv

\* The returning allocation finds one or two requests, in an order aster_list_new
\* and the others leave them in.
LEMMA CallTail ==
  ASSUME CallOK, want # <<>>
  PROVE  \/ Tail(want) = <<>>
         \/ Head(want) = "block" /\ \E k \in Handles : Tail(want) = <<k>>
<1>1. CASE \E k \in Plain \cup Handles \cup {"grow"} : want = <<k>>
  BY <1>1
<1>2. CASE \E k \in Handles : want = <<"block", k>>
  BY <1>2
<1>. QED BY <1>1, <1>2 DEF CallOK

\* What a fresh object at a leaves as it was: all the others, no handle of
\* which pointed to a.
LEMMA FreshFrame ==
  ASSUME IInv, NEW a \in Addrs, NEW k \in AllKinds \ {"free"}, NEW contents, NEW capacity,
         NewAt(a, k, contents, capacity)
  PROVE  /\ TypeOK /\ Returning /\ gc = "alloc" /\ gc' = "idle" /\ kind[a] = "free"
         /\ kind'[a] = k /\ elems'[a] = contents /\ cap'[a] = capacity
         /\ \A o \in Addrs \ {a} : kind'[o] = kind[o] /\ elems'[o] = elems[o] /\ cap'[o] = cap[o]
         /\ \A o \in Addrs : kind[o] \in Handles => block[o] \in Addrs \ {a} /\ kind[block[o]] = "block"
         /\ Live' = Live \cup {a} /\ a \notin Live
         /\ UNCHANGED <<frames, running, exposed>>
         /\ (Returning' => ~exposed) /\ (Trusted' => ~exposed /\ Trusted)
         /\ MarkOK'
<1>1. TypeOK /\ gc = "alloc" /\ gc' = "idle" /\ kind[a] = "free" /\ UNCHANGED <<frames, running, worklist, exposed>>
  BY DEF IInv, NewAt
<1>2. kind'[a] = k /\ elems'[a] = contents /\ cap'[a] = capacity
      /\ \A o \in Addrs \ {a} : kind'[o] = kind[o] /\ elems'[o] = elems[o] /\ cap'[o] = cap[o]
  BY DEF NewAt, IInv, TypeOK
<1>3. Returning /\ (Returning' => ~exposed) /\ (Trusted' => ~exposed /\ Trusted)
  BY <1>1 DEF Returning, Trusted
<1>4. \A o \in Addrs : kind[o] \in Handles => block[o] \in Addrs \ {a} /\ kind[block[o]] = "block"
  BY <1>1, <1>3 DEF IInv, HandlesOK
<1>5. Live' = Live \cup {a} /\ a \notin Live
  BY <1>1, <1>2 DEF Live
<1>6. MarkOK'
  <2>1. Marked = {} /\ worklist = {}
    BY <1>1 DEF IInv, MarkOK
  <2>2. Marked' = {}
    BY <2>1 DEF Marked, NewAt, IInv, TypeOK
  <2>. QED BY <1>1, <2>1, <2>2 DEF MarkOK
<1>. QED BY <1>1, <1>2, <1>3, <1>4, <1>5, <1>6

\* An object that a step leaves alone, together with its block, keeps its edges.
LEMMA EdgesKept ==
  ASSUME TypeOK, NEW o \in Addrs, kind'[o] = kind[o], block'[o] = block[o], elems'[o] = elems[o],
         kind[o] \in Handles => elems'[block[o]] = elems[block[o]]
  PROVE  Edges(o)' = Edges(o)
BY DEF Edges, Traced, BlockOf

LEMMA InvAllocValue ==
  ASSUME IInv, NEW a \in Addrs, AllocValue(a), TypeOK'
  PROVE  IInv'
<1>. DEFINE k == Head(want)
<1>. DEFINE fields == IF k \in {"class", "closure"} THEN [i \in 1..Fields |-> Null] ELSE <<>>
<1>. DEFINE room == IF k = "block" THEN InitCap ELSE 0
<1>1. want # <<>> /\ k \in Plain \cup {"block"} /\ NewAt(a, k, fields, room)
      /\ PushReg(a) /\ block' = block /\ want' = Tail(want)
  BY DEF AllocValue, NewAt
<1>2. Refs(fields) = {}
  BY RefsNone
<1>3. k = "block" => fields = <<>> /\ room = InitCap
  OBVIOUS
<1>. HIDE DEF fields, room
<1>4. k \in AllKinds \ {"free"} /\ k \notin Handles
  BY <1>1
<1>5. /\ TypeOK /\ Returning /\ gc = "alloc" /\ gc' = "idle" /\ kind[a] = "free"
      /\ kind'[a] = k /\ elems'[a] = fields /\ cap'[a] = room
      /\ \A o \in Addrs \ {a} : kind'[o] = kind[o] /\ elems'[o] = elems[o] /\ cap'[o] = cap[o]
      /\ \A o \in Addrs : kind[o] \in Handles => block[o] \in Addrs \ {a} /\ kind[block[o]] = "block"
      /\ Live' = Live \cup {a} /\ a \notin Live
      /\ UNCHANGED <<frames, running, exposed>>
      /\ (Returning' => ~exposed) /\ (Trusted' => ~exposed /\ Trusted)
      /\ MarkOK'
  BY <1>1, <1>4, FreshFrame
<1>. HIDE DEF k
<1>6. CallOK'
  BY <1>1, <1>5, CallTail DEF IInv, CallOK
<1>7. HandlesOK'
  BY <1>1, <1>4, <1>5 DEF HandlesOK
<1>8. RoomOK'
  <2>1. k = "block" => room \in Nat \ {0} /\ Len(fields) <= room
    BY <1>3, SizesNat
  <2>. QED BY <1>5, <2>1 DEF IInv, RoomOK
<1>9. PendingOK'
  <2>. SUFFICES ASSUME want' # <<>>, Head(want') \in Handles
                PROVE  Holds(1)' /\ Top' = a /\ kind'[a] = "block" /\ elems'[a] = <<>>
    BY DEF PendingOK
  <2>1. k = "block"
    BY <1>1, CallTail DEF IInv, k
  <2>2. regs'[running'] = Append(regs[running], a) /\ regs[running] \in Seq(Values)
    BY <1>1, <1>5 DEF PushReg, SetRegs, TypeOK
  <2>3. Len(Append(regs[running], a)) >= 1 /\ Append(regs[running], a)[Len(Append(regs[running], a))] = a
    BY <2>2
  <2>. QED BY <1>3, <1>5, <2>1, <2>2, <2>3 DEF Holds, Top
<1>10. GraphOK'
  <2>. SUFFICES ASSUME ~exposed PROVE Closed(Live)' /\ InUse' \subseteq Live'
    BY <1>5 DEF GraphOK
  <2>1. Closed(Live) /\ InUse \subseteq Live \cup {a}
    BY DEF IInv, GraphOK, Trusted
  <2>2. \A o \in Live : Edges(o)' = Edges(o)
    BY <1>1, <1>5, EdgesKept DEF Live
  <2>3. Edges(a)' = {}
    <3>1. BlockOf(a)' = {}
      BY <1>4, <1>5 DEF BlockOf
    <3>2. Traced(a)' = {}
      BY <1>2, <1>4, <1>5 DEF Traced
    <3>. QED BY <3>1, <3>2 DEF Edges
  <2>4. Closed(Live)'
    BY <1>5, <2>1, <2>2, <2>3 DEF Closed
  <2>5. InUse' \subseteq Live \cup {a}
    BY <1>1, <1>5, <2>1, InUsePush
  <2>. QED BY <1>5, <2>4, <2>5
<1>. QED BY <1>5, <1>6, <1>7, <1>8, <1>9, <1>10 DEF IInv

LEMMA InvAllocHandle ==
  ASSUME IInv, NEW a \in Addrs, AllocHandle(a), TypeOK'
  PROVE  IInv'
<1>. DEFINE k == Head(want)
<1>1. want # <<>> /\ k \in Handles /\ NewAt(a, k, <<>>, 0) /\ Holds(1)
      /\ block' = [block EXCEPT ![a] = Top]
      /\ SetRegs(Append(ButLast(regs[running]), a)) /\ want' = Tail(want)
  BY DEF AllocHandle, NewAt
<1>2. k \in AllKinds \ {"free"}
  BY <1>1
<1>3. /\ TypeOK /\ Returning /\ gc = "alloc" /\ gc' = "idle" /\ kind[a] = "free"
      /\ kind'[a] = k /\ elems'[a] = <<>> /\ cap'[a] = 0
      /\ \A o \in Addrs \ {a} : kind'[o] = kind[o] /\ elems'[o] = elems[o] /\ cap'[o] = cap[o]
      /\ \A o \in Addrs : kind[o] \in Handles => block[o] \in Addrs \ {a} /\ kind[block[o]] = "block"
      /\ Live' = Live \cup {a} /\ a \notin Live
      /\ UNCHANGED <<frames, running, exposed>>
      /\ (Returning' => ~exposed) /\ (Trusted' => ~exposed /\ Trusted)
      /\ MarkOK'
  BY <1>1, <1>2, FreshFrame
<1>4. Tail(want) = <<>>
  BY <1>1, CallTail DEF IInv
<1>5. CallOK' /\ PendingOK'
  BY <1>1, <1>3, <1>4 DEF CallOK, PendingOK
<1>6. Trusted => Top \in Addrs \ {a} /\ kind[Top] = "block" /\ elems[Top] = <<>>
  BY <1>1, <1>3 DEF IInv, PendingOK
<1>7. block'[a] = Top /\ \A o \in Addrs \ {a} : block'[o] = block[o]
  BY <1>1, <1>3 DEF TypeOK
<1>. HIDE DEF k
<1>8. HandlesOK'
  BY <1>3, <1>6, <1>7 DEF HandlesOK, Trusted
<1>9. RoomOK'
  BY <1>1, <1>3 DEF IInv, RoomOK
<1>10. GraphOK'
  <2>. SUFFICES ASSUME ~exposed, Trusted PROVE Closed(Live)' /\ InUse' \subseteq Live'
    BY <1>3 DEF GraphOK
  <2>1. Closed(Live) /\ InUse \subseteq Live \cup {a}
    BY DEF IInv, GraphOK
  <2>2. \A o \in Live : Edges(o)' = Edges(o)
    BY <1>3, <1>7, EdgesKept DEF Live
  <2>3. Edges(a)' \subseteq Live
    <3>1. BlockOf(a)' \subseteq Live
      BY <1>3, <1>6, <1>7 DEF BlockOf, Live
    <3>2. elems'[block'[a]] = <<>> /\ kind'[a] \in Handles
      BY <1>1, <1>3, <1>6, <1>7
    <3>3. Traced(a)' = {}
      BY <3>2, RefsNone DEF Traced
    <3>. QED BY <3>1, <3>3 DEF Edges
  <2>4. Closed(Live)'
    BY <1>3, <2>1, <2>2, <2>3 DEF Closed
  <2>5. a \in Values /\ {a} \ {Null} \subseteq Live \cup {a}
    OBVIOUS
  <2>6. InUse' \subseteq Live \cup {a}
    BY <1>1, <1>3, <2>1, <2>5, InUseReplace
  <2>. QED BY <1>3, <2>4, <2>6
<1>. QED BY <1>3, <1>5, <1>8, <1>9, <1>10 DEF IInv

LEMMA InvAllocGrown ==
  ASSUME IInv, NEW a \in Addrs, AllocGrown(a), TypeOK'
  PROVE  IInv'
<1>. DEFINE b == block[Below]
<1>. DEFINE grown == Append(elems[b], Top)
<1>. DEFINE room == Doubled(cap[b], InitCap)
<1>1. want # <<>> /\ Head(want) = "grow" /\ Holds(2) /\ IsList(Below)
      /\ NewAt(a, "block", grown, room) /\ block' = [block EXCEPT ![Below] = a]
      /\ PopReg /\ want' = Tail(want)
  BY DEF AllocGrown, NewAt
<1>2. "block" \in AllKinds \ {"free"}
  OBVIOUS
<1>3. /\ TypeOK /\ Returning /\ gc = "alloc" /\ gc' = "idle" /\ kind[a] = "free"
      /\ kind'[a] = "block" /\ elems'[a] = grown /\ cap'[a] = room
      /\ \A o \in Addrs \ {a} : kind'[o] = kind[o] /\ elems'[o] = elems[o] /\ cap'[o] = cap[o]
      /\ \A o \in Addrs : kind[o] \in Handles => block[o] \in Addrs \ {a} /\ kind[block[o]] = "block"
      /\ Live' = Live \cup {a} /\ a \notin Live
      /\ UNCHANGED <<frames, running, exposed>>
      /\ (Returning' => ~exposed) /\ (Trusted' => ~exposed /\ Trusted)
      /\ MarkOK'
  BY <1>1, <1>2, FreshFrame
<1>4. Tail(want) = <<>>
  BY <1>1, CallTail DEF IInv
<1>5. CallOK' /\ PendingOK'
  BY <1>1, <1>3, <1>4 DEF CallOK, PendingOK
<1>6. Top \in Values /\ Below \in Addrs /\ Below # a /\ kind[Below] \in Handles /\ Holds(1)
  BY <1>1, <1>3, RegisterTypes DEF IsList
<1>7. b \in Addrs \ {a} /\ kind[b] = "block" /\ elems[b] \in Seq(Values)
  BY <1>3, <1>6 DEF TypeOK
<1>8. block'[Below] = a /\ \A o \in Addrs \ {Below} : block'[o] = block[o]
  BY <1>1, <1>3, <1>6 DEF TypeOK
<1>9. HandlesOK'
  BY <1>3, <1>8 DEF HandlesOK
<1>. PICK h \in Addrs : h = Below
  BY <1>6
<1>10. RoomOK'
  <2>1. cap[b] \in Nat \ {0} /\ Len(elems[b]) <= cap[b] /\ Len(elems[b]) \in Nat
    BY <1>7 DEF IInv, RoomOK
  <2>2. Len(grown) = Len(elems[b]) + 1
    BY <1>6, <1>7
  <2>3. room \in Nat \ {0} /\ Len(elems[b]) + 1 <= room
    BY <2>1, SizesNat DEF Doubled
  <2>. HIDE DEF grown, room
  <2>. QED BY <1>3, <2>2, <2>3 DEF IInv, RoomOK
<1>11. GraphOK'
  <2>. SUFFICES ASSUME ~exposed PROVE Closed(Live)' /\ InUse' \subseteq Live'
    BY <1>3 DEF GraphOK
  <2>1. Closed(Live) /\ InUse \subseteq Live
    BY DEF IInv, GraphOK, Trusted
  <2>2. \A o \in Live \ {h} : Edges(o)' = Edges(o)
    BY <1>3, <1>8, EdgesKept DEF Live
  <2>3. Edges(a)' = {}
    BY <1>3 DEF Edges, Traced, BlockOf
  <2>4. Edges(h)' \subseteq Live \cup {a}
    <3>1. kind'[h] = kind[h] /\ h \in Live
      BY <1>3, <1>6 DEF Live
    <3>2. BlockOf(h)' \subseteq {a}
      BY <1>8 DEF BlockOf
    <3>3. CASE kind[h] = "list"
      <4>1. Traced(h) = Refs(elems[b])
        BY <1>7, <3>3, AddrsFinite DEF Traced
      <4>2. Traced(h)' = Refs(grown)
        BY <1>3, <1>8, <3>1, <3>3, AddrsFinite DEF Traced
      <4>3. Refs(grown) = Refs(elems[b]) \cup ({Top} \ {Null})
        BY <1>6, <1>7, RefsAppend
      <4>4. {Top} \ {Null} \subseteq Live
        BY <1>3, <1>6, <2>1, RegistersInUse
      <4>5. Traced(h) \subseteq Live
        BY <2>1, <3>1 DEF Closed, Edges
      <4>. HIDE DEF grown, b
      <4>. QED BY <3>2, <4>1, <4>2, <4>3, <4>4, <4>5 DEF Edges
    <3>4. CASE kind[h] = "noptr"
      <4>1. Traced(h)' = {}
        BY <3>1, <3>4 DEF Traced
      <4>. QED BY <3>2, <4>1 DEF Edges
    <3>. QED BY <1>6, <3>3, <3>4
  <2>5. Closed(Live)'
    BY <1>3, <2>1, <2>2, <2>3, <2>4 DEF Closed
  <2>6. InUse' \subseteq Live
    BY <1>1, <1>3, <1>6, <2>1, InUsePop
  <2>. QED BY <1>3, <2>5, <2>6
<1>. QED BY <1>3, <1>5, <1>9, <1>10, <1>11 DEF IInv

LEMMA InvCollector == IInv /\ Collector => IInv'
<1>. SUFFICES ASSUME IInv, Collector PROVE IInv'
  OBVIOUS
<1>1. TypeOK'
  BY TypeCollector DEF IInv
<1>2. CASE gc_alloc_inner
  <2>1. gc = "idle" /\ ~exposed /\ UNCHANGED <<heapVars, frames, regs, running, want>>
    BY <1>2 DEF gc_alloc_inner, mutatorVars
  <2>2. StartMark \/ (gc' = "alloc" /\ want # <<>> /\ UNCHANGED <<worklist, exposed>>)
    BY <1>2 DEF gc_alloc_inner
  <2>. QED BY <1>1, <2>1, <2>2, InvStart
<1>3. CASE aster_gc_collect
  <2>1. gc = "idle" /\ ~exposed /\ UNCHANGED <<heapVars, frames, regs, running, want>> /\ StartMark
    BY <1>3 DEF aster_gc_collect, Computing, mutatorVars
  <2>. QED BY <1>1, <2>1, InvStart
<1>4. CASE \E a \in Addrs : gc_mark(a)
  BY <1>1, <1>4, InvMark
<1>5. CASE Sweep
  BY <1>1, <1>5, InvSweep
<1>6. CASE \E a \in Addrs : AllocValue(a) \/ AllocHandle(a) \/ AllocGrown(a)
  BY <1>1, <1>6, InvAllocValue, InvAllocHandle, InvAllocGrown
<1>. QED BY <1>2, <1>3, <1>4, <1>5, <1>6 DEF Collector

LEMMA InvStep == IInv /\ [Next]_vars => IInv'
<1>1. ASSUME IInv, UNCHANGED vars PROVE IInv'
  <2>1. UNCHANGED <<kind, elems, block, cap, mark, frames, regs, running, want, gc, worklist, exposed>>
    BY <1>1 DEF vars, heapVars, counterVars, mutatorVars, collectorVars
  <2>2. InUse' = InUse /\ \A f \in Fibers : Roots(f)' = Roots(f)
    BY <2>1 DEF InUse, Roots, Held
  <2>3. Roots(running)' = Roots(running) /\ Reach(Roots(running))' = Reach(Roots(running))
    BY <1>1, <2>1, <2>2, SameGraph DEF IInv, TypeOK
  <2>4. TypeOK'
    BY <1>1, TypeStep DEF IInv
  <2>5. CallOK' /\ HandlesOK' /\ PendingOK' /\ RoomOK'
    BY <1>1, <2>1 DEF IInv, CallOK, HandlesOK, PendingOK, RoomOK, Trusted, Returning, Holds, Top
  <2>6. GraphOK'
    BY <1>1, <2>1, <2>2, SameGraph DEF IInv, GraphOK, Trusted
  <2>7. Marked' = Marked /\ Marked \subseteq Addrs
    BY <2>1 DEF Marked
  <2>8. MarkOK'
    BY <1>1, <2>1, <2>2, <2>3, <2>7, SameGraph DEF IInv, MarkOK
  <2>. QED BY <2>4, <2>5, <2>6, <2>8 DEF IInv
<1>. QED BY <1>1, InvMutator, InvCollector DEF Next

\* The inductive invariant holds in every state.
THEOREM Invariant == Spec => []IInv
BY InvInit, InvStep, PTL DEF Spec

-----------------------------------------------------------------------------
(* The theorems *)

\* As long as no collection has missed a value in use, whatever any green thread
\* can get at is allocated: nothing it will follow was freed by a sweep.
THEOREM NothingInUseFreed == Spec => []InUseLive
<1>1. IInv => InUseLive
  <2>. SUFFICES ASSUME IInv, ~exposed PROVE Reach(InUse) \subseteq Live
    BY DEF InUseLive
  <2>1. Closed(Live) /\ InUse \subseteq Live /\ Live \in SUBSET Addrs
    BY DEF IInv, GraphOK, Trusted, Live
  <2>. QED BY <2>1, ReachLeast
<1>. QED BY <1>1, Invariant, PTL

\* No data block is ever asked to hold more than it has room for.
THEOREM BlocksHaveRoom == Spec => []BlockNotOverrun
<1>1. IInv => BlockNotOverrun
  BY DEF IInv, RoomOK, BlockNotOverrun, Live
<1>. QED BY <1>1, Invariant, PTL

\* Every collection frees exactly what the running shadow stack does not reach,
\* cycles included, and keeps the rest.
THEOREM CollectionExact == Spec => SweepExact
<1>. DEFINE A == gc = "mark" /\ gc' # "mark" =>
                   \A a \in Addrs : kind'[a] # "free" <=> kind[a] # "free" /\ a \in Reach(Roots(running))
<1>1. IInv /\ [Next]_vars => [A]_vars
  <2>. SUFFICES ASSUME IInv, Next, gc = "mark", gc' # "mark", NEW a \in Addrs
                PROVE  kind'[a] # "free" <=> kind[a] # "free" /\ a \in Reach(Roots(running))
    OBVIOUS
  <2>1. TypeOK /\ ~Mutator
    BY MutatorFrame DEF IInv
  <2>2. Sweep
    BY <2>1 DEF Next, Collector, gc_alloc_inner, aster_gc_collect, gc_mark, AllocValue, AllocHandle,
                AllocGrown, NewAt, Computing
  <2>3. Marked = Reach(Roots(running)) /\ Marked \subseteq Live
    BY <2>2, MarkedExactly DEF Sweep
  <2>4. kind'[a] = IF mark[a] THEN kind[a] ELSE "free"
    BY <2>2 DEF Sweep
  <2>. QED BY <2>3, <2>4 DEF Marked
<1>. QED BY <1>1, Invariant, PTL DEF Spec, SweepExact

\* Every turn of the marking loop brings the collection nearer its end.
THEOREM MarkingAdvances == Spec => MarkProgress
<1>. DEFINE A == gc = "mark" /\ gc' = "mark" =>
                   LET marked == {a \in Addrs : mark[a]}
                       next == {a \in Addrs : mark'[a]}
                   IN \/ marked \subseteq next /\ marked # next
                      \/ marked = next /\ worklist' \subseteq worklist /\ worklist' # worklist
<1>1. TypeOK /\ [Next]_vars => [A]_vars
  <2>. SUFFICES ASSUME TypeOK, Next, gc = "mark", gc' = "mark" PROVE A
    OBVIOUS
  <2>1. ~Mutator
    BY MutatorFrame
  <2>2. PICK a \in Addrs : gc_mark(a)
    BY <2>1 DEF Next, Collector, gc_alloc_inner, aster_gc_collect, Sweep, AllocValue, AllocHandle,
                AllocGrown, NewAt, Computing
  <2>3. CASE mark[a]
    BY <2>2, <2>3 DEF gc_mark
  <2>4. CASE ~mark[a]
    BY <2>2, <2>4 DEF gc_mark
  <2>. QED BY <2>3, <2>4
<1>. QED BY <1>1, TypeCorrect, PTL DEF Spec, MarkProgress
=============================================================================
