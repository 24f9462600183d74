------------------------------- MODULE GcHeap -------------------------------
(***************************************************************************)
(* The garbage-collected heap of one OS thread: a non-moving mark-and-     *)
(* sweep collector that runs inside an allocation, the shadow stacks it    *)
(* takes its roots from, and the compiled code and runtime helpers of the  *)
(* green threads that run on the OS thread one at a time.                  *)
(*                                                                         *)
(* A value that is no heap pointer is Null.  What compiled code or a Rust  *)
(* helper holds in registers and locals is `regs`: the collector does not  *)
(* see it.  `exposed` records that a collection started while somebody     *)
(* held an address its roots do not lead to; such a collection is followed *)
(* to the end of its allocation, and what the program does with freed      *)
(* memory after that is undefined and not modelled.                        *)
(***************************************************************************)
EXTENDS Naturals, Sequences, FiniteSets

CONSTANTS Addrs,        \* payload addresses
          Fibers,       \* green threads on this OS thread
          Null,
          Slots,        \* root slots of a frame
          ObjectKinds,  \* what the program allocates
          Fields,       \* pointer fields of a class instance
          InitCap,      \* least capacity of a list
          MinThreshold, \* GC_THRESHOLD, in objects
          MaxFrames,    \* frames of a green thread
          MaxRegs,      \* registers in use, of all green threads
          MaxLen,       \* elements of a list
          MaxPause,     \* nesting of pause_gc
          MaxBytes      \* where the byte counter may stand when a call begins

Plain == {"opaque", "class", "closure"}
Handles == {"list", "noptr"}

ASSUME AddrsFinite == IsFiniteSet(Addrs) /\ Null \notin Addrs
ASSUME FibersExist == Fibers # {}
ASSUME KindsKnown == ObjectKinds \subseteq Plain \cup Handles
ASSUME SizesNat == Fields \in Nat /\ InitCap \in Nat \ {0} /\ MinThreshold \in Nat /\ MaxLen \in Nat
ASSUME BoundsNat == MaxFrames \in Nat /\ MaxRegs \in Nat /\ MaxPause \in Nat /\ MaxBytes \in Nat

VARIABLES
  kind,        \* obj_type of the object at an address, "free" where there is none
  elems,       \* fields of an instance, elements of a data block
  block,       \* the data block a list handle points to
  cap,         \* capacity in a data block
  mark,        \* the mark byte
  bytes,       \* BYTES_ALLOCATED
  threshold,   \* GC_NEXT_THRESHOLD
  suspend,     \* GC_SUSPEND
  frames,      \* SHADOW_STACK of each green thread
  regs,        \* values it holds in registers and Rust locals
  running,     \* the green thread on the OS thread
  want,        \* allocations left in the current call
  gc,          \* "idle", "mark" while collecting, "alloc" while allocating
  worklist,    \* gc_mark's worklist
  exposed

heapVars == <<kind, elems, block, cap, mark>>
counterVars == <<bytes, threshold, suspend>>
mutatorVars == <<frames, regs, running>>
collectorVars == <<gc, worklist, exposed>>
vars == <<heapVars, counterVars, mutatorVars, want, collectorVars>>

Values == Addrs \cup {Null}
AllKinds == Plain \cup Handles \cup {"block", "free"}
Requests == Plain \cup Handles \cup {"block", "grow"}

TypeOK ==
  /\ kind \in [Addrs -> AllKinds]
  /\ elems \in [Addrs -> Seq(Values)]
  /\ block \in [Addrs -> Values]
  /\ cap \in [Addrs -> Nat]
  /\ mark \in [Addrs -> BOOLEAN]
  /\ bytes \in Nat /\ threshold \in Nat /\ suspend \in Nat
  /\ frames \in [Fibers -> Seq([Slots -> Values])]
  /\ regs \in [Fibers -> Seq(Values)]
  /\ running \in Fibers
  /\ want \in Seq(Requests)
  /\ gc \in {"idle", "mark", "alloc"}
  /\ worklist \subseteq Addrs
  /\ exposed \in BOOLEAN

Init ==
  /\ kind = [a \in Addrs |-> "free"]
  /\ elems = [a \in Addrs |-> <<>>]
  /\ block = [a \in Addrs |-> Null]
  /\ cap = [a \in Addrs |-> 0]
  /\ mark = [a \in Addrs |-> FALSE]
  /\ bytes = 0 /\ threshold = MinThreshold /\ suspend = 0
  /\ frames = [f \in Fibers |-> <<>>]
  /\ regs = [f \in Fibers |-> <<>>]
  /\ running \in Fibers
  /\ want = <<>>
  /\ gc = "idle" /\ worklist = {} /\ exposed = FALSE

-----------------------------------------------------------------------------
(* The object graph *)

Live == {a \in Addrs : kind[a] # "free"}
Refs(s) == {s[i] : i \in DOMAIN s} \ {Null}

\* What gc_mark pushes when it visits the object at a, by its type.
Traced(a) ==
  IF kind[a] \in {"class", "closure"} THEN Refs(elems[a])
  ELSE IF kind[a] = "list" /\ block[a] # Null THEN Refs(elems[block[a]])
  ELSE {}

\* The data block it marks along with a handle, without visiting it.
BlockOf(a) == IF kind[a] \in Handles THEN {block[a]} \ {Null} ELSE {}

Edges(a) == Traced(a) \cup BlockOf(a)
Closed(S) == \A a \in S : Edges(a) \subseteq S

\* Everything that can be reached from the addresses R.
Reach(R) == {a \in Addrs : \A S \in SUBSET Addrs : R \subseteq S /\ Closed(S) => a \in S}

\* The roots on f's shadow stack, all frames of it, and what f holds besides.
Roots(f) == {a \in Addrs : \E i \in DOMAIN frames[f] : \E s \in Slots : frames[f][i][s] = a}
Held(f) == Refs(regs[f])
InUse == UNION {Roots(f) \cup Held(f) : f \in Fibers}

-----------------------------------------------------------------------------
(* Pieces of steps *)

Depth(f) == Len(frames[f])
Top == regs[running][Len(regs[running])]          \* the last register
Below == regs[running][Len(regs[running]) - 1]    \* the one under it
ButLast(s) == SubSeq(s, 1, Len(s) - 1)
Doubled(n, least) == IF 2 * n > least THEN 2 * n ELSE least

SetRegs(s) == regs' = [regs EXCEPT ![running] = s]
PushReg(v) == SetRegs(Append(regs[running], v))
PopReg == SetRegs(ButLast(regs[running]))

\* The running green thread executes between two runtime calls.
Computing == gc = "idle" /\ want = <<>> /\ ~exposed
Holds(n) == Len(regs[running]) >= n
HasRoom == Cardinality(UNION {{f} \X DOMAIN regs[f] : f \in Fibers}) < MaxRegs

\* gc_collect_inner begins: the shadow stack of the running thread alone.
StartMark ==
  /\ gc' = "mark"
  /\ worklist' = Roots(running)
  /\ exposed' = ~(InUse \subseteq Reach(Roots(running)))

-----------------------------------------------------------------------------
(* Compiled code *)

\* aster_gc_push_roots on entry, with the slots zeroed.
aster_gc_push_roots ==
  /\ Computing
  /\ Depth(running) < MaxFrames
  /\ frames' = [frames EXCEPT ![running] = Append(@, [s \in Slots |-> Null])]
  /\ UNCHANGED <<heapVars, counterVars, regs, running, want, collectorVars>>

aster_gc_pop_roots ==
  /\ Computing
  /\ Depth(running) > 0
  /\ frames' = [frames EXCEPT ![running] = ButLast(@)]
  /\ UNCHANGED <<heapVars, counterVars, regs, running, want, collectorVars>>

\* A local is read into a register.
LoadLocal(s) ==
  /\ Computing
  /\ Depth(running) > 0 /\ HasRoom
  /\ PushReg(frames[running][Depth(running)][s])
  /\ UNCHANGED <<heapVars, counterVars, frames, running, want, collectorVars>>

\* `let` and assignment: the register goes to the local's root slot.
StoreLocal(s) ==
  /\ Computing
  /\ Depth(running) > 0 /\ Holds(1)
  /\ frames' = [frames EXCEPT ![running][Depth(running)][s] = Top]
  /\ PopReg
  /\ UNCHANGED <<heapVars, counterVars, running, want, collectorVars>>

\* The address whose `elems` an index into o reads or writes, and what a read
\* finds there: a list of value types holds no pointers.
Body(o) == IF kind[o] \in Handles THEN block[o] ELSE o
Element(o, i) == IF kind[o] = "noptr" THEN Null ELSE elems[Body(o)][i]
IsList(o) == o # Null /\ kind[o] \in Handles /\ block[o] # Null
Indexable(o) == IsList(o) \/ (o # Null /\ kind[o] \in {"class", "closure"})

\* A field or element is read: FieldGet, aster_list_get.
LoadElem(i) ==
  /\ Computing
  /\ Holds(1) /\ Indexable(Top)
  /\ i \in DOMAIN elems[Body(Top)]
  /\ SetRegs(Append(ButLast(regs[running]), Element(Top, i)))
  /\ UNCHANGED <<heapVars, counterVars, frames, running, want, collectorVars>>

\* A field or element is written: FieldSet, Construct, aster_list_set.
StoreElem(i) ==
  /\ Computing
  /\ Holds(2) /\ Indexable(Below)
  /\ i \in DOMAIN elems[Body(Below)]
  /\ kind[Below] = "noptr" => Top = Null
  /\ elems' = [elems EXCEPT ![Body(Below)][i] = Top]
  /\ PopReg
  /\ UNCHANGED <<kind, block, cap, mark, counterVars, frames, running, want, collectorVars>>

\* A register's value is not needed any more.
Drop ==
  /\ Computing
  /\ Holds(1)
  /\ PopReg
  /\ UNCHANGED <<heapVars, counterVars, frames, running, want, collectorVars>>

\* aster_class_alloc_typed, aster_closure_alloc, gc_alloc_string; aster_list_new
\* allocates the block before the handle.
New(k) ==
  /\ Computing
  /\ HasRoom /\ bytes < MaxBytes
  /\ want' = IF k \in Handles THEN <<"block", k>> ELSE <<k>>
  /\ UNCHANGED <<heapVars, counterVars, mutatorVars, collectorVars>>

\* Mutation of aster_list_push: a full block takes one more element.
PushOverrun ==
  /\ Computing
  /\ Holds(2) /\ IsList(Below)
  /\ kind[Below] = "noptr" => Top = Null
  /\ LET b == block[Below] IN
       /\ Len(elems[b]) < MaxLen /\ bytes < MaxBytes
       /\ IF Len(elems[b]) > cap[b]
            THEN /\ want' = <<"grow">>
                 /\ UNCHANGED <<elems, regs>>
            ELSE /\ elems' = [elems EXCEPT ![b] = Append(@, Top)]
                 /\ PopReg
                 /\ UNCHANGED want
  /\ UNCHANGED <<kind, block, cap, mark, counterVars, frames, running, collectorVars>>

\* aster_list_push, aster_list_insert at the end: a full block is replaced.
aster_list_push ==
  /\ Computing
  /\ Holds(2) /\ IsList(Below)
  /\ kind[Below] = "noptr" => Top = Null
  /\ LET b == block[Below] IN
       /\ Len(elems[b]) < MaxLen /\ bytes < MaxBytes
       /\ IF Len(elems[b]) >= cap[b]
            THEN /\ want' = <<"grow">>
                 /\ UNCHANGED <<elems, regs>>
            ELSE /\ elems' = [elems EXCEPT ![b] = Append(@, Top)]
                 /\ PopReg
                 /\ UNCHANGED want
  /\ UNCHANGED <<kind, block, cap, mark, counterVars, frames, running, collectorVars>>

\* aster_list_pop: the value moves from the block to a register.
aster_list_pop ==
  /\ Computing
  /\ Holds(1) /\ IsList(Top)
  /\ elems[block[Top]] # <<>>
  /\ LET s == elems[block[Top]] IN
       /\ elems' = [elems EXCEPT ![block[Top]] = ButLast(s)]
       /\ SetRegs(Append(ButLast(regs[running]), Element(Top, Len(s))))
  /\ UNCHANGED <<kind, block, cap, mark, counterVars, frames, running, want, collectorVars>>

\* pause_gc around the allocations of a runtime helper.
PauseGc ==
  /\ Computing
  /\ suspend < MaxPause
  /\ suspend' = suspend + 1
  /\ UNCHANGED <<heapVars, bytes, threshold, mutatorVars, want, collectorVars>>

\* Mutation of ResumeGc: the depth is lowered once too often.
ResumeUnmatched ==
  /\ Computing
  /\ suspend' = suspend - 1
  /\ UNCHANGED <<heapVars, bytes, threshold, mutatorVars, want, collectorVars>>

ResumeGc ==
  /\ Computing
  /\ suspend > 0
  /\ suspend' = suspend - 1
  /\ UNCHANGED <<heapVars, bytes, threshold, mutatorVars, want, collectorVars>>

\* The worker saves one shadow stack and installs another.  Helpers that pause
\* the collector do not yield.
SwitchTo(f) ==
  /\ Computing
  /\ suspend = 0
  /\ running' = f
  /\ UNCHANGED <<heapVars, counterVars, frames, regs, want, collectorVars>>

-----------------------------------------------------------------------------
(* The allocator and the collector *)

\* gc_alloc_inner up to the collection it may need.
gc_alloc_inner ==
  /\ gc = "idle" /\ want # <<>> /\ ~exposed
  /\ bytes' = bytes + 1
  /\ IF bytes + 1 >= threshold /\ suspend = 0
       THEN StartMark
       ELSE gc' = "alloc" /\ UNCHANGED <<worklist, exposed>>
  /\ UNCHANGED <<heapVars, threshold, suspend, mutatorVars, want>>

\* aster_gc_collect, which a program may call but no helper does.
aster_gc_collect ==
  /\ Computing
  /\ suspend = 0
  /\ StartMark
  /\ UNCHANGED <<heapVars, counterVars, mutatorVars, want>>

\* Mutation of gc_mark: objects that are marked already are visited again.
MarkTwice(a) ==
  /\ gc = "mark"
  /\ a \in worklist
  /\ mark' = [o \in Addrs |-> mark[o] \/ o = a \/ o \in BlockOf(a)]
  /\ worklist' = (worklist \ {a}) \cup Traced(a)
  /\ UNCHANGED <<kind, elems, block, cap, counterVars, mutatorVars, want, gc, exposed>>

\* Mutation of gc_mark: the data block of a handle is not marked.
MarkNoBlock(a) ==
  /\ gc = "mark"
  /\ a \in worklist
  /\ IF mark[a]
       THEN /\ worklist' = worklist \ {a}
            /\ UNCHANGED mark
       ELSE /\ mark' = [mark EXCEPT ![a] = TRUE]
            /\ worklist' = (worklist \ {a}) \cup Traced(a)
  /\ UNCHANGED <<kind, elems, block, cap, counterVars, mutatorVars, want, gc, exposed>>

\* One turn of gc_mark's loop.
gc_mark(a) ==
  /\ gc = "mark"
  /\ a \in worklist
  /\ IF mark[a]
       THEN /\ worklist' = worklist \ {a}
            /\ UNCHANGED mark
       ELSE /\ mark' = [o \in Addrs |-> mark[o] \/ o = a \/ o \in BlockOf(a)]
            /\ worklist' = (worklist \ {a}) \cup Traced(a)
  /\ UNCHANGED <<kind, elems, block, cap, counterVars, mutatorVars, want, gc, exposed>>

Survivors == {a \in Live : mark[a]}

NextThreshold == Doubled(Cardinality(Survivors), MinThreshold)

\* Mutation of Sweep: the marks of the survivors stay.
SweepKeepMarks ==
  /\ gc = "mark" /\ worklist = {}
  /\ kind' = [a \in Addrs |-> IF mark[a] THEN kind[a] ELSE "free"]
  /\ elems' = [a \in Addrs |-> IF mark[a] THEN elems[a] ELSE <<>>]
  /\ block' = [a \in Addrs |-> IF mark[a] THEN block[a] ELSE Null]
  /\ cap' = [a \in Addrs |-> IF mark[a] THEN cap[a] ELSE 0]
  /\ threshold' = NextThreshold
  /\ bytes' = IF want = <<>> THEN bytes ELSE 0
  /\ gc' = IF want = <<>> THEN "idle" ELSE "alloc"
  /\ UNCHANGED <<mark, suspend, mutatorVars, want, worklist, exposed>>

\* The sweep over the heap list, the new threshold, and the return into
\* gc_alloc_inner or into the program.
Sweep ==
  /\ gc = "mark" /\ worklist = {}
  /\ kind' = [a \in Addrs |-> IF mark[a] THEN kind[a] ELSE "free"]
  /\ elems' = [a \in Addrs |-> IF mark[a] THEN elems[a] ELSE <<>>]
  /\ block' = [a \in Addrs |-> IF mark[a] THEN block[a] ELSE Null]
  /\ cap' = [a \in Addrs |-> IF mark[a] THEN cap[a] ELSE 0]
  /\ mark' = [a \in Addrs |-> FALSE]
  /\ threshold' = NextThreshold
  /\ bytes' = IF want = <<>> THEN bytes ELSE 0
  /\ gc' = IF want = <<>> THEN "idle" ELSE "alloc"
  /\ UNCHANGED <<suspend, mutatorVars, want, worklist, exposed>>

\* The rest of gc_alloc_inner: a fresh object with a clear mark.
NewAt(a, k, contents, capacity) ==
  /\ gc = "alloc"
  /\ kind[a] = "free"
  /\ kind' = [kind EXCEPT ![a] = k]
  /\ elems' = [elems EXCEPT ![a] = contents]
  /\ cap' = [cap EXCEPT ![a] = capacity]
  /\ mark' = [mark EXCEPT ![a] = FALSE]
  /\ gc' = "idle"
  /\ want' = Tail(want)
  /\ UNCHANGED <<counterVars, frames, running, worklist, exposed>>

\* An instance, a string or a list's data block; the fields of an instance are
\* stored before it can become reachable.
AllocValue(a) ==
  /\ want # <<>> /\ Head(want) \in Plain \cup {"block"}
  /\ NewAt(a, Head(want),
           IF Head(want) \in {"class", "closure"} THEN [i \in 1..Fields |-> Null] ELSE <<>>,
           IF Head(want) = "block" THEN InitCap ELSE 0)
  /\ PushReg(a)
  /\ UNCHANGED block

\* The handle of aster_list_new takes the block from the helper's local.
AllocHandle(a) ==
  /\ want # <<>> /\ Head(want) \in Handles
  /\ Holds(1)
  /\ NewAt(a, Head(want), <<>>, 0)
  /\ block' = [block EXCEPT ![a] = Top]
  /\ SetRegs(Append(ButLast(regs[running]), a))

\* Growth in aster_list_push: the old block is copied, the handle redirected.
AllocGrown(a) ==
  /\ want # <<>> /\ Head(want) = "grow"
  /\ Holds(2) /\ IsList(Below)
  /\ NewAt(a, "block", Append(elems[block[Below]], Top), Doubled(cap[block[Below]], InitCap))
  /\ block' = [block EXCEPT ![Below] = a]
  /\ PopReg

-----------------------------------------------------------------------------
Mutator ==
  \/ aster_gc_push_roots
  \/ aster_gc_pop_roots
  \/ \E s \in Slots : LoadLocal(s) \/ StoreLocal(s)
  \/ \E i \in 1..MaxLen : LoadElem(i) \/ StoreElem(i)
  \/ Drop
  \/ \E k \in ObjectKinds : New(k)
  \/ aster_list_push
  \/ aster_list_pop
  \/ PauseGc
  \/ ResumeGc
  \/ \E f \in Fibers \ {running} : SwitchTo(f)

Collector ==
  \/ gc_alloc_inner
  \/ aster_gc_collect
  \/ \E a \in Addrs : gc_mark(a)
  \/ Sweep
  \/ \E a \in Addrs : AllocValue(a) \/ AllocHandle(a) \/ AllocGrown(a)

Next == Mutator \/ Collector

Spec == Init /\ [][Next]_vars

-----------------------------------------------------------------------------
(* Properties *)

\* A collection frees an object exactly when the shadow stack of the running
\* green thread does not lead to it: through instance fields, list elements and
\* the data blocks of handles, cycles included (gc_mark, the sweep).
SweepExact ==
  [][gc = "mark" /\ gc' # "mark" =>
       \A a \in Addrs : kind'[a] # "free" <=> kind[a] # "free" /\ a \in Reach(Roots(running))]_vars

\* Until a collection misses a value in use, everything any green thread can get
\* at through its locals and registers is allocated.
InUseLive == ~exposed => Reach(InUse) \subseteq Live

\* Marking ends on every object graph: each turn marks more objects, or marks
\* none and shortens the worklist (the already-marked test of gc_mark).
MarkProgress ==
  [][gc = "mark" /\ gc' = "mark" =>
       LET marked == {a \in Addrs : mark[a]}
           next == {a \in Addrs : mark'[a]}
       IN \/ marked \subseteq next /\ marked # next
          \/ marked = next /\ worklist' \subseteq worklist /\ worklist' # worklist]_vars

\* No data block holds more elements than it has room for (the growth test of
\* aster_list_push).
BlockNotOverrun == \A a \in Live : kind[a] = "block" => Len(elems[a]) <= cap[a]

\* green-threads.mdx: saving and restoring the shadow stack "ensures GC works
\* correctly across green threads", so what a suspended thread has in a root
\* slot is not freed.
LocalsLive == \A f \in Fibers : Roots(f) \subseteq Live

\* codegen.mdx: helpers "that build multi-object graphs while holding
\* intermediate pointers only in Rust locals" pause the collector, so a list
\* handle never points to a freed block.
BlocksLive == \A a \in Live : BlockOf(a) \subseteq Live
=============================================================================
