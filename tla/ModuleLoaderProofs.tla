------------------------- MODULE ModuleLoaderProofs -------------------------
(***************************************************************************)
(* The loader accepts exactly the programs it should: it rejects one with  *)
(* a missing or unreadable file, a circle of imports, or a name that is not *)
(* visible where it is used, and no other. It never enters a module it is  *)
(* in the middle of and caches the exports of a module once and for all.   *)
(* All this for every set of files, whatever the lowering of a body does.  *)
(*                                                                         *)
(* Of the code that is put together: where no two files have an item of    *)
(* the same name (NamesApart), merging tables keeps what numbers stand for *)
(* and takes nothing twice, so if the lowering of each file does its part  *)
(* (LoweringAdds), that holds for the program, and nothing of the files it *)
(* needs is left out.                                                      *)
(***************************************************************************)
EXTENDS LinkedProgram, FiniteSetTheorems, SequenceTheorems, WellFoundedInduction, TLAPS

\* Files that can all be read, import each other only and have an order in which
\* they can be loaded: in any selection of them one imports none of the others.
Grounded(ps) ==
  /\ \A p \in ps : Readable(program, p) /\ Targets(program, p) \subseteq ps
  /\ \A some \in SUBSET ps : some # {} => \E p \in some : Targets(program, p) \cap some = {}

\* A program that is not rejected needs only such files, the main file among them.
AcceptsGrounded ==
  result \in {"linked", "unlowered"} => \E ps \in SUBSET DOMAIN program : Main \in ps /\ Grounded(ps)

\* Once a module has exports, nothing that is loaded later changes them.
ExportsKept == [][\A p \in DOMAIN cache : p \in DOMAIN cache' /\ cache'[p] = cache[p]]_vars

\* An import is refused only in a program that does not consist of such files.
RefusesOnlyBroken ==
  [][\A path \in Paths(program) :
       UseFails(path) => ~\E ps \in SUBSET DOMAIN program : Main \in ps /\ Grounded(ps)]_vars

-----------------------------------------------------------------------------
(* The invariant *)

\* A checker works on the body of a file that could be read ...
IsChecker(c) ==
  /\ DOMAIN c = {"path", "body", "next", "failed", "scope"}
  /\ Readable(program, c.path) /\ c.body = program[c.path].body
  /\ c.next \in 1..(Len(c.body) + 1) /\ c.failed \in BOOLEAN

\* ... and, unless it has failed, whatever it imported so far has been loaded.
ImportsLoaded(c, loaded) ==
  ~c.failed => \A i \in 1..(c.next - 1) : c.body[i].k = "use" => c.body[i].path \in loaded

\* It stands at the import of the module that is checked above it.
WaitsFor(c, path) ==
  c.next <= Len(c.body) /\ c.body[c.next].k = "use" /\ c.body[c.next].path = path

StackInv ==
  /\ stack \in Seq(Range(stack))
  /\ stack # <<>> => stack[1].path = Main
  /\ \A i \in 1..Len(stack) : IsChecker(stack[i]) /\ ImportsLoaded(stack[i], DOMAIN cache)
  /\ \A i \in 1..(Len(stack) - 1) : WaitsFor(stack[i], stack[i + 1].path)

LoaderInv ==
  /\ program \in Programs
  /\ StackInv
  /\ NoReentry
  /\ in_progress \cap DOMAIN cache = {}
  /\ Grounded(DOMAIN cache)
  /\ result \in {"linked", "unlowered"} => Targets(program, Main) \subseteq DOMAIN cache

\* Nothing is loaded but what the main file needs.
NeededOnly ==
  \A ps \in SUBSET DOMAIN program :
    Main \in ps /\ Grounded(ps) => \A i \in 1..Len(stack) : stack[i].path \in ps

-----------------------------------------------------------------------------
(* The stack *)

LEMMA FunctionIsSeq ==
  ASSUME NEW S, NEW n \in Nat, NEW f \in [1..n -> S]
  PROVE  f \in Seq(S) /\ Len(f) = n
OBVIOUS

LEMMA SeqIsFunction ==
  ASSUME NEW S, NEW s \in Seq(S), NEW n, n = Len(s)
  PROVE  n \in Nat /\ s \in [1..n -> S]
OBVIOUS

\* A function on an initial segment is a sequence of what it maps to.
LEMMA SegmentIsSeq ==
  ASSUME NEW T, NEW n \in Nat, NEW f \in [1..n -> T]
  PROVE  f \in Seq(Range(f)) /\ Len(f) = n
<1>1. f \in [1..n -> Range(f)]
  BY DEF Range
<1> QED BY <1>1, FunctionIsSeq

LEMMA Replaced ==
  ASSUME NEW s, s \in Seq(Range(s)), s # <<>>, NEW c
  PROVE  LET t == [s EXCEPT ![Len(s)] = c]
         IN /\ t \in Seq(Range(t)) /\ Len(t) = Len(s) /\ t[Len(s)] = c
            /\ \A i \in 1..(Len(s) - 1) : t[i] = s[i]
<1> DEFINE n == Len(s)
           T == Range(s) \cup {c}
           t == [s EXCEPT ![Len(s)] = c]
<1>1. n \in Nat \ {0} /\ s \in [1..n -> Range(s)]
  OBVIOUS
<1>2. t \in [1..n -> T] /\ t[n] = c /\ \A i \in 1..(n - 1) : t[i] = s[i]
  BY <1>1
<1> HIDE DEF n, t, T
<1>3. t \in Seq(Range(t)) /\ Len(t) = n
  BY <1>1, <1>2, SegmentIsSeq
<1> QED BY <1>2, <1>3 DEF n, t

LEMMA Pushed ==
  ASSUME NEW s, s \in Seq(Range(s)), NEW c
  PROVE  LET t == Append(s, c)
         IN /\ t \in Seq(Range(t)) /\ Len(t) = Len(s) + 1 /\ t[Len(s) + 1] = c
            /\ \A i \in 1..Len(s) : t[i] = s[i]
<1> DEFINE n == Len(s)
           T == Range(s) \cup {c}
           t == Append(s, c)
<1>1. n \in Nat /\ s \in [1..n -> T] /\ c \in T
  OBVIOUS
<1>2. s \in Seq(T)
  BY <1>1, FunctionIsSeq
<1> HIDE DEF T
<1>3. t \in Seq(T) /\ Len(t) = n + 1 /\ t[n + 1] = c /\ \A i \in 1..n : t[i] = s[i]
  BY <1>1, <1>2
<1> HIDE DEF n, t
<1>4. n + 1 \in Nat /\ t \in [1..(n + 1) -> T]
  BY <1>3, SeqIsFunction
<1>5. t \in Seq(Range(t))
  BY <1>4, SegmentIsSeq
<1> QED BY <1>3, <1>5 DEF n, t

LEMMA Popped ==
  ASSUME NEW s, s \in Seq(Range(s)), Len(s) > 1, NEW c
  PROVE  LET t == [SubSeq(s, 1, Len(s) - 1) EXCEPT ![Len(s) - 1] = c]
         IN /\ t \in Seq(Range(t)) /\ Len(t) = Len(s) - 1 /\ t[Len(s) - 1] = c
            /\ \A i \in 1..(Len(s) - 2) : t[i] = s[i]
<1>0. Len(s) \in Nat /\ Len(s) - 1 \in Nat \ {0} /\ Len(s) - 2 = (Len(s) - 1) - 1
  <2>1. PICK m \in Nat : m = Len(s)
    OBVIOUS
  <2>2. m > 1
    BY <2>1
  <2> HIDE <2>1
  <2>3. m - 1 \in Nat \ {0} /\ m - 2 = (m - 1) - 1
    BY <2>2
  <2> QED BY <2>1, <2>3
<1> DEFINE n == Len(s) - 1
           T == Range(s)
           U == T \cup {c}
           r == SubSeq(s, 1, n)
           t == [r EXCEPT ![n] = c]
<1>1. n \in Nat \ {0} /\ Len(s) - 1 = n /\ Len(s) - 2 = n - 1
  BY <1>0
<1>2. s \in Seq(T) /\ \A i \in 1..n : i \in 1..Len(s)
  BY <1>1
<1>3. r \in Seq(T) /\ Len(r) = n
  BY <1>1, <1>2
<1>4. \A i \in 1..n : r[i] = s[i]
  BY <1>1, <1>2
<1> HIDE DEF n, r, T
<1>5. r \in [1..n -> T]
  BY <1>3, SeqIsFunction
<1>6. t \in [1..n -> U] /\ t[n] = c /\ \A i \in 1..(n - 1) : t[i] = s[i]
  BY <1>1, <1>4, <1>5
<1> HIDE DEF t, U
<1>7. t \in Seq(Range(t)) /\ Len(t) = n
  BY <1>1, <1>6, SegmentIsSeq
<1> QED BY <1>1, <1>6, <1>7 DEF t, r, n

-----------------------------------------------------------------------------
(* Steps of the checker on top *)

LEMMA TopIs ==
  ASSUME StackInv, stack # <<>>
  PROVE  /\ Len(stack) \in Nat \ {0} /\ top = stack[Len(stack)]
         /\ IsChecker(top) /\ ImportsLoaded(top, DOMAIN cache)
  BY DEF StackInv, top

\* A file that is done imports only what is in the cache, unless it has errors.
LEMMA FinishedTargets ==
  ASSUME LoaderInv, Finished, ~top.failed
  PROVE  Targets(program, top.path) \subseteq DOMAIN cache
<1>1. IsChecker(top) /\ ImportsLoaded(top, DOMAIN cache) /\ top.next > Len(top.body)
  BY TopIs DEF LoaderInv, Finished
<1>2. Readable(program, top.path) /\ top.body = program[top.path].body
  BY <1>1 DEF IsChecker
<1>3. top.body \in Seq(Range(top.body))
  BY <1>2, ProgramsReadable DEF LoaderInv, Readable
<1>4. \A i \in 1..Len(top.body) : top.body[i].k = "use" => top.body[i].path \in DOMAIN cache
  BY <1>1, <1>3 DEF ImportsLoaded, IsChecker
<1>5. DOMAIN top.body = 1..Len(top.body)
  BY <1>3
<1> QED BY <1>2, <1>4, <1>5 DEF Targets, Range

LEMMA ImportApplied ==
  ASSUME program \in Programs, NEW c, IsChecker(c), c.next <= Len(c.body), NEW d,
         d = Failed(c) \/ \E exports : d = apply_imports(c, exports)
  PROVE  /\ IsChecker(d) /\ d.path = c.path /\ d.body = c.body /\ d.next = c.next + 1
         /\ ~d.failed => ~c.failed /\ d # Failed(c)
<1>1. c.next \in Nat /\ c.failed \in BOOLEAN /\ Len(c.body) \in Nat
  BY ProgramsReadable DEF IsChecker, Readable
<1>2. CASE d = Failed(c)
  BY <1>1, <1>2 DEF Failed, IsChecker
<1>4. Failed(c).failed
  BY DEF Failed, IsChecker
<1>3. ASSUME NEW exports, d = apply_imports(c, exports)
      PROVE  /\ IsChecker(d) /\ d.path = c.path /\ d.body = c.body /\ d.next = c.next + 1
             /\ ~d.failed => ~c.failed
  <2>1. \E taken : \E bad \in BOOLEAN :
          d = [c EXCEPT !.next = @ + 1, !.scope = taken, !.failed = @ \/ bad]
    BY <1>3 DEF apply_imports
  <2>2. PICK taken, bad : bad \in BOOLEAN /\ d = [c EXCEPT !.next = @ + 1, !.scope = taken, !.failed = @ \/ bad]
    BY <2>1
  <2> QED BY <1>1, <2>2 DEF IsChecker
<1> QED BY <1>2, <1>3, <1>4

\* The checker on top gets past a statement.
LEMMA Advances ==
  ASSUME LoaderInv, stack # <<>>, top.next <= Len(top.body), NEW d,
         IsChecker(d), d.path = top.path, d.body = top.body, d.next = top.next + 1,
         ~d.failed => ~top.failed /\ (top.body[top.next].k = "use" => top.body[top.next].path \in DOMAIN cache),
         stack' = WithTop(d), UNCHANGED <<program, cache, in_progress, result>>
  PROVE  LoaderInv'
<1> DEFINE n == Len(stack)
<1>1. /\ stack' \in Seq(Range(stack')) /\ Len(stack') = n /\ stack'[n] = d
      /\ \A i \in 1..(n - 1) : stack'[i] = stack[i]
  <2>1. stack \in Seq(Range(stack))
    BY DEF LoaderInv, StackInv
  <2>2. stack' = [stack EXCEPT ![Len(stack)] = d]
    BY DEF WithTop
  <2>3. LET t == [stack EXCEPT ![Len(stack)] = d]
        IN /\ t \in Seq(Range(t)) /\ Len(t) = Len(stack) /\ t[Len(stack)] = d
           /\ \A i \in 1..(Len(stack) - 1) : t[i] = stack[i]
    BY <2>1, Replaced
  <2> QED BY <2>2, <2>3
<1>2. n \in Nat \ {0} /\ top = stack[n] /\ IsChecker(top) /\ ImportsLoaded(top, DOMAIN cache)
  BY TopIs DEF LoaderInv
<1> HIDE DEF n
<1>3. ImportsLoaded(d, DOMAIN cache)
  <2>1. SUFFICES ASSUME ~d.failed, NEW i \in 1..(d.next - 1), d.body[i].k = "use"
                 PROVE  d.body[i].path \in DOMAIN cache
    BY DEF ImportsLoaded
  <2>2. PICK k \in Int : k = top.next
    BY <1>2 DEF IsChecker
  <2>3. PICK j \in Int : j = i /\ 1 <= j /\ j <= k
    BY <2>1, <2>2
  <2>4. d.body = top.body /\ ~top.failed /\ (top.body[top.next].k = "use" => top.body[top.next].path \in DOMAIN cache)
    BY <2>1
  <2>5. CASE j = k
    BY <2>1, <2>2, <2>3, <2>4, <2>5
  <2>6. CASE j # k
    <3>1. j \in 1..(top.next - 1)
      BY ONLY <2>2, <2>3, <2>6
    <3> QED BY <1>2, <2>1, <2>3, <2>4, <3>1 DEF ImportsLoaded
  <2> QED BY <2>5, <2>6
<1>4. \A i \in 1..n : stack'[i].path = stack[i].path
  BY <1>1, <1>2
<1>5. StackInv'
  <2>1. stack' # <<>> /\ stack'[1].path = Main
    BY <1>1, <1>2, <1>4 DEF LoaderInv, StackInv
  <2>2. \A i \in 1..n : IsChecker(stack'[i]) /\ ImportsLoaded(stack'[i], DOMAIN cache)
    BY <1>1, <1>2, <1>3 DEF LoaderInv, StackInv, n
  <2>3. \A i \in 1..(n - 1) : WaitsFor(stack'[i], stack'[i + 1].path)
    BY <1>1, <1>2, <1>4 DEF LoaderInv, StackInv, n
  <2> QED BY <1>1, <2>1, <2>2, <2>3 DEF StackInv, IsChecker, ImportsLoaded
<1>6. NoReentry'
  BY <1>1, <1>2, <1>4 DEF LoaderInv, NoReentry, n
<1> QED BY <1>5, <1>6 DEF LoaderInv, Grounded

LEMMA UseStep ==
  ASSUME LoaderInv, NEW path, UseCached(path) \/ UseFails(path) PROVE LoaderInv'
<1>1. AtUse(path) /\ stack # <<>> /\ top.next <= Len(top.body) /\ top.body[top.next].path = path
  BY DEF UseCached, UseFails, AtUse
<1>2. IsChecker(top) /\ program \in Programs
  BY <1>1, TopIs DEF LoaderInv
<1>3. CASE UseCached(path)
  <2>1. path \in DOMAIN cache /\ UNCHANGED <<program, cache, in_progress, result>>
    BY <1>3 DEF UseCached
  <2>2. PICK d : d = apply_imports(top, cache[path])
    OBVIOUS
  <2>3. stack' = WithTop(d)
    BY <1>3, <2>2 DEF UseCached
  <2>4. /\ IsChecker(d) /\ d.path = top.path /\ d.body = top.body /\ d.next = top.next + 1
        /\ ~d.failed => ~top.failed
    BY <1>1, <1>2, <2>2, ImportApplied
  <2> QED BY <1>1, <2>1, <2>3, <2>4, Advances
<1>4. CASE UseFails(path)
  <2>1. UNCHANGED <<program, cache, in_progress, result>>
    BY <1>4 DEF UseFails
  <2>2. PICK d : d = Failed(top)
    OBVIOUS
  <2>3. stack' = WithTop(d)
    BY <1>4, <2>2 DEF UseFails
  <2>4. /\ IsChecker(d) /\ d.path = top.path /\ d.body = top.body /\ d.next = top.next + 1
        /\ d.failed
    BY <1>1, <1>2, <2>2, ImportApplied
  <2> QED BY <1>1, <2>1, <2>3, <2>4, Advances
<1> QED BY <1>3, <1>4

LEMMA StatementStep == ASSUME LoaderInv, CheckStatement PROVE LoaderInv'
<1>1. /\ stack # <<>> /\ top.next <= Len(top.body) /\ top.body[top.next].k # "use"
      /\ UNCHANGED <<program, cache, in_progress, result>>
  BY DEF CheckStatement
<1>2. IsChecker(top) /\ program \in Programs
  BY <1>1, TopIs DEF LoaderInv
<1>3. \E scope : \E bad \in BOOLEAN :
        stack' = WithTop([top EXCEPT !.next = @ + 1, !.scope = scope, !.failed = @ \/ bad])
  BY DEF CheckStatement
<1>4. PICK scope, bad : /\ bad \in BOOLEAN
                        /\ stack' = WithTop([top EXCEPT !.next = @ + 1, !.scope = scope, !.failed = @ \/ bad])
  BY <1>3
<1>5. PICK c : c = top
  OBVIOUS
<1>6. PICK d : d = [c EXCEPT !.next = @ + 1, !.scope = scope, !.failed = @ \/ bad]
  OBVIOUS
<1>7. Len(c.body) \in Nat /\ c.next \in Nat /\ c.failed \in BOOLEAN
  BY <1>2, <1>5, ProgramsReadable DEF IsChecker, Readable
<1>8. IsChecker(d) /\ d.path = c.path /\ d.body = c.body /\ d.next = c.next + 1 /\ (~d.failed => ~c.failed)
  BY <1>1, <1>2, <1>4, <1>5, <1>6, <1>7 DEF IsChecker
<1>9. stack' = WithTop(d)
  BY <1>4, <1>5, <1>6
<1> QED BY <1>1, <1>5, <1>8, <1>9, Advances

-----------------------------------------------------------------------------
(* A module is entered and left *)

LEMMA LoadStep == ASSUME LoaderInv, NEW path, UseLoads(path) PROVE LoaderInv'
<1> DEFINE n == Len(stack)
           d == Checker(path, program[path].body)
<1>1. /\ path \notin DOMAIN cache /\ path \notin in_progress /\ Readable(program, path)
      /\ in_progress' = in_progress \cup {path} /\ stack' = Append(stack, d)
      /\ UNCHANGED <<program, cache, result>>
  BY DEF UseLoads, Circular
<1>2. stack # <<>> /\ WaitsFor(top, path)
  BY DEF UseLoads, AtUse, WaitsFor
<1>3. n \in Nat \ {0} /\ top = stack[n]
  BY <1>2, TopIs DEF LoaderInv
<1>4. IsChecker(d) /\ ImportsLoaded(d, DOMAIN cache) /\ d.path = path
  <2>1. Len(program[path].body) \in Nat
    BY <1>1, ProgramsReadable DEF LoaderInv, Readable
  <2> QED BY <1>1, <2>1 DEF Checker, IsChecker, ImportsLoaded
<1> HIDE DEF d
<1>5. /\ stack' \in Seq(Range(stack')) /\ Len(stack') = n + 1 /\ stack'[n + 1] = d
      /\ \A i \in 1..n : stack'[i] = stack[i]
  <2>1. stack \in Seq(Range(stack))
    BY DEF LoaderInv, StackInv
  <2>2. LET t == Append(stack, d)
        IN /\ t \in Seq(Range(t)) /\ Len(t) = Len(stack) + 1 /\ t[Len(stack) + 1] = d
           /\ \A i \in 1..Len(stack) : t[i] = stack[i]
    BY <2>1, Pushed
  <2> QED BY <1>1, <2>2
<1>6. /\ \A i \in 1..n : IsChecker(stack[i]) /\ ImportsLoaded(stack[i], DOMAIN cache)
      /\ \A i \in 1..(n - 1) : WaitsFor(stack[i], stack[i + 1].path)
      /\ stack[1].path = Main
      /\ \A i, j \in 2..n : i # j => stack[i].path # stack[j].path
      /\ in_progress = {stack[i].path : i \in 2..n}
  BY <1>2 DEF LoaderInv, StackInv, NoReentry
<1> HIDE DEF n
<1>7. \A i \in 1..(n + 1) : i \in 1..n \/ i = n + 1
  BY <1>3
<1>8. StackInv'
  <2>1. \A i \in 1..(n + 1) : IsChecker(stack'[i]) /\ ImportsLoaded(stack'[i], DOMAIN cache)
    BY <1>4, <1>5, <1>6, <1>7
  <2>2. \A i \in 1..n : WaitsFor(stack'[i], stack'[i + 1].path)
    <3> SUFFICES ASSUME NEW i \in 1..n PROVE WaitsFor(stack'[i], stack'[i + 1].path)
      OBVIOUS
    <3>1. CASE i = n
      BY <1>2, <1>3, <1>4, <1>5, <3>1
    <3>2. CASE i \in 1..(n - 1)
      <4>1. i + 1 \in 1..n
        BY <1>3, <3>2
      <4> QED BY <1>5, <1>6, <3>2, <4>1
    <3> QED BY <1>3, <3>1, <3>2
  <2>3. stack' # <<>> /\ stack'[1].path = Main
    BY <1>3, <1>5, <1>6
  <2>4. Len(stack') - 1 = n
    BY <1>3, <1>5
  <2> QED BY <1>1, <1>5, <2>1, <2>2, <2>3, <2>4, ZenonT(30) DEF StackInv, IsChecker, ImportsLoaded, Readable
<1>9. NoReentry'
  <2>1. \A i \in 2..(n + 1) : i \in 2..n \/ i = n + 1
    BY <1>3
  <2>2. \A i \in 2..n : stack'[i] = stack[i] /\ stack[i].path # path
    BY <1>1, <1>3, <1>5, <1>6
  <2>3. \A i, j \in 2..(n + 1) : i # j => stack'[i].path # stack'[j].path
    BY <1>4, <1>5, <1>6, <2>1, <2>2
  <2>4. n + 1 \in 2..(n + 1) /\ \A i \in 2..n : i \in 2..(n + 1)
    BY <1>3
  <2>5. in_progress' = {stack'[i].path : i \in 2..(n + 1)}
    BY <1>1, <1>4, <1>5, <1>6, <2>1, <2>2, <2>4
  <2> QED BY <1>5, <2>3, <2>5 DEF NoReentry
<1> QED BY <1>1, <1>8, <1>9 DEF LoaderInv, Grounded

\* The importer goes on after a module that is done, with or without success.
LEMMA LeaveStep ==
  ASSUME LoaderInv, Finished, Len(stack) > 1, NEW d, IsChecker(d),
         d.path = stack[Len(stack) - 1].path, d.body = stack[Len(stack) - 1].body,
         d.next = stack[Len(stack) - 1].next + 1,
         ~d.failed => ~stack[Len(stack) - 1].failed /\ top.path \in DOMAIN cache',
         stack' = Importer(d), in_progress' = in_progress \ {top.path}, UNCHANGED program,
         DOMAIN cache \subseteq DOMAIN cache', DOMAIN cache' \subseteq DOMAIN cache \cup {top.path}
  PROVE  StackInv' /\ NoReentry' /\ in_progress' \cap DOMAIN cache' = {}
<1> DEFINE n == Len(stack)
           c == stack[n - 1]
<1>1. n \in Nat /\ n > 1 /\ n - 1 \in 1..n /\ top = stack[n]
  BY TopIs DEF LoaderInv, Finished
<1>2. /\ stack' \in Seq(Range(stack')) /\ Len(stack') = n - 1 /\ stack'[n - 1] = d
      /\ \A i \in 1..(n - 2) : stack'[i] = stack[i]
  <2>1. stack \in Seq(Range(stack)) /\ Len(stack) > 1
    BY DEF LoaderInv, StackInv
  <2>2. LET t == [SubSeq(stack, 1, Len(stack) - 1) EXCEPT ![Len(stack) - 1] = d]
        IN /\ t \in Seq(Range(t)) /\ Len(t) = Len(stack) - 1 /\ t[Len(stack) - 1] = d
           /\ \A i \in 1..(Len(stack) - 2) : t[i] = stack[i]
    BY <2>1, Popped, SMTT(20)
  <2> QED BY <2>2 DEF Importer
<1>3. /\ \A i \in 1..n : IsChecker(stack[i]) /\ ImportsLoaded(stack[i], DOMAIN cache)
      /\ \A i \in 1..(n - 1) : WaitsFor(stack[i], stack[i + 1].path)
      /\ stack[1].path = Main
      /\ \A i, j \in 2..n : i # j => stack[i].path # stack[j].path
      /\ in_progress = {stack[i].path : i \in 2..n}
  BY <1>1 DEF LoaderInv, StackInv, NoReentry
<1>4. d.path = c.path /\ d.body = c.body /\ d.next = c.next + 1 /\ (~d.failed => ~c.failed /\ top.path \in DOMAIN cache')
  OBVIOUS
<1> HIDE DEF n, c
<1>5. c = stack[n - 1] /\ ImportsLoaded(c, DOMAIN cache) /\ IsChecker(c) /\ WaitsFor(c, top.path)
  <2>1. n - 1 \in 1..(n - 1) /\ (n - 1) + 1 = n
    BY <1>1
  <2> QED BY <1>1, <1>3, <2>1 DEF c
<1>6. \A i \in 1..(n - 1) : i \in 1..(n - 2) \/ i = n - 1
  BY <1>1
<1>7. \A i \in 1..(n - 1) : stack'[i].path = stack[i].path
  BY <1>2, <1>4, <1>5, <1>6
<1>8. StackInv'
  <2>1. ASSUME NEW i \in 1..(n - 1) PROVE IsChecker(stack'[i]) /\ ImportsLoaded(stack'[i], DOMAIN cache')
    <3>1. CASE i = n - 1
      <4>1. \A j \in 1..(d.next - 1) : j \in 1..(c.next - 1) \/ j = c.next
        BY <1>4, <1>5 DEF IsChecker
      <4>2. ImportsLoaded(d, DOMAIN cache')
        BY <1>4, <1>5, <4>1 DEF ImportsLoaded, WaitsFor
      <4> QED BY <1>2, <3>1, <4>2 DEF ImportsLoaded
    <3>2. CASE i \in 1..(n - 2)
      <4>1. stack'[i] = stack[i] /\ i \in 1..n
        BY <1>1, <1>2, <3>2
      <4> QED BY <1>3, <4>1 DEF ImportsLoaded
    <3> QED BY <1>6, <3>1, <3>2
  <2>2. ASSUME NEW i \in 1..(n - 2) PROVE WaitsFor(stack'[i], stack'[i + 1].path)
    <3>1. stack'[i] = stack[i] /\ i + 1 \in 1..(n - 1) /\ i \in 1..(n - 1)
      BY <1>1, <1>2
    <3> QED BY <1>3, <1>7, <3>1
  <2>3. stack' # <<>> /\ stack'[1].path = Main
    <3>1. 1 \in 1..(n - 1)
      BY <1>1
    <3> QED BY <1>1, <1>2, <1>3, <1>7, <3>1
  <2>4. Len(stack') - 1 = n - 2
    BY <1>1, <1>2
  <2> QED BY <1>2, <2>1, <2>2, <2>3, <2>4 DEF StackInv, IsChecker, ImportsLoaded
<1>9. NoReentry'
  <2>1. \A i \in 2..n : i \in 2..(n - 1) \/ i = n
    BY <1>1
  <2>2. n \in 2..n /\ \A i \in 2..(n - 1) : i \in 2..n /\ i # n /\ i \in 1..(n - 1)
    BY <1>1
  <2>3. \A i \in 2..(n - 1) : stack'[i].path = stack[i].path /\ stack[i].path # top.path
    BY <1>1, <1>3, <1>7, <2>2
  <2>4. in_progress' = {stack'[i].path : i \in 2..(n - 1)}
    <3>1. \A i \in 2..n : stack[i].path # top.path => i \in 2..(n - 1)
      BY <1>1, <2>1
    <3>2. in_progress' = {stack[i].path : i \in 2..n} \ {top.path}
      BY <1>3
    <3>3. ASSUME NEW p \in in_progress' PROVE p \in {stack'[i].path : i \in 2..(n - 1)}
      <4>1. PICK i \in 2..n : p = stack[i].path /\ p # top.path
        BY <3>2, <3>3
      <4> QED BY <2>3, <3>1, <4>1
    <3>4. ASSUME NEW i \in 2..(n - 1) PROVE stack'[i].path \in in_progress'
      BY <2>2, <2>3, <3>2
    <3> QED BY <3>3, <3>4
  <2>5. \A i, j \in 2..(n - 1) : i # j => stack'[i].path # stack'[j].path
    BY <1>3, <2>2, <2>3
  <2> QED BY <1>2, <2>4, <2>5 DEF NoReentry
<1> QED BY <1>8, <1>9 DEF LoaderInv

\* Below the top stands the importer, at its import.
LEMMA Importing ==
  ASSUME LoaderInv, Finished, Len(stack) > 1, NEW c, c = stack[Len(stack) - 1]
  PROVE  program \in Programs /\ IsChecker(c) /\ c.next <= Len(c.body)
<1>1. Len(stack) \in Nat /\ Len(stack) - 1 \in 1..Len(stack) /\ Len(stack) - 1 \in 1..(Len(stack) - 1)
  BY TopIs DEF LoaderInv, Finished
<1> QED BY <1>1 DEF LoaderInv, StackInv, WaitsFor

LEMMA TopInProgress ==
  ASSUME LoaderInv, Finished, Len(stack) > 1
  PROVE  top.path \in in_progress
<1>1. Len(stack) \in 2..Len(stack) /\ top = stack[Len(stack)]
  BY TopIs DEF LoaderInv, Finished
<1> QED BY <1>1 DEF LoaderInv, NoReentry

LEMMA LoadFailsStep == ASSUME LoaderInv, LoadFails PROVE LoaderInv'
<1>1. /\ Finished /\ Len(stack) > 1 /\ in_progress' = in_progress \ {top.path}
      /\ UNCHANGED <<program, cache, result>>
  BY DEF LoadFails
<1>2. PICK c : c = stack[Len(stack) - 1]
  OBVIOUS
<1>3. PICK d : d = Failed(c)
  OBVIOUS
<1>4. stack' = Importer(d)
  BY <1>2, <1>3 DEF LoadFails
<1>5. program \in Programs /\ IsChecker(c) /\ c.next <= Len(c.body)
  BY <1>1, <1>2, Importing
<1>6. IsChecker(d) /\ d.path = c.path /\ d.body = c.body /\ d.next = c.next + 1 /\ d.failed
  BY <1>3, <1>5, ImportApplied
<1>7. StackInv' /\ NoReentry' /\ in_progress' \cap DOMAIN cache' = {}
  BY <1>1, <1>2, <1>4, <1>6, LeaveStep
<1> QED BY <1>1, <1>7 DEF LoaderInv, Grounded

\* A file that imports only grounded ones is grounded with them.
LEMMA GroundedGrows ==
  ASSUME NEW ps, Grounded(ps), NEW p, p \notin ps, Readable(program, p), Targets(program, p) \subseteq ps
  PROVE  Grounded(ps \cup {p})
<1>1. ASSUME NEW some \in SUBSET (ps \cup {p}), some # {}
      PROVE  \E q \in some : Targets(program, q) \cap some = {}
  <2>1. CASE some \cap ps = {}
    <3>1. some = {p}
      BY <1>1, <2>1
    <3> QED BY <2>1, <3>1
  <2>2. CASE some \cap ps # {}
    <3>1. PICK q \in some \cap ps : Targets(program, q) \cap (some \cap ps) = {}
      BY <2>2 DEF Grounded
    <3>2. Targets(program, q) \subseteq ps
      BY <3>1 DEF Grounded
    <3> QED BY <3>1, <3>2
  <2> QED BY <2>1, <2>2
<1> QED BY <1>1 DEF Grounded

LEMMA LoadEndsStep == ASSUME LoaderInv, LoadEnds PROVE LoaderInv'
<1>1. /\ Finished /\ Len(stack) > 1 /\ ~top.failed /\ in_progress' = in_progress \ {top.path}
      /\ UNCHANGED <<program, result>>
  BY DEF LoadEnds
<1>2. PICK exports : /\ cache' = [p \in DOMAIN cache \cup {top.path} |-> IF p = top.path THEN exports ELSE cache[p]]
                     /\ stack' = Importer(apply_imports(stack[Len(stack) - 1], exports))
  BY DEF LoadEnds
<1>3. PICK c : c = stack[Len(stack) - 1]
  OBVIOUS
<1>4. PICK d : d = apply_imports(c, exports)
  OBVIOUS
<1>5. program \in Programs /\ IsChecker(c) /\ c.next <= Len(c.body)
  BY <1>1, <1>3, Importing
<1>6. /\ IsChecker(d) /\ d.path = c.path /\ d.body = c.body /\ d.next = c.next + 1
      /\ ~d.failed => ~c.failed
  BY <1>4, <1>5, ImportApplied
<1>7. DOMAIN cache' = DOMAIN cache \cup {top.path}
  BY <1>2
<1>8. StackInv' /\ NoReentry' /\ in_progress' \cap DOMAIN cache' = {}
  BY <1>1, <1>2, <1>3, <1>4, <1>6, <1>7, LeaveStep
<1>9. Grounded(DOMAIN cache \cup {top.path})
  <2>1. Targets(program, top.path) \subseteq DOMAIN cache
    BY <1>1, FinishedTargets
  <2>2. top.path \notin DOMAIN cache
    BY <1>1, TopInProgress DEF LoaderInv
  <2>3. Readable(program, top.path)
    BY <1>1, TopIs DEF LoaderInv, Finished, IsChecker
  <2> QED BY <2>1, <2>2, <2>3, GroundedGrows DEF LoaderInv
<1> QED BY <1>1, <1>7, <1>8, <1>9 DEF LoaderInv, Grounded

-----------------------------------------------------------------------------
(* The main file is done *)

LEMMA EndStep == ASSUME LoaderInv, Reject \/ Link PROVE LoaderInv'
<1>1. Finished /\ Len(stack) = 1 /\ stack' = <<>> /\ UNCHANGED <<program, cache, in_progress>>
  BY DEF Reject, Link
<1>2. StackInv'
  BY <1>1 DEF StackInv
<1>3. NoReentry'
  BY <1>1 DEF LoaderInv, NoReentry
<1>4. (result \in {"linked", "unlowered"})' => Targets(program, Main) \subseteq DOMAIN cache
  <2>1. CASE Reject
    BY <2>1 DEF Reject
  <2>2. CASE Link
    <3>1. ~top.failed /\ top.path = Main
      <4>1. top = stack[1] /\ stack # <<>>
        BY <1>1 DEF top, Finished
      <4>2. stack[1].path = Main
        BY <4>1 DEF LoaderInv, StackInv
      <4> QED BY <2>2, <4>1, <4>2 DEF Link
    <3> QED BY <1>1, <3>1, FinishedTargets
  <2> QED BY <2>1, <2>2
<1> QED BY <1>1, <1>2, <1>3, <1>4 DEF LoaderInv, Grounded

LEMMA LoaderInvariant == Spec => []LoaderInv
<1>1. Init => LoaderInv
  <2> SUFFICES ASSUME Init PROVE LoaderInv
    OBVIOUS
  <2>1. PICK c : c = Checker(Main, program[Main].body)
    OBVIOUS
  <2>2. /\ program \in Programs /\ stack = <<c>> /\ DOMAIN cache = {} /\ in_progress = {}
        /\ result = "pending"
    BY <2>1 DEF Init
  <2>3. Readable(program, Main) /\ Len(program[Main].body) \in Nat
    BY <2>2, ProgramsReadable DEF Readable
  <2>4. IsChecker(c) /\ ImportsLoaded(c, DOMAIN cache) /\ c.path = Main
    BY <2>1, <2>3 DEF Checker, IsChecker, ImportsLoaded
  <2>5. StackInv
    BY <2>2, <2>4 DEF StackInv, Range
  <2> QED BY <2>2, <2>5 DEF LoaderInv, NoReentry, Grounded
<1>2. LoaderInv /\ [Next]_vars => LoaderInv'
  <2> SUFFICES ASSUME LoaderInv, [Next]_vars PROVE LoaderInv'
    OBVIOUS
  <2>1. ASSUME NEW path \in Paths(program), UseCached(path) \/ UseFails(path) \/ UseLoads(path)
        PROVE  LoaderInv'
    BY <2>1, UseStep, LoadStep
  <2>2. CASE CheckStatement
    BY <2>2, StatementStep
  <2>3. CASE LoadFails
    BY <2>3, LoadFailsStep
  <2>4. CASE LoadEnds
    BY <2>4, LoadEndsStep
  <2>5. CASE Reject \/ Link
    BY <2>5, EndStep
  <2>6. CASE UNCHANGED vars
    BY <2>6 DEF vars, LoaderInv, StackInv, IsChecker, ImportsLoaded, WaitsFor, NoReentry, Grounded
  <2> QED BY <2>1, <2>2, <2>3, <2>4, <2>5, <2>6 DEF Next
<1> QED BY <1>1, <1>2, PTL DEF Spec

-----------------------------------------------------------------------------
(* What is loaded is needed *)

\* The stack has no files that it did not have.
Shorter == \A i \in 1..Len(stack') : i \in 1..Len(stack) /\ stack'[i].path = stack[i].path

LEMMA TopShorter ==
  ASSUME LoaderInv, stack # <<>>, NEW d, d.path = top.path, stack' = WithTop(d)
  PROVE  Shorter
<1>1. stack \in Seq(Range(stack)) /\ Len(stack) \in Nat \ {0} /\ top = stack[Len(stack)]
  BY TopIs DEF LoaderInv, StackInv
<1>2. LET t == [stack EXCEPT ![Len(stack)] = d]
      IN /\ t \in Seq(Range(t)) /\ Len(t) = Len(stack) /\ t[Len(stack)] = d
         /\ \A i \in 1..(Len(stack) - 1) : t[i] = stack[i]
  BY <1>1, Replaced
<1>3. /\ Len(stack') = Len(stack) /\ stack'[Len(stack)] = d
      /\ \A i \in 1..(Len(stack) - 1) : stack'[i] = stack[i]
  BY <1>2 DEF WithTop
<1> QED BY <1>1, <1>3 DEF Shorter

LEMMA ImporterShorter ==
  ASSUME LoaderInv, Finished, Len(stack) > 1, NEW d, d.path = stack[Len(stack) - 1].path, stack' = Importer(d)
  PROVE  Shorter
<1>1. stack \in Seq(Range(stack)) /\ Len(stack) \in Nat
  BY TopIs DEF LoaderInv, StackInv, Finished
<1>2. LET t == [SubSeq(stack, 1, Len(stack) - 1) EXCEPT ![Len(stack) - 1] = d]
      IN /\ t \in Seq(Range(t)) /\ Len(t) = Len(stack) - 1 /\ t[Len(stack) - 1] = d
         /\ \A i \in 1..(Len(stack) - 2) : t[i] = stack[i]
  BY <1>1, Popped
<1>3. /\ Len(stack') = Len(stack) - 1 /\ stack'[Len(stack) - 1] = d
      /\ \A i \in 1..(Len(stack) - 2) : stack'[i] = stack[i]
  BY <1>2 DEF Importer
<1>4. PICK n \in Nat : n = Len(stack)
  BY <1>1
<1>5. \A i \in 1..(n - 1) : i \in 1..n /\ (i \in 1..(n - 2) \/ i = n - 1)
  BY <1>4
<1> QED BY <1>3, <1>4, <1>5 DEF Shorter

LEMMA OnlyLoadsGrow ==
  ASSUME LoaderInv, [Next]_vars
  PROVE  program' = program /\ (Shorter \/ \E path : UseLoads(path))
<1>1. program' = program
  BY DEF Next, UseCached, UseFails, UseLoads, CheckStatement, LoadFails, LoadEnds, Reject, Link, vars
<1>2. ASSUME NEW path, UseCached(path) \/ UseFails(path) PROVE Shorter
  <2>1. stack # <<>> /\ top.next <= Len(top.body) /\ IsChecker(top) /\ program \in Programs
    BY <1>2, TopIs DEF UseCached, UseFails, AtUse, LoaderInv
  <2>2. PICK d : (d = Failed(top) \/ \E exports : d = apply_imports(top, exports)) /\ stack' = WithTop(d)
    BY <1>2 DEF UseCached, UseFails
  <2>3. d.path = top.path
    BY <2>1, <2>2, ImportApplied
  <2> QED BY <2>1, <2>2, <2>3, TopShorter
<1>3. CASE CheckStatement
  <2>1. stack # <<>> /\ IsChecker(top)
    BY <1>3, TopIs DEF CheckStatement, LoaderInv
  <2>2. \E scope, failed : stack' = WithTop([top EXCEPT !.next = @ + 1, !.scope = scope, !.failed = failed])
    BY <1>3 DEF CheckStatement
  <2>3. PICK c, scope, failed : c = top /\ stack' = WithTop([c EXCEPT !.next = @ + 1, !.scope = scope, !.failed = failed])
    BY <2>2
  <2>4. PICK d : d = [c EXCEPT !.next = @ + 1, !.scope = scope, !.failed = failed]
    OBVIOUS
  <2>5. d.path = top.path /\ stack' = WithTop(d)
    BY <2>1, <2>3, <2>4 DEF IsChecker
  <2> QED BY <1>1, <2>1, <2>5, TopShorter
<1>4. CASE LoadFails \/ LoadEnds
  <2>1. Finished /\ Len(stack) > 1
    BY <1>4 DEF LoadFails, LoadEnds
  <2>2. PICK c : c = stack[Len(stack) - 1]
    OBVIOUS
  <2>3. program \in Programs /\ IsChecker(c) /\ c.next <= Len(c.body)
    BY <2>1, <2>2, Importing
  <2>4. PICK d : (d = Failed(c) \/ \E exports : d = apply_imports(c, exports)) /\ stack' = Importer(d)
    BY <1>4, <2>2 DEF LoadFails, LoadEnds
  <2>5. d.path = c.path
    BY <2>3, <2>4, ImportApplied
  <2> QED BY <1>1, <2>1, <2>2, <2>4, <2>5, ImporterShorter
<1>5. CASE Reject \/ Link
  BY <1>1, <1>5 DEF Reject, Link, Shorter
<1>6. CASE UNCHANGED vars
  BY <1>6 DEF vars, Shorter
<1> QED BY <1>1, <1>2, <1>3, <1>4, <1>5, <1>6 DEF Next

\* Where the importer is needed, so is what it imports.
LEMMA ImportNeeded ==
  ASSUME LoaderInv, NEW path, AtUse(path), NEW ps, Grounded(ps), \A i \in 1..Len(stack) : stack[i].path \in ps
  PROVE  path \in Targets(program, top.path) /\ path \in ps
<1>1. stack # <<>> /\ IsChecker(top) /\ Len(stack) \in 1..Len(stack) /\ top = stack[Len(stack)]
  BY TopIs DEF AtUse, LoaderInv
<1>2. Len(top.body) \in Nat /\ DOMAIN top.body = 1..Len(top.body)
  BY <1>1, ProgramsReadable DEF LoaderInv, IsChecker, Readable
<1>3. top.body[top.next] \in Range(top.body)
  BY <1>1, <1>2 DEF AtUse, IsChecker, Range
<1>4. path \in Targets(program, top.path)
  BY <1>1, <1>3 DEF AtUse, Targets, IsChecker
<1> QED BY <1>1, <1>4 DEF Grounded

LEMMA NeededInvariant == Spec => []NeededOnly
<1>1. Init => NeededOnly
  <2> SUFFICES ASSUME Init PROVE NeededOnly
    OBVIOUS
  <2>1. PICK c : c = Checker(Main, program[Main].body)
    OBVIOUS
  <2>2. stack = <<c>> /\ c.path = Main
    BY <2>1 DEF Init, Checker
  <2> QED BY <2>2 DEF NeededOnly
<1>2. LoaderInv /\ NeededOnly /\ [Next]_vars => NeededOnly'
  <2> SUFFICES ASSUME LoaderInv, NeededOnly, [Next]_vars,
                      NEW ps \in SUBSET DOMAIN program', Main \in ps, Grounded(ps)'
               PROVE  \A i \in 1..Len(stack') : stack'[i].path \in ps
    BY DEF NeededOnly
  <2>1. program' = program /\ (Shorter \/ \E path : UseLoads(path))
    BY OnlyLoadsGrow
  <2>2. Grounded(ps) /\ \A i \in 1..Len(stack) : stack[i].path \in ps
    BY <2>1 DEF Grounded, NeededOnly
  <2>3. CASE Shorter
    BY <2>2, <2>3 DEF Shorter
  <2>4. ASSUME NEW path, UseLoads(path) PROVE \A i \in 1..Len(stack') : stack'[i].path \in ps
    <3>1. stack # <<>> /\ AtUse(path) /\ stack' = Append(stack, Checker(path, program[path].body))
      BY <2>4 DEF UseLoads, AtUse
    <3>2. PICK d : d = Checker(path, program[path].body)
      OBVIOUS
    <3>3. d.path = path
      BY <3>2 DEF Checker
    <3>4. path \in ps
      BY <2>2, <3>1, ImportNeeded
    <3>5. stack \in Seq(Range(stack))
      BY DEF LoaderInv, StackInv
    <3>6. LET t == Append(stack, d)
          IN /\ t \in Seq(Range(t)) /\ Len(t) = Len(stack) + 1 /\ t[Len(stack) + 1] = d
             /\ \A i \in 1..Len(stack) : t[i] = stack[i]
      BY <3>5, Pushed
    <3>7. /\ Len(stack') = Len(stack) + 1 /\ stack'[Len(stack) + 1] = d
          /\ \A i \in 1..Len(stack) : stack'[i] = stack[i]
      BY <3>1, <3>2, <3>6
    <3>8. \A i \in 1..(Len(stack) + 1) : i \in 1..Len(stack) \/ i = Len(stack) + 1
      BY <3>5
    <3> QED BY <2>2, <3>3, <3>4, <3>7, <3>8
  <2> QED BY <2>1, <2>3, <2>4
<1> QED BY <1>1, <1>2, LoaderInvariant, PTL DEF Spec

-----------------------------------------------------------------------------
(* What is reached *)

LEMMA ClosureStarts == ASSUME NEW edges, NEW from PROVE from \subseteq Closure(edges, from)
BY DEF Closure

LEMMA ClosureStep ==
  ASSUME NEW edges, NEW from, NEW e \in edges, e[1] \in Closure(edges, from)
  PROVE  e[2] \in Closure(edges, from)
BY DEF Closure

LEMMA ClosureLeast ==
  ASSUME NEW edges, NEW from, NEW s, from \subseteq s, \A e \in edges : e[1] \in s => e[2] \in s
  PROVE  Closure(edges, from) \subseteq s
<1> DEFINE nodes == from \cup {e[2] : e \in edges}
           t == s \cap nodes
<1>1. t \in SUBSET nodes /\ from \subseteq t /\ \A e \in edges : e[1] \in t => e[2] \in t
  OBVIOUS
<1>2. \A n \in Closure(edges, from) : n \in t
  BY <1>1 DEF Closure
<1> QED BY <1>2

\* What is reached from p is p and what is reached from where its edges lead.
From(edges, p) == Closure(edges, {p})

LEMMA FromStarts == ASSUME NEW edges, NEW p PROVE p \in From(edges, p)
BY ClosureStarts DEF From

LEMMA FromStep ==
  ASSUME NEW edges, NEW p, NEW e \in edges, e[1] \in From(edges, p) PROVE e[2] \in From(edges, p)
BY ClosureStep DEF From

LEMMA FromLeast ==
  ASSUME NEW edges, NEW p, NEW s, p \in s, \A e \in edges : e[1] \in s => e[2] \in s
  PROVE  From(edges, p) \subseteq s
BY ClosureLeast DEF From

LEMMA FromUnfolds ==
  ASSUME NEW edges, NEW p, NEW succ, \A e \in edges : e[1] = p => e[2] \in succ,
         \A q \in succ : \E e \in edges : e[1] = p /\ e[2] = q
  PROVE  \A x : x \in From(edges, p) <=> x = p \/ \E q \in succ : x \in From(edges, q)
<1>1. \A q \in succ : q \in From(edges, p)
  BY FromStarts, FromStep
<1>2. ASSUME NEW q \in succ PROVE From(edges, q) \subseteq From(edges, p)
  <2>1. \A e \in edges : e[1] \in From(edges, p) => e[2] \in From(edges, p)
    BY FromStep
  <2> QED BY <1>1, <2>1, FromLeast
<1>3. p \in From(edges, p)
  BY FromStarts
<1> DEFINE all == {p} \cup UNION {From(edges, q) : q \in succ}
<1>4. ASSUME NEW e \in edges, e[1] \in all PROVE e[2] \in all
  <2>1. CASE e[1] = p
    <3>1. e[2] \in succ /\ e[2] \in From(edges, e[2])
      BY <2>1, FromStarts
    <3> QED BY <3>1
  <2>2. ASSUME NEW q \in succ, e[1] \in From(edges, q) PROVE e[2] \in all
    BY <2>2, FromStep
  <2> QED BY <1>4, <2>1, <2>2
<1>5. From(edges, p) \subseteq all
  <2>1. p \in all
    OBVIOUS
  <2> HIDE DEF all
  <2> QED BY <1>4, <2>1, FromLeast
<1> QED BY <1>2, <1>3, <1>5

LEMMA ReachedStarts == ASSUME NEW prog, NEW ps PROVE ps \subseteq Reached(prog, ps)
BY ClosureStarts DEF Reached

LEMMA ReachedTarget ==
  ASSUME NEW prog, NEW ps, NEW p \in Reached(prog, ps), Readable(prog, p), NEW q \in Targets(prog, p)
  PROVE  q \in Reached(prog, ps)
<1>1. <<p, q>> \in Imports(prog)
  BY DEF Imports, Readable
<1>2. PICK e \in Imports(prog) : e = <<p, q>>
  BY <1>1
<1>3. e[2] \in Reached(prog, ps)
  BY <1>2, ClosureStep DEF Reached
<1> QED BY <1>2, <1>3

LEMMA ReachedLeast ==
  ASSUME NEW prog, NEW ps, NEW s, ps \subseteq s, \A p \in s : Readable(prog, p) => Targets(prog, p) \subseteq s
  PROVE  Reached(prog, ps) \subseteq s
<1>1. ASSUME NEW e \in Imports(prog), e[1] \in s PROVE e[2] \in s
  <2>1. PICK p, q : Readable(prog, p) /\ q \in Targets(prog, p) /\ e = <<p, q>>
    BY DEF Imports
  <2> QED BY <1>1, <2>1
<1> QED BY <1>1, ClosureLeast DEF Reached

\* In files that have an order to load them in, none imports itself by way of others.
LEMMA GroundedAcyclic ==
  ASSUME NEW ps, Grounded(ps), NEW p \in ps
  PROVE  p \notin Reached(program, Targets(program, p))
<1> SUFFICES ASSUME p \in Reached(program, Targets(program, p)) PROVE FALSE
  OBVIOUS
<1> DEFINE some == {q \in ps : p \in Reached(program, Targets(program, q))}
<1>1. PICK q \in some : Targets(program, q) \cap some = {}
  BY DEF Grounded
<1>2. Readable(program, q) /\ Targets(program, q) \subseteq ps
  BY <1>1 DEF Grounded
<1> DEFINE next == Targets(program, q)
           later == next \cup UNION {Reached(program, Targets(program, r)) : r \in next}
<1>3. ASSUME NEW x \in later, Readable(program, x) PROVE Targets(program, x) \subseteq later
  <2>1. CASE x \in next
    <3>1. Targets(program, x) \subseteq Reached(program, Targets(program, x))
      BY ReachedStarts
    <3> QED BY <2>1, <3>1
  <2>2. ASSUME NEW r \in next, x \in Reached(program, Targets(program, r)) PROVE Targets(program, x) \subseteq later
    <3>1. \A y \in Targets(program, x) : y \in Reached(program, Targets(program, r))
      BY <1>3, <2>2, ReachedTarget
    <3> QED BY <2>2, <3>1
  <2> QED BY <2>1, <2>2
<1>4. Reached(program, next) \subseteq later
  <2>1. next \subseteq later
    OBVIOUS
  <2> HIDE DEF later, next
  <2> QED BY <1>3, <2>1, ReachedLeast
<1>5. p \in later
  BY <1>1, <1>4
<1>6. CASE p \in next
  BY <1>1, <1>6
<1>7. ASSUME NEW r \in next, p \in Reached(program, Targets(program, r)) PROVE FALSE
  <2>1. r \in some
    BY <1>2, <1>7
  <2> QED BY <1>1, <2>1
<1> QED BY <1>5, <1>6, <1>7

-----------------------------------------------------------------------------
(* What is in scope *)

First(names) == {n[1] : n \in names}

\* Every item in scope is there itself, with all the methods that a body may name.
Complete(names) ==
  /\ \A n \in names : <<n[1]>> \in names
  /\ \A x : \A m : MethodOf(program, x, m) /\ <<x>> \in names => <<x, m>> \in names

\* A checker that found no error has the names in scope that are visible above its
\* next statement, and what it is past is fine.
ScopeRight(c) ==
  ~c.failed =>
    /\ First(DOMAIN c.scope) = Above(program, c.path, c.next)
    /\ Complete(DOMAIN c.scope)
    /\ \A i \in 1..(c.next - 1) : StatementFine(program, c.path, i)

\* The exports of a file are what it offers.
ExportsRight(p, exports) ==
  First(DOMAIN exports) = Offered(program, p) /\ Complete(DOMAIN exports)

LEMMA FirstOfUnion ==
  ASSUME NEW A, NEW B PROVE First(A \cup B) = First(A) \cup First(B)
BY DEF First

LEMMA FirstOne == ASSUME NEW x PROVE First({<<x>>}) = {x}
BY DEF First

LEMMA CompleteUnion ==
  ASSUME NEW A, NEW B, Complete(A), Complete(B) PROVE Complete(A \cup B)
BY DEF Complete

\* The items of some names.
LEMMA SelectedNames ==
  ASSUME NEW A, Complete(A), NEW X, NEW some, \A n : n \in some <=> n \in A /\ n[1] \in X
  PROVE  First(some) = First(A) \cap X /\ Complete(some)
BY DEF First, Complete

LEMMA FirstIn == ASSUME NEW A, Complete(A), NEW x PROVE x \in First(A) <=> <<x>> \in A
BY DEF First, Complete

LEMMA MembersSelected ==
  ASSUME NEW scope, NEW X
  PROVE  \A n : n \in UNION {Members(scope, name) : name \in X} <=> n \in DOMAIN scope /\ n[1] \in X
BY DEF Members

LEMMA MemberEmpty ==
  ASSUME NEW scope, NEW x PROVE Members(scope, x) = {} <=> x \notin First(DOMAIN scope)
BY DEF Members, First

LEMMA OverDomain == ASSUME NEW f, NEW g PROVE DOMAIN Over(f, g) = DOMAIN f \cup DOMAIN g
BY DEF Over

\* One statement more is visible.
LEMMA AboveNext ==
  ASSUME NEW p, NEW i \in Nat \ {0}, NEW s, s = program[p].body[i]
  PROVE  Above(program, p, i + 1) = Above(program, p, i) \cup IF s.k = "use" THEN Imported(program, s) ELSE {s.name}
<1> DEFINE body == program[p].body
           before == {body[j] : j \in 1..(i - 1)}
           after == {body[j] : j \in 1..((i + 1) - 1)}
           defs == {d \in Range(body) : d.k = "def"}
<1>1. \A j : j \in 1..((i + 1) - 1) <=> j \in 1..(i - 1) \/ j = i
  OBVIOUS
<1>2. after = before \cup {s}
  <2>1. \A x : x \in after <=> (\E j \in 1..((i + 1) - 1) : x = body[j])
    OBVIOUS
  <2>2. \A x : x \in before <=> (\E j \in 1..(i - 1) : x = body[j])
    OBVIOUS
  <2> HIDE DEF before, after, body
  <2>3. s = body[i]
    BY DEF body
  <2> QED BY <1>1, <2>1, <2>2, <2>3
<1>3. Above(program, p, i) = {d.name : d \in defs \cup {d \in before : d.k # "use"}} \cup BuiltinClasses
                               \cup UNION {Imported(program, d) : d \in {d \in before : d.k = "use"}}
  BY DEF Above
<1>4. Above(program, p, i + 1) = {d.name : d \in defs \cup {d \in after : d.k # "use"}} \cup BuiltinClasses
                               \cup UNION {Imported(program, d) : d \in {d \in after : d.k = "use"}}
  BY DEF Above
<1> HIDE DEF before, after, defs, body
<1>5. CASE s.k = "use"
  BY <1>2, <1>3, <1>4, <1>5
<1>6. CASE s.k # "use"
  BY <1>2, <1>3, <1>4, <1>6
<1> QED BY <1>5, <1>6

\* An import brings what the module offers, or the names it lists.
LEMMA ImportRight ==
  ASSUME program \in Programs, NEW c, IsChecker(c), ScopeRight(c),
         c.next <= Len(c.body), c.body[c.next].k = "use",
         NEW exports, ExportsRight(c.body[c.next].path, exports),
         NEW d, d = apply_imports(c, exports)
  PROVE  ScopeRight(d) /\ (d.failed => c.failed \/ ~StatementFine(program, c.path, c.next))
<1> DEFINE use == c.body[c.next]
           taken == IF use.names = All THEN exports ELSE inject_export(exports, use.names)
           bad == \E name \in use.names : Members(exports, name) = {}
<1>1. /\ c.next \in Nat \ {0} /\ c.failed \in BOOLEAN /\ c.body = program[c.path].body
      /\ DOMAIN c = {"path", "body", "next", "failed", "scope"}
  BY ProgramsReadable DEF IsChecker, Readable
<1>2. d = [c EXCEPT !.next = @ + 1, !.scope = Over(taken, @), !.failed = @ \/ bad]
  BY DEF apply_imports
<1>3. bad <=> ~StatementFine(program, c.path, c.next)
  <2>1. bad <=> ~(use.names \subseteq First(DOMAIN exports))
    BY MemberEmpty
  <2> QED BY <1>1, <2>1 DEF StatementFine, ExportsRight
<1>4. Complete(DOMAIN taken) /\ (~bad => First(DOMAIN taken) = Imported(program, use))
  <2>1. CASE use.names = All
    BY <2>1 DEF ExportsRight, Imported
  <2>2. CASE use.names # All
    <3>0. PICK A, X, some : A = DOMAIN exports /\ X = use.names /\ some = DOMAIN taken
      OBVIOUS
    <3>1. \A n : n \in some <=> n \in A /\ n[1] \in X
      <4>1. DOMAIN taken = UNION {Members(exports, name) : name \in use.names}
        BY <2>2 DEF inject_export
      <4>2. \A n : n \in UNION {Members(exports, name) : name \in X} <=> n \in DOMAIN exports /\ n[1] \in X
        BY MembersSelected
      <4> QED BY <3>0, <4>1, <4>2
    <3>2. First(DOMAIN taken) = First(DOMAIN exports) \cap use.names /\ Complete(DOMAIN taken)
      <4>1. Complete(A)
        BY <3>0 DEF ExportsRight
      <4>2. First(some) = First(A) \cap X /\ Complete(some)
        BY <3>1, <4>1, SelectedNames
      <4> QED BY <3>0, <4>2
    <3>3. ~bad => use.names \subseteq First(DOMAIN exports)
      BY MemberEmpty
    <3> QED BY <2>2, <3>2, <3>3 DEF Imported
  <2> QED BY <2>1, <2>2
<1> HIDE DEF taken, bad
<1>5. /\ d.path = c.path /\ d.next = c.next + 1 /\ d.scope = Over(taken, c.scope)
      /\ d.failed <=> (c.failed \/ bad)
  BY <1>1, <1>2
<1>6. ASSUME ~d.failed
      PROVE  /\ First(DOMAIN d.scope) = Above(program, d.path, d.next)
             /\ Complete(DOMAIN d.scope)
             /\ \A i \in 1..(d.next - 1) : StatementFine(program, d.path, i)
  <2>1. ~c.failed /\ ~bad
    BY <1>5, <1>6
  <2>2. DOMAIN d.scope = DOMAIN taken \cup DOMAIN c.scope
    BY <1>5, OverDomain
  <2>3. Above(program, c.path, c.next + 1) = Above(program, c.path, c.next) \cup Imported(program, use)
    <3>1. PICK s, p, i : s = use /\ p = c.path /\ i = c.next
      OBVIOUS
    <3>2. i \in Nat \ {0} /\ s = program[p].body[i] /\ s.k = "use"
      BY <1>1, <3>1
    <3>3. Above(program, p, i + 1) = Above(program, p, i) \cup Imported(program, s)
      BY <3>2, AboveNext
    <3> QED BY <3>1, <3>3
  <2>4. First(DOMAIN d.scope) = Above(program, d.path, d.next)
    <3>1. First(DOMAIN d.scope) = First(DOMAIN taken) \cup First(DOMAIN c.scope)
      BY <2>2, FirstOfUnion
    <3> QED BY <1>4, <1>5, <2>1, <2>3, <3>1 DEF ScopeRight
  <2>5. Complete(DOMAIN d.scope)
    BY <1>4, <2>1, <2>2, CompleteUnion DEF ScopeRight
  <2>6. \A i \in 1..(d.next - 1) : i \in 1..(c.next - 1) \/ i = c.next
    BY <1>1, <1>5
  <2>7. \A i \in 1..(d.next - 1) : StatementFine(program, d.path, i)
    BY <1>3, <1>5, <2>1, <2>6 DEF ScopeRight
  <2> QED BY <2>4, <2>5, <2>7
<1> QED BY <1>3, <1>5, <1>6 DEF ScopeRight

LEMMA MethodKnown ==
  ASSUME program \in Programs, NEW p \in DOMAIN program, NEW s \in Range(program[p].body), s.k # "use",
         NEW n \in NamesOf(s)
  PROVE  n = <<n[1]>> \/ \E x, m : n = <<x, m>> /\ x = n[1] /\ MethodOf(program, x, m)
BY MethodsKnown

\* The names of a statement, and the checker that is past it.
Brought(path, s, scope) ==
  IF s.k = "def" THEN [n \in {<<s.name>>} |-> <<path>> \o n] ELSE Declared(path, s, scope)
Past(c, scope, bad) == [c EXCEPT !.next = @ + 1, !.scope = scope, !.failed = @ \/ bad]

\* What a statement declares is complete on top of a scope that knows its traits.
LEMMA DeclaredComplete ==
  ASSUME NEW p \in DOMAIN program, NEW s \in Range(program[p].body), s.k # "use",
         NEW path, NEW scope, Complete(DOMAIN scope),
         NEW known, known = Brought(path, s, scope)
  PROVE  /\ First(DOMAIN known) = {s.name} /\ <<s.name>> \in DOMAIN known
         /\ (s.k = "class" => \A t \in s.includes : <<t>> \in DOMAIN known \cup DOMAIN scope)
              => Complete(DOMAIN known \cup DOMAIN scope)
<1> DEFINE inherited == IF s.k = "class" THEN {n[2] : n \in {d \in DOMAIN scope : d[1] \in s.includes /\ Len(d) = 2}} ELSE {}
           own == IF s.k = "def" THEN {} ELSE Methods(s) \cup inherited
           all == DOMAIN known \cup DOMAIN scope
<1>1. DOMAIN known = {<<s.name>>} \cup {<<s.name, m>> : m \in own}
  <2>1. CASE s.k = "def"
    <3>1. DOMAIN known = {<<s.name>>} /\ own = {}
      BY <2>1 DEF Brought
    <3> QED BY <3>1
  <2>2. CASE s.k # "def"
    <3>1. known = Declared(path, s, scope) /\ own = Methods(s) \cup inherited
      BY <2>2 DEF Brought
    <3>2. DOMAIN known = {<<s.name>>} \cup {<<s.name, m>> : m \in Methods(s) \cup inherited}
      BY <3>1 DEF Declared
    <3> QED BY <3>1, <3>2
  <2> QED BY <2>1, <2>2
<1>2. First(DOMAIN known) = {s.name} /\ <<s.name>> \in DOMAIN known
  <2> HIDE DEF own
  <2>1. <<s.name>> \in DOMAIN known
    BY <1>1
  <2>2. ASSUME NEW n \in DOMAIN known PROVE n[1] = s.name
    BY <1>1
  <2>3. <<s.name>>[1] = s.name
    OBVIOUS
  <2> QED BY <2>1, <2>2, <2>3 DEF First
<1>3. s \in Called(program, s.name)
  BY DEF Called
<1>4. ASSUME s.k = "class" => \A t \in s.includes : <<t>> \in all, NEW x, NEW m, MethodOf(program, x, m), <<x>> \in all
      PROVE  <<x, m>> \in all
  <2>1. CASE <<x>> \in DOMAIN scope
    BY <1>4, <2>1 DEF Complete
  <2>2. CASE <<x>> \in DOMAIN known
    <3>1. x = s.name
      <4>1. x \in First(DOMAIN known)
        BY <2>2 DEF First
      <4> QED BY <1>2, <4>1
    <3>2. s.k # "def" /\ (m \in Methods(s) \/ (s.k = "class" /\ \E t \in s.includes : OwnMethod(program, t, m)))
      BY <1>3, <1>4, <3>1 DEF MethodOf
    <3>3. CASE m \in Methods(s)
      <4>1. m \in own
        BY <3>2, <3>3
      <4> QED BY <1>1, <3>1, <4>1
    <3>4. ASSUME s.k = "class", NEW t \in s.includes, OwnMethod(program, t, m) PROVE <<x, m>> \in all
      <4>1. CASE t = s.name
        <5>1. m \in Methods(s)
          BY <1>3, <3>4, <4>1 DEF OwnMethod
        <5> QED BY <3>3, <5>1
      <4>2. CASE t # s.name
        <5>1. <<t>> \in DOMAIN scope
          <6>1. t \notin First(DOMAIN known)
            BY <1>2, <4>2
          <6>2. <<t>> \notin DOMAIN known
            BY <6>1 DEF First
          <6> QED BY <1>4, <3>4, <6>2
        <5>2. MethodOf(program, t, m)
          BY <3>4 DEF OwnMethod, MethodOf
        <5>3. <<t, m>> \in DOMAIN scope
          BY <5>1, <5>2 DEF Complete
        <5>4. <<t, m>>[1] = t /\ <<t, m>>[2] = m /\ Len(<<t, m>>) = 2
          OBVIOUS
        <5>5. m \in inherited
          BY <3>4, <5>3, <5>4
        <5>6. m \in own
          BY <3>2, <5>5
        <5> QED BY <1>1, <3>1, <5>6
      <4> QED BY <4>1, <4>2
    <3> QED BY <3>2, <3>3, <3>4
  <2> QED BY <1>4, <2>1, <2>2
<1>5. \A n \in all : <<n[1]>> \in all
  <2>1. \A n \in DOMAIN known : n[1] = s.name
    BY <1>2 DEF First
  <2> QED BY <1>2, <2>1 DEF Complete
<1> HIDE DEF all, own, inherited
<1>6. (s.k = "class" => \A t \in s.includes : <<t>> \in all) => Complete(all)
  BY <1>4, <1>5 DEF Complete
<1> QED BY <1>2, <1>6 DEF all

\* Any other statement is checked against exactly the names that are visible there.
LEMMA StatementRight ==
  ASSUME program \in Programs, NEW c, IsChecker(c), ScopeRight(c),
         c.next <= Len(c.body), NEW s, s = c.body[c.next], s.k # "use",
         NEW known, known = Brought(c.path, s, c.scope),
         NEW scope, scope = Over(known, c.scope),
         NEW d, d = Past(c, scope, ~(NamesOf(s) \subseteq DOMAIN scope))
  PROVE  ScopeRight(d) /\ (d.failed => c.failed \/ ~StatementFine(program, c.path, c.next))
<1>1. /\ c.next \in Nat \ {0} /\ c.failed \in BOOLEAN /\ c.body = program[c.path].body
      /\ c.path \in DOMAIN program /\ DOMAIN c = {"path", "body", "next", "failed", "scope"}
      /\ DOMAIN c.body = 1..Len(c.body)
  BY ProgramsReadable DEF IsChecker, Readable
<1>2. s \in Range(program[c.path].body) /\ s = program[c.path].body[c.next]
  BY <1>1 DEF Range
<1>3. /\ d.path = c.path /\ d.next = c.next + 1 /\ d.scope = scope
      /\ d.failed <=> (c.failed \/ ~(NamesOf(s) \subseteq DOMAIN scope))
  <2>1. PICK bad \in BOOLEAN : bad <=> ~(NamesOf(s) \subseteq DOMAIN scope)
    BY Zenon
  <2>2. d = Past(c, scope, bad)
    BY <2>1
  <2>3. d.path = c.path /\ d.next = c.next + 1 /\ d.scope = scope /\ d.failed = (c.failed \/ bad)
    BY <1>1, <2>2 DEF Past
  <2> QED BY <2>1, <2>3
<1>4. DOMAIN scope = DOMAIN known \cup DOMAIN c.scope
  BY OverDomain
<1>5. ASSUME ~c.failed
      PROVE  /\ First(DOMAIN scope) = Above(program, c.path, c.next) \cup {s.name}
             /\ NamesOf(s) \subseteq DOMAIN scope <=> StatementFine(program, c.path, c.next)
             /\ NamesOf(s) \subseteq DOMAIN scope => Complete(DOMAIN scope)
  <2>1. First(DOMAIN c.scope) = Above(program, c.path, c.next) /\ Complete(DOMAIN c.scope)
    BY <1>5 DEF ScopeRight
  <2>2. PICK p, old : p = c.path /\ old = c.scope
    OBVIOUS
  <2>3. /\ First(DOMAIN known) = {s.name} /\ <<s.name>> \in DOMAIN known
        /\ (s.k = "class" => \A t \in s.includes : <<t>> \in DOMAIN scope) => Complete(DOMAIN scope)
    <3>1. /\ First(DOMAIN known) = {s.name} /\ <<s.name>> \in DOMAIN known
          /\ (s.k = "class" => \A t \in s.includes : <<t>> \in DOMAIN known \cup DOMAIN c.scope)
                => Complete(DOMAIN known \cup DOMAIN c.scope)
      <4>1. p \in DOMAIN program /\ s \in Range(program[p].body) /\ Complete(DOMAIN old) /\ known = Brought(p, s, old)
        BY <1>1, <1>2, <2>1, <2>2
      <4>2. /\ First(DOMAIN known) = {s.name} /\ <<s.name>> \in DOMAIN known
            /\ (s.k = "class" => \A t \in s.includes : <<t>> \in DOMAIN known \cup DOMAIN old)
                  => Complete(DOMAIN known \cup DOMAIN old)
        BY <4>1, DeclaredComplete
      <4> QED BY <2>2, <4>2
    <3> QED BY <1>4, <3>1
  <2>4. First(DOMAIN scope) = Above(program, c.path, c.next) \cup {s.name}
    BY <1>4, <2>1, <2>3, FirstOfUnion
  <2>5. s.k = "class" => \A t \in s.includes : <<t>> \in NamesOf(s)
    BY DEF NamesOf
  <2>6. StatementFine(program, c.path, c.next) <=> \A n \in NamesOf(s) : n[1] \in First(DOMAIN scope)
    BY <1>2, <2>4 DEF StatementFine
  <2>7. \A x : x \in First(DOMAIN scope) => <<x>> \in DOMAIN scope
    <3>1. \A n \in DOMAIN known : n[1] = s.name
      BY <2>3 DEF First
    <3> QED BY <1>4, <2>1, <2>3, <3>1 DEF First, Complete
  <2>8. NamesOf(s) \subseteq DOMAIN scope => Complete(DOMAIN scope)
    BY <2>3, <2>5
  <2>9. NamesOf(s) \subseteq DOMAIN scope => StatementFine(program, c.path, c.next)
    BY <2>6 DEF First
  <2>10. ASSUME StatementFine(program, c.path, c.next), NEW n \in NamesOf(s) PROVE n \in DOMAIN scope
    <3>1. \A t : s.k = "class" /\ t \in s.includes => <<t>> \in DOMAIN scope
      <4> SUFFICES ASSUME NEW t, s.k = "class", t \in s.includes PROVE <<t>> \in DOMAIN scope
        OBVIOUS
      <4>1. PICK k \in NamesOf(s) : k = <<t>> /\ k[1] = t
        BY <2>5
      <4> QED BY <2>6, <2>7, <2>10, <4>1
    <3>2. Complete(DOMAIN scope)
      BY <2>3, <3>1
    <3>3. n[1] \in First(DOMAIN scope)
      BY <2>6, <2>10
    <3>4. n = <<n[1]>> \/ \E x, m : n = <<x, m>> /\ x = n[1] /\ MethodOf(program, x, m)
      BY <1>1, <1>2, <2>2, MethodKnown
    <3> QED BY <2>7, <3>2, <3>3, <3>4 DEF Complete
  <2> QED BY <2>4, <2>8, <2>9, <2>10
<1>6. ASSUME ~d.failed
      PROVE  /\ First(DOMAIN d.scope) = Above(program, d.path, d.next)
             /\ Complete(DOMAIN d.scope)
             /\ \A i \in 1..(d.next - 1) : StatementFine(program, d.path, i)
  <2>1. ~c.failed /\ NamesOf(s) \subseteq DOMAIN scope
    BY <1>3, <1>6
  <2>2. Above(program, c.path, c.next + 1) = Above(program, c.path, c.next) \cup {s.name}
    <3>1. PICK p, i : p = c.path /\ i = c.next
      OBVIOUS
    <3>2. i \in Nat \ {0} /\ s = program[p].body[i] /\ s.k # "use"
      BY <1>1, <3>1
    <3>3. Above(program, p, i + 1) = Above(program, p, i) \cup {s.name}
      BY <3>2, AboveNext
    <3> QED BY <3>1, <3>3
  <2>3. \A i \in 1..(d.next - 1) : i \in 1..(c.next - 1) \/ i = c.next
    <3>1. PICK n \in Nat \ {0} : n = c.next /\ d.next = n + 1
      BY <1>1, <1>3
    <3>2. \A i \in 1..((n + 1) - 1) : i \in 1..(n - 1) \/ i = n
      OBVIOUS
    <3> QED BY <3>1, <3>2
  <2>4. \A i \in 1..(d.next - 1) : StatementFine(program, d.path, i)
    BY <1>3, <1>5, <2>1, <2>3 DEF ScopeRight
  <2> QED BY <1>3, <1>5, <2>1, <2>2, <2>4
<1> QED BY <1>3, <1>5, <1>6 DEF ScopeRight

-----------------------------------------------------------------------------
(* What is exported *)

\* A file offers its own names and what the modules it passes on offer.
LEMMA OfferedUnfolds ==
  ASSUME NEW p \in DOMAIN program
  PROVE  Offered(program, p) = OwnNames(program, p) \cup UNION {Offered(program, q) : q \in Passes(program, p)}
<1>0. PICK edges, succ : edges = PassesOn(program) /\ succ = Passes(program, p)
  OBVIOUS
<1>1. \A e \in edges : e[1] = p => e[2] \in succ
  BY <1>0 DEF PassesOn
<1>2. ASSUME NEW q \in succ PROVE \E e \in edges : e[1] = p /\ e[2] = q
  <2>1. <<p, q>> \in edges
    BY <1>0, <1>2 DEF PassesOn
  <2> QED BY <2>1
<1>3. \A x : x \in From(edges, p) <=> x = p \/ \E q \in succ : x \in From(edges, q)
  BY <1>1, <1>2, FromUnfolds
<1>4. \A x : Offered(program, x) = UNION {OwnNames(program, q) : q \in From(edges, x) \cap DOMAIN program}
  BY <1>0 DEF Offered, From
<1>5. ASSUME NEW n \in Offered(program, p)
      PROVE  n \in OwnNames(program, p) \cup UNION {Offered(program, q) : q \in succ}
  <2>1. PICK r \in From(edges, p) \cap DOMAIN program : n \in OwnNames(program, r)
    BY <1>4, <1>5
  <2>2. CASE r = p
    BY <2>1, <2>2
  <2>3. ASSUME NEW q \in succ, r \in From(edges, q) PROVE n \in Offered(program, q)
    BY <1>4, <2>1, <2>3
  <2> QED BY <1>3, <2>1, <2>2, <2>3
<1>6. OwnNames(program, p) \subseteq Offered(program, p)
  BY <1>3, <1>4
<1>7. ASSUME NEW q \in succ, NEW n \in Offered(program, q) PROVE n \in Offered(program, p)
  <2>1. PICK r \in From(edges, q) \cap DOMAIN program : n \in OwnNames(program, r)
    BY <1>4, <1>7
  <2>2. r \in From(edges, p) \cap DOMAIN program
    BY <1>3, <2>1
  <2> QED BY <1>4, <2>1, <2>2
<1> QED BY <1>0, <1>5, <1>6, <1>7

\* The names one statement exports, and those it should.
Exports(s, scope, loaded) == DOMAIN exported(s, scope, loaded)
Gives(s) == IF ~s.pub THEN {} ELSE IF s.k = "use" THEN Imported(program, s) ELSE {s.name}

\* What one statement of a file without errors adds to its exports.
LEMMA StatementExports ==
  ASSUME NEW scope, Complete(DOMAIN scope), NEW s, NEW loaded,
         s.k = "use" => ExportsRight(s.path, loaded[s.path]),
         s.k = "use" => Imported(program, s) \subseteq First(DOMAIN scope),
         s.k # "use" => s.name \in First(DOMAIN scope)
  PROVE  Complete(Exports(s, scope, loaded)) /\ First(Exports(s, scope, loaded)) = Gives(s)
<1>0. PICK e : e = exported(s, scope, loaded)
  OBVIOUS
<1>1. PICK names : names = DOMAIN e
  OBVIOUS
<1>2. ASSUME ~s.pub PROVE Complete(names) /\ First(names) = Gives(s)
  <2>1. e = NoScope
    BY <1>0, <1>2 DEF exported
  <2>2. names = {}
    BY <1>1, <2>1 DEF NoScope
  <2> QED BY <1>2, <2>2 DEF First, Complete, Gives
<1>3. ASSUME s.pub /\ s.k = "use" /\ s.names = All PROVE Complete(names) /\ First(names) = Gives(s)
  <2>1. e = loaded[s.path]
    BY <1>0, <1>3 DEF exported
  <2> QED BY <1>1, <1>3, <2>1 DEF ExportsRight, Imported, Gives
<1>4. ASSUME s.pub /\ s.k = "use" /\ s.names # All PROVE Complete(names) /\ First(names) = Gives(s)
  <2>0. PICK A, X : A = DOMAIN scope /\ X = s.names
    OBVIOUS
  <2>1. names = UNION {Members(scope, name) : name \in X}
    <3>1. e = [n \in UNION {Members(scope, name) : name \in s.names} |-> scope[n]]
      BY <1>0, <1>4 DEF exported
    <3> QED BY <1>1, <2>0, <3>1
  <2>2. \A n : n \in names <=> n \in A /\ n[1] \in X
    <3>1. \A n : n \in UNION {Members(scope, name) : name \in X} <=> n \in DOMAIN scope /\ n[1] \in X
      BY MembersSelected
    <3> QED BY <2>0, <2>1, <3>1
  <2>3. s.names \subseteq First(DOMAIN scope) /\ Imported(program, s) = s.names
    BY <1>4 DEF Imported
  <2>4. First(names) = First(A) \cap X /\ Complete(names)
    <3>1. Complete(A)
      BY <2>0
    <3> QED BY <2>2, <3>1, SelectedNames
  <2> QED BY <1>4, <2>0, <2>3, <2>4 DEF Gives
<1>5. ASSUME s.pub /\ s.k # "use" PROVE Complete(names) /\ First(names) = Gives(s)
  <2>0. PICK A, X : A = DOMAIN scope /\ X = {s.name}
    OBVIOUS
  <2>1. \A n : n \in names <=> n \in A /\ n[1] \in X
    <3>1. e = [n \in Members(scope, s.name) |-> scope[n]]
      BY <1>0, <1>5 DEF exported
    <3> QED BY <1>1, <2>0, <3>1 DEF Members
  <2>2. s.name \in First(DOMAIN scope)
    BY <1>5
  <2>3. First(names) = First(A) \cap X /\ Complete(names)
    <3>1. Complete(A)
      BY <2>0
    <3> QED BY <2>1, <3>1, SelectedNames
  <2> QED BY <1>5, <2>0, <2>2, <2>3 DEF Gives
<1>6. Complete(names) /\ First(names) = Gives(s)
  BY <1>2, <1>3, <1>4, <1>5
<1> QED BY <1>0, <1>1, <1>6 DEF Exports

LEMMA CompleteAll ==
  ASSUME NEW S, \A A \in S : Complete(A) PROVE Complete(UNION S)
BY DEF Complete

\* The exports of a file without errors are what it offers.
LEMMA FileExports ==
  ASSUME program \in Programs, NEW c, IsChecker(c), ~c.failed, c.next > Len(c.body), ScopeRight(c),
         NEW loaded, \A p \in DOMAIN loaded : ExportsRight(p, loaded[p]), ImportsLoaded(c, DOMAIN loaded)
  PROVE  ExportsRight(c.path, extract_exports(c.body, c.scope, loaded))
<1>1. PICK p, body, scope : p = c.path /\ body = c.body /\ scope = c.scope
  OBVIOUS
<1>2. /\ p \in DOMAIN program /\ body = program[p].body /\ DOMAIN body = 1..Len(body) /\ Len(body) \in Nat
      /\ c.next = Len(body) + 1
  BY <1>1, ProgramsReadable DEF IsChecker, Readable
<1>3. Range(body) = {body[i] : i \in 1..Len(body)}
  BY <1>2 DEF Range
<1> DEFINE by(i) == Exports(body[i], scope, loaded)
           all == {by(i) : i \in 1..Len(body)}
<1>4. DOMAIN extract_exports(body, scope, loaded) = UNION all
  BY DEF extract_exports, Exports
<1>5. ASSUME NEW i \in 1..Len(body)
      PROVE  Complete(by(i)) /\ First(by(i)) = Gives(body[i])
  <2>1. PICK s : s = body[i]
    OBVIOUS
  <2>2. i \in 1..(c.next - 1) /\ s = program[c.path].body[i]
    BY <1>1, <1>2, <2>1
  <2>3. s.k = "use" => ExportsRight(s.path, loaded[s.path])
    BY <1>1, <2>1, <2>2 DEF ImportsLoaded
  <2>4. Complete(DOMAIN scope) /\ First(DOMAIN scope) = Above(program, c.path, c.next)
    BY <1>1 DEF ScopeRight
  <2>5. s \in {body[j] : j \in 1..(c.next - 1)}
    BY <2>1, <2>2
  <2>6. s.k = "use" => Imported(program, s) \subseteq First(DOMAIN scope)
    BY <1>1, <1>2, <2>4, <2>5 DEF Above
  <2>7. s.k # "use" => s.name \in First(DOMAIN scope)
    BY <1>1, <1>2, <2>4, <2>5 DEF Above
  <2>8. Complete(Exports(s, scope, loaded)) /\ First(Exports(s, scope, loaded)) = Gives(s)
    BY <2>4, <2>3, <2>6, <2>7, StatementExports
  <2> QED BY <2>1, <2>8
<1> HIDE DEF by
<1>6. Complete(UNION all)
  BY <1>5, CompleteAll
<1>7. First(UNION all) = UNION {Gives(body[i]) : i \in 1..Len(body)}
  <2>1. \A x : x \in First(UNION all) <=> \E i \in 1..Len(body) : x \in First(by(i))
    BY DEF First
  <2> QED BY <1>5, <2>1
<1>8. Offered(program, p) = UNION {Gives(body[i]) : i \in 1..Len(body)}
  <2>1. Offered(program, p) = OwnNames(program, p) \cup UNION {Offered(program, q) : q \in Passes(program, p)}
    BY <1>2, OfferedUnfolds
  <2>2. ASSUME NEW n \in OwnNames(program, p) PROVE \E i \in 1..Len(body) : n \in Gives(body[i])
    <3>1. PICK s \in Range(body) : s.pub /\ n \in IF s.k = "use" THEN s.names ELSE {s.name}
      BY <1>2, <2>2 DEF OwnNames
    <3>2. n \in Gives(s)
      BY <3>1 DEF Imported, All, Gives
    <3> QED BY <1>3, <3>1, <3>2
  <2>3. ASSUME NEW q \in Passes(program, p), NEW n \in Offered(program, q)
        PROVE  \E i \in 1..Len(body) : n \in Gives(body[i])
    <3>1. PICK s \in Range(body) : s.pub /\ s.k = "use" /\ s.names = All /\ q = s.path
      BY <1>2 DEF Passes
    <3>2. n \in Gives(s)
      BY <2>3, <3>1 DEF Imported, Gives
    <3> QED BY <1>3, <3>1, <3>2
  <2>4. ASSUME NEW i \in 1..Len(body), NEW n \in Gives(body[i]) PROVE n \in Offered(program, p)
    <3>1. PICK s \in Range(body) : s = body[i]
      BY <1>3
    <3>2. s.pub
      BY <2>4, <3>1 DEF Gives
    <3>3. CASE s.k # "use"
      <4>1. n = s.name /\ n \in OwnNames(program, p)
        BY <1>2, <2>4, <3>1, <3>2, <3>3 DEF OwnNames, Gives
      <4> QED BY <2>1, <4>1
    <3>4. CASE s.k = "use" /\ s.names # All
      <4>1. n \in s.names /\ n \in OwnNames(program, p)
        BY <1>2, <2>4, <3>1, <3>2, <3>4 DEF OwnNames, Imported, Gives
      <4> QED BY <2>1, <4>1
    <3>5. CASE s.k = "use" /\ s.names = All
      <4>1. n \in Offered(program, s.path) /\ s.path \in Passes(program, p)
        BY <1>2, <2>4, <3>1, <3>2, <3>5 DEF Passes, Imported, Gives
      <4> QED BY <2>1, <4>1
    <3> QED BY <3>3, <3>4, <3>5
  <2> QED BY <2>1, <2>2, <2>3, <2>4
<1> HIDE DEF all
<1> QED BY <1>1, <1>4, <1>6, <1>7, <1>8 DEF ExportsRight

-----------------------------------------------------------------------------
(* What is in scope: the invariant and its steps *)

CacheRight ==
  \A p \in DOMAIN cache :
    ExportsRight(p, cache[p]) /\ \A i \in 1..Len(program[p].body) : StatementFine(program, p, i)

ScopesRight == \A i \in 1..Len(stack) : ScopeRight(stack[i])

\* What is loaded is reached from the main file, and from all that waits for it.
ChainInv ==
  /\ \A i \in 1..Len(stack) : stack[i].path \in Reached(program, {Main})
  /\ \A j \in 1..Len(stack) : \A i \in 1..(j - 1) :
       stack[j].path \in Reached(program, Targets(program, stack[i].path))

NoneFailed == WellFormed(program) => \A i \in 1..Len(stack) : ~stack[i].failed

Verdict ==
  /\ result \in {"pending", "rejected", "unlowered", "linked"}
  /\ result = "rejected" => ~WellFormed(program)
  /\ result \in {"unlowered", "linked"} => WellFormed(program)

NamesInv == CacheRight /\ ScopesRight /\ ChainInv /\ NoneFailed /\ Verdict

\* A well-formed program has no errors where the loader has been.
LEMMA FineWhere ==
  ASSUME LoaderInv, ChainInv, WellFormed(program), NEW k \in 1..Len(stack), NEW c, c = stack[k], c.next <= Len(c.body)
  PROVE  StatementFine(program, c.path, c.next)
<1>1. c.path \in Reached(program, {Main}) /\ IsChecker(c)
  BY DEF ChainInv, LoaderInv, StackInv
<1>2. c.next \in 1..Len(program[c.path].body)
  BY <1>1, ProgramsReadable DEF LoaderInv, IsChecker, Readable
<1> QED BY <1>1, <1>2 DEF WellFormed

\* The stack after a step that only changes its last checker, or drops one above it.
LEMMA NamesKept ==
  ASSUME LoaderInv, ChainInv, ScopesRight, NoneFailed, program' = program,
         NEW n \in 1..Len(stack), Len(stack') = n, NEW d, stack'[n] = d, d.path = stack[n].path,
         \A i \in 1..(n - 1) : stack'[i] = stack[i],
         ScopeRight(d), WellFormed(program) => ~d.failed
  PROVE  ScopesRight' /\ ChainInv' /\ NoneFailed'
<1>0. PICK m : m = Len(stack)
  OBVIOUS
<1>1. m \in Nat
  BY <1>0 DEF LoaderInv, StackInv
<1>2. \A i \in 1..n : i \in 1..m /\ (i \in 1..(n - 1) \/ i = n)
  BY <1>0, <1>1
<1>3. \A i \in 1..n : stack'[i].path = stack[i].path
  BY <1>2
<1>4. \A i \in 1..n : ScopeRight(stack'[i]) /\ (WellFormed(program) => ~stack'[i].failed)
  BY <1>0, <1>2 DEF ScopesRight, NoneFailed
<1>5. ScopesRight'
  BY <1>4 DEF ScopesRight, ScopeRight, Complete
<1>6. NoneFailed'
  BY <1>4 DEF NoneFailed
<1>7. ChainInv'
  <2>1. \A i \in 1..n : stack'[i].path \in Reached(program, {Main})
    BY <1>0, <1>2, <1>3 DEF ChainInv
  <2>2. ASSUME NEW j \in 1..n, NEW i \in 1..(j - 1)
        PROVE  stack'[j].path \in Reached(program, Targets(program, stack'[i].path))
    <3>1. i \in 1..n /\ j \in 1..m
      BY <1>0, <1>1
    <3> QED BY <1>0, <1>3, <3>1 DEF ChainInv
  <2> QED BY <2>1, <2>2 DEF ChainInv
<1> QED BY <1>5, <1>6, <1>7

LEMMA TopKept ==
  ASSUME LoaderInv, NamesInv, stack # <<>>, NEW d, d.path = top.path, stack' = WithTop(d),
         UNCHANGED <<program, cache, result>>, ScopeRight(d), WellFormed(program) => ~d.failed
  PROVE  NamesInv'
<1>1. stack \in Seq(Range(stack)) /\ Len(stack) \in Nat \ {0} /\ top = stack[Len(stack)]
  BY TopIs DEF LoaderInv, StackInv
<1>2. LET t == [stack EXCEPT ![Len(stack)] = d]
      IN /\ t \in Seq(Range(t)) /\ Len(t) = Len(stack) /\ t[Len(stack)] = d
         /\ \A i \in 1..(Len(stack) - 1) : t[i] = stack[i]
  BY <1>1, Replaced
<1>3. PICK n \in 1..Len(stack) : n = Len(stack)
  BY <1>1
<1>4. /\ Len(stack') = n /\ stack'[n] = d /\ d.path = stack[n].path
      /\ \A i \in 1..(n - 1) : stack'[i] = stack[i]
  BY <1>1, <1>2, <1>3 DEF WithTop
<1>5. ScopesRight' /\ ChainInv' /\ NoneFailed'
  BY <1>4, NamesKept DEF NamesInv
<1>6. CacheRight' /\ Verdict'
  BY DEF NamesInv, CacheRight, Verdict, ExportsRight, Complete
<1> QED BY <1>5, <1>6 DEF NamesInv

LEMMA ImporterKept ==
  ASSUME LoaderInv, NamesInv, Finished, Len(stack) > 1, NEW d, d.path = stack[Len(stack) - 1].path,
         stack' = Importer(d), UNCHANGED <<program, result>>, CacheRight', ScopeRight(d),
         WellFormed(program) => ~d.failed
  PROVE  NamesInv'
<1>1. stack \in Seq(Range(stack)) /\ Len(stack) \in Nat
  BY TopIs DEF LoaderInv, StackInv, Finished
<1>2. LET t == [SubSeq(stack, 1, Len(stack) - 1) EXCEPT ![Len(stack) - 1] = d]
      IN /\ t \in Seq(Range(t)) /\ Len(t) = Len(stack) - 1 /\ t[Len(stack) - 1] = d
         /\ \A i \in 1..(Len(stack) - 2) : t[i] = stack[i]
  BY <1>1, Popped
<1>3. PICK n \in 1..Len(stack) : n = Len(stack) - 1 /\ Len(stack) - 2 = n - 1
  <2>1. PICK m \in Nat : m = Len(stack)
    BY <1>1
  <2>2. m - 1 \in 1..m /\ m - 2 = (m - 1) - 1
    BY <2>1
  <2> QED BY <2>1, <2>2
<1>4. /\ Len(stack') = n /\ stack'[n] = d /\ d.path = stack[n].path
      /\ \A i \in 1..(n - 1) : stack'[i] = stack[i]
  BY <1>2, <1>3 DEF Importer
<1>5. ScopesRight' /\ ChainInv' /\ NoneFailed'
  BY <1>4, NamesKept DEF NamesInv
<1>6. Verdict'
  BY DEF NamesInv, Verdict
<1> QED BY <1>5, <1>6 DEF NamesInv

LEMMA CachedNames == ASSUME LoaderInv, NamesInv, NEW path, UseCached(path) PROVE NamesInv'
<1>1. /\ stack # <<>> /\ top.next <= Len(top.body) /\ top.body[top.next].k = "use" /\ path = top.body[top.next].path
      /\ path \in DOMAIN cache /\ UNCHANGED <<program, cache, result>>
  BY DEF UseCached, AtUse
<1>2. PICK c, exports : c = top /\ exports = cache[path]
  OBVIOUS
<1>3. PICK d : d = apply_imports(c, exports)
  OBVIOUS
<1>4. IsChecker(c) /\ program \in Programs /\ Len(stack) \in 1..Len(stack) /\ c = stack[Len(stack)]
  BY <1>1, <1>2, TopIs DEF LoaderInv
<1>5. ScopeRight(c) /\ (WellFormed(program) => ~c.failed)
  BY <1>4 DEF NamesInv, ScopesRight, NoneFailed
<1>6. ExportsRight(c.body[c.next].path, exports)
  BY <1>1, <1>2 DEF NamesInv, CacheRight
<1>7. c.next <= Len(c.body) /\ c.body[c.next].k = "use"
  BY <1>1, <1>2
<1>8. ScopeRight(d) /\ (d.failed => c.failed \/ ~StatementFine(program, c.path, c.next))
  BY <1>3, <1>4, <1>5, <1>6, <1>7, ImportRight
<1>9. WellFormed(program) => ~d.failed
  BY <1>4, <1>5, <1>7, <1>8, FineWhere DEF NamesInv
<1>10. d.path = top.path /\ stack' = WithTop(d)
  <2>1. d.path = c.path
    BY <1>3, <1>4, <1>7, ImportApplied
  <2> QED BY <1>2, <1>3, <2>1 DEF UseCached
<1> QED BY <1>1, <1>8, <1>9, <1>10, TopKept

LEMMA StatementNames == ASSUME LoaderInv, NamesInv, CheckStatement PROVE NamesInv'
<1>1. /\ stack # <<>> /\ top.next <= Len(top.body) /\ UNCHANGED <<program, cache, result>>
  BY DEF CheckStatement
<1>2. PICK c, s : c = top /\ s = c.body[c.next]
  OBVIOUS
<1>3. PICK known : known = Brought(c.path, s, c.scope)
  OBVIOUS
<1>4. PICK scope : scope = Over(known, c.scope)
  OBVIOUS
<1>5. PICK d : d = Past(c, scope, ~(NamesOf(s) \subseteq DOMAIN scope))
  OBVIOUS
<1>6. s.k # "use" /\ stack' = WithTop(d)
  BY <1>2, <1>3, <1>4, <1>5 DEF CheckStatement, Brought, Past
<1>7. IsChecker(c) /\ program \in Programs /\ Len(stack) \in 1..Len(stack) /\ c = stack[Len(stack)] /\ c.next <= Len(c.body)
  BY <1>1, <1>2, TopIs DEF LoaderInv
<1>8. ScopeRight(c) /\ (WellFormed(program) => ~c.failed)
  BY <1>7 DEF NamesInv, ScopesRight, NoneFailed
<1>9. ScopeRight(d) /\ (d.failed => c.failed \/ ~StatementFine(program, c.path, c.next))
  BY <1>2, <1>3, <1>4, <1>5, <1>6, <1>7, <1>8, StatementRight
<1>10. WellFormed(program) => ~d.failed
  BY <1>7, <1>8, <1>9, FineWhere DEF NamesInv
<1>11. d.path = top.path
  <2>1. \E bad : d = Past(c, scope, bad)
    BY <1>5
  <2> QED BY <1>2, <1>7, <2>1 DEF Past, IsChecker
<1> QED BY <1>1, <1>6, <1>9, <1>10, <1>11, TopKept

\* Where the top checker imports something that is being loaded, files go in a circle.
LEMMA CircleFound ==
  ASSUME LoaderInv, ChainInv, NEW path, AtUse(path), path \in in_progress
  PROVE  ~WellFormed(program)
<1>1. stack # <<>> /\ IsChecker(top) /\ Len(stack) \in Nat \ {0} /\ top = stack[Len(stack)]
  BY TopIs DEF AtUse, LoaderInv
<1>2. PICK n \in Nat : n = Len(stack)
  BY <1>1
<1>3. PICK j \in 2..n : path = stack[j].path
  BY <1>2 DEF LoaderInv, NoReentry
<1>4. j \in 1..n /\ n \in 1..n /\ (j = n \/ j \in 1..(n - 1))
  BY <1>1, <1>2, <1>3
<1>5. path \in Targets(program, top.path)
  <2>1. Len(top.body) \in Nat /\ DOMAIN top.body = 1..Len(top.body)
    BY <1>1, ProgramsReadable DEF LoaderInv, IsChecker, Readable
  <2>2. top.body[top.next] \in Range(top.body)
    BY <1>1, <2>1 DEF AtUse, IsChecker, Range
  <2> QED BY <1>1, <2>2 DEF AtUse, Targets, IsChecker
<1>6. path \in Reached(program, Targets(program, path))
  <2>1. CASE j = n
    BY <1>1, <1>2, <1>3, <1>5, <2>1, ReachedStarts
  <2>2. CASE j \in 1..(n - 1)
    <3>1. top.path \in Reached(program, Targets(program, path)) /\ Readable(program, top.path)
      BY <1>1, <1>2, <1>3, <1>4, <2>2 DEF ChainInv, IsChecker
    <3> QED BY <1>5, <3>1, ReachedTarget
  <2> QED BY <1>4, <2>1, <2>2
<1>7. path \in Reached(program, {Main})
  BY <1>2, <1>3, <1>4 DEF ChainInv
<1> QED BY <1>6, <1>7 DEF WellFormed

\* What the top checker imports is reached.
LEMMA ImportReached ==
  ASSUME LoaderInv, ChainInv, NEW path, AtUse(path), NEW n, n = Len(stack)
  PROVE  /\ path \in Reached(program, {Main})
         /\ \A i \in 1..n : path \in Reached(program, Targets(program, stack[i].path))
<1>1. stack # <<>> /\ IsChecker(top) /\ n \in Nat \ {0} /\ top = stack[n] /\ Readable(program, top.path)
  BY TopIs DEF AtUse, LoaderInv, IsChecker
<1>2. path \in Targets(program, top.path)
  <2>1. Len(top.body) \in Nat /\ DOMAIN top.body = 1..Len(top.body)
    BY <1>1, ProgramsReadable DEF LoaderInv, IsChecker, Readable
  <2>2. top.body[top.next] \in Range(top.body)
    BY <1>1, <2>1, SMTT(20) DEF AtUse, IsChecker, Range
  <2> QED BY <1>1, <2>2 DEF AtUse, Targets, IsChecker
<1>3. n \in 1..n
  BY <1>1
<1>4. path \in Reached(program, {Main})
  <2>1. top.path \in Reached(program, {Main})
    BY <1>1, <1>3 DEF ChainInv
  <2> QED BY <1>1, <1>2, <2>1, ReachedTarget
<1>5. ASSUME NEW i \in 1..n PROVE path \in Reached(program, Targets(program, stack[i].path))
  <2>1. CASE i = n
    <3>1. path \in Targets(program, stack[i].path)
      BY <1>1, <1>2, <2>1
    <3> QED BY <3>1, ReachedStarts
  <2>2. CASE i \in 1..(n - 1)
    <3>1. top.path \in Reached(program, Targets(program, stack[i].path))
      BY <1>1, <1>3, <2>2 DEF ChainInv
    <3> QED BY <1>1, <1>2, <3>1, ReachedTarget
  <2> QED BY <1>1, <2>1, <2>2
<1> QED BY <1>4, <1>5

LEMMA FailedRight == ASSUME NEW c, IsChecker(c), NEW d, d = Failed(c) PROVE ScopeRight(d) /\ d.path = c.path
BY DEF Failed, IsChecker, ScopeRight

LEMMA RefusedNames == ASSUME LoaderInv, NamesInv, NEW path, UseFails(path) PROVE NamesInv'
<1>1. /\ AtUse(path) /\ stack # <<>> /\ UNCHANGED <<program, cache, result>>
      /\ path \in in_progress \/ ~Readable(program, path)
  BY DEF UseFails, AtUse, Circular
<1>2. PICK c : c = top
  OBVIOUS
<1>3. PICK d : d = Failed(c)
  OBVIOUS
<1>4. IsChecker(c)
  BY <1>1, <1>2, TopIs DEF LoaderInv
<1>5. ScopeRight(d) /\ d.path = top.path
  BY <1>2, <1>3, <1>4, FailedRight
<1>6. stack' = WithTop(d)
  BY <1>2, <1>3 DEF UseFails
<1>7. ~WellFormed(program)
  <2>1. CASE path \in in_progress
    BY <1>1, <2>1, CircleFound DEF NamesInv
  <2>2. CASE ~Readable(program, path)
    <3>1. PICK n : n = Len(stack)
      OBVIOUS
    <3>2. path \in Reached(program, {Main})
      BY <1>1, <3>1, ImportReached DEF NamesInv
    <3> QED BY <2>2, <3>2 DEF WellFormed
  <2> QED BY <1>1, <2>1, <2>2
<1> QED BY <1>1, <1>5, <1>6, <1>7, TopKept

LEMMA FailedNames == ASSUME LoaderInv, NamesInv, LoadFails PROVE NamesInv'
<1>1. Finished /\ Len(stack) > 1 /\ top.failed /\ UNCHANGED <<program, cache, result>>
  BY DEF LoadFails
<1>2. PICK c : c = stack[Len(stack) - 1]
  OBVIOUS
<1>3. PICK d : d = Failed(c)
  OBVIOUS
<1>4. stack' = Importer(d)
  BY <1>2, <1>3 DEF LoadFails
<1>5. IsChecker(c)
  BY <1>1, <1>2, Importing
<1>6. ScopeRight(d) /\ d.path = stack[Len(stack) - 1].path
  BY <1>2, <1>3, <1>5, FailedRight
<1>7. ~WellFormed(program)
  <2>1. Len(stack) \in 1..Len(stack) /\ top = stack[Len(stack)]
    BY <1>1, TopIs DEF LoaderInv, Finished
  <2> QED BY <1>1, <2>1 DEF NamesInv, NoneFailed
<1>8. CacheRight'
  BY <1>1 DEF NamesInv, CacheRight, ExportsRight, Complete
<1> QED BY <1>1, <1>4, <1>6, <1>7, <1>8, ImporterKept

\* The scope a checker starts with.
LEMMA FirstScope ==
  ASSUME program \in Programs, NEW path, Readable(program, path), NEW c, c = Checker(path, program[path].body)
  PROVE  ScopeRight(c) /\ c.path = path /\ ~c.failed
<1>1. PICK body, own : body = program[path].body /\ own = {s \in Range(body) : s.k = "def"}
  OBVIOUS
<1>2. PICK defs : defs = [n \in {<<s.name>> : s \in own} |-> <<path>> \o n]
  OBVIOUS
<1>3. PICK scope : scope = Over(defs, Builtins)
  OBVIOUS
<1>4. c = [path |-> path, body |-> body, next |-> 1, failed |-> FALSE, scope |-> scope]
  BY <1>1, <1>2, <1>3 DEF Checker
<1>5. c.path = path /\ ~c.failed /\ c.next = 1 /\ c.scope = scope
  BY <1>4
<1>6. DOMAIN scope = {<<s.name>> : s \in own} \cup {<<b>> : b \in BuiltinClasses}
  <2>1. DOMAIN scope = DOMAIN defs \cup DOMAIN Builtins
    BY <1>3, OverDomain
  <2> QED BY <1>2, <2>1 DEF Builtins
<1>7. \A i \in 1..(1 - 1) : FALSE
  OBVIOUS
<1>8. Above(program, path, 1) = {s.name : s \in own} \cup BuiltinClasses
  <2>1. {program[path].body[j] : j \in 1..(1 - 1)} = {}
    BY <1>7
  <2> QED BY <1>1, <2>1 DEF Above
<1>9. First(DOMAIN scope) = Above(program, path, 1)
  <2>1. \A n : n \in DOMAIN scope <=> (\E s \in own : n = <<s.name>>) \/ \E b \in BuiltinClasses : n = <<b>>
    BY <1>6
  <2>2. \A x : x \in Above(program, path, 1) <=> (\E s \in own : x = s.name) \/ x \in BuiltinClasses
    BY <1>8
  <2>3. \A x : x \in First(DOMAIN scope) <=> \E n \in DOMAIN scope : x = n[1]
    BY DEF First
  <2>4. \A x : x \in First(DOMAIN scope) => x \in Above(program, path, 1)
    BY <2>1, <2>2, <2>3
  <2>5. ASSUME NEW x \in Above(program, path, 1) PROVE x \in First(DOMAIN scope)
    <3>1. <<x>> \in DOMAIN scope /\ <<x>>[1] = x
      BY <2>1, <2>2
    <3> QED BY <2>3, <3>1
  <2> QED BY <2>4, <2>5
<1>10. Complete(DOMAIN scope)
  <2>1. \A n \in DOMAIN scope : n = <<n[1]>> /\ (n[1] \in BuiltinClasses \/ \E s \in own : n[1] = s.name)
    BY <1>6
  <2>2. ASSUME NEW x, NEW m, MethodOf(program, x, m), <<x>> \in DOMAIN scope PROVE FALSE
    <3>1. x \notin BuiltinClasses
      BY <2>2 DEF MethodOf
    <3>2. PICK s \in own : <<x>> = <<s.name>>
      BY <1>6, <2>2, <3>1
    <3>3. x = s.name
      BY <3>2
    <3>4. s \in Called(program, x) /\ s.k = "def"
      BY <1>1, <3>3 DEF Called, Readable
    <3> QED BY <2>2, <3>4 DEF MethodOf
  <2> QED BY <2>1, <2>2 DEF Complete
<1> QED BY <1>5, <1>7, <1>9, <1>10 DEF ScopeRight

LEMMA LoadedNames == ASSUME LoaderInv, NamesInv, NEW path, UseLoads(path) PROVE NamesInv'
<1>1. /\ stack # <<>> /\ AtUse(path) /\ Readable(program, path) /\ program \in Programs
      /\ stack' = Append(stack, Checker(path, program[path].body)) /\ UNCHANGED <<program, cache, result>>
  BY DEF UseLoads, AtUse, LoaderInv
<1>2. PICK d : d = Checker(path, program[path].body)
  OBVIOUS
<1>3. ScopeRight(d) /\ d.path = path /\ ~d.failed
  BY <1>1, <1>2, FirstScope
<1>4. stack \in Seq(Range(stack))
  BY DEF LoaderInv, StackInv
<1>5. LET t == Append(stack, d)
      IN /\ t \in Seq(Range(t)) /\ Len(t) = Len(stack) + 1 /\ t[Len(stack) + 1] = d
         /\ \A i \in 1..Len(stack) : t[i] = stack[i]
  BY <1>4, Pushed
<1>6. PICK n \in Nat : n = Len(stack)
  BY <1>4
<1>7. /\ Len(stack') = n + 1 /\ stack'[n + 1] = d
      /\ \A i \in 1..n : stack'[i] = stack[i]
  BY <1>1, <1>2, <1>5, <1>6
<1>8. \A i \in 1..(n + 1) : i \in 1..n \/ i = n + 1
  BY <1>6
<1>9. /\ path \in Reached(program, {Main})
      /\ \A i \in 1..n : path \in Reached(program, Targets(program, stack[i].path))
  BY <1>1, <1>6, ImportReached DEF NamesInv
<1>10. \A i \in 1..(n + 1) : ScopeRight(stack'[i]) /\ (WellFormed(program) => ~stack'[i].failed)
  BY <1>3, <1>6, <1>7, <1>8 DEF NamesInv, ScopesRight, NoneFailed
<1>11. ScopesRight'
  BY <1>1, <1>7, <1>10 DEF ScopesRight, ScopeRight, Complete
<1>12. NoneFailed'
  BY <1>1, <1>7, <1>10 DEF NoneFailed
<1>13. ChainInv'
  <2>1. \A i \in 1..(n + 1) : stack'[i].path \in Reached(program, {Main})
    BY <1>3, <1>6, <1>7, <1>8, <1>9 DEF NamesInv, ChainInv
  <2>2. ASSUME NEW j \in 1..(n + 1), NEW i \in 1..(j - 1)
        PROVE  stack'[j].path \in Reached(program, Targets(program, stack'[i].path))
    <3>1. i \in 1..n
      BY <1>6
    <3>2. CASE j = n + 1
      BY <1>3, <1>7, <1>9, <3>1, <3>2
    <3>3. CASE j \in 1..n
      BY <1>6, <1>7, <3>1, <3>3 DEF NamesInv, ChainInv
    <3> QED BY <1>8, <3>2, <3>3
  <2> QED BY <1>1, <1>7, <2>1, <2>2 DEF ChainInv
<1>14. CacheRight' /\ Verdict'
  BY <1>1 DEF NamesInv, CacheRight, Verdict, ExportsRight, Complete
<1> QED BY <1>11, <1>12, <1>13, <1>14 DEF NamesInv

LEMMA EndedNames == ASSUME LoaderInv, NamesInv, LoadEnds PROVE NamesInv'
<1>1. Finished /\ Len(stack) > 1 /\ ~top.failed /\ UNCHANGED <<program, result>>
  BY DEF LoadEnds
<1>2. PICK t : t = top
  OBVIOUS
<1>3. PICK exports : exports = extract_exports(t.body, t.scope, cache)
  OBVIOUS
<1>4. PICK c : c = stack[Len(stack) - 1]
  OBVIOUS
<1>5. PICK d : d = apply_imports(c, exports)
  OBVIOUS
<1>6. /\ cache' = [p \in DOMAIN cache \cup {t.path} |-> IF p = t.path THEN exports ELSE cache[p]]
      /\ stack' = Importer(d)
  BY <1>2, <1>3, <1>4, <1>5 DEF LoadEnds
<1>7. PICK n \in Nat : n = Len(stack)
  BY <1>1, TopIs DEF LoaderInv, Finished
<1>8. n \in 1..n /\ n - 1 \in 1..n /\ n - 1 \in 1..(n - 1) /\ (n - 1) + 1 = n
  BY <1>1, <1>7
<1>9. /\ IsChecker(t) /\ ImportsLoaded(t, DOMAIN cache) /\ t.next > Len(t.body) /\ ~t.failed
      /\ t = stack[n] /\ ScopeRight(t) /\ program \in Programs
  BY <1>1, <1>2, <1>7, <1>8, TopIs DEF LoaderInv, Finished, NamesInv, ScopesRight
<1>10. ExportsRight(t.path, exports)
  <2>1. PICK loaded : loaded = cache
    OBVIOUS
  <2>2. \A p \in DOMAIN loaded : ExportsRight(p, loaded[p])
    BY <2>1 DEF NamesInv, CacheRight
  <2> QED BY <1>3, <1>9, <2>1, <2>2, FileExports
<1>11. \A i \in 1..Len(program[t.path].body) : StatementFine(program, t.path, i)
  <2>1. t.body = program[t.path].body /\ t.next = Len(t.body) + 1 /\ Len(t.body) \in Nat
    BY <1>9, ProgramsReadable DEF IsChecker, Readable
  <2>2. \A i \in 1..Len(t.body) : i \in 1..(t.next - 1)
    BY <2>1
  <2> QED BY <1>9, <2>1, <2>2 DEF ScopeRight
<1>12. CacheRight'
  <2>1. \A p \in DOMAIN cache \cup {t.path} :
          ExportsRight(p, cache'[p]) /\ \A i \in 1..Len(program[p].body) : StatementFine(program, p, i)
    BY <1>6, <1>10, <1>11 DEF NamesInv, CacheRight
  <2>2. DOMAIN cache' = DOMAIN cache \cup {t.path}
    BY <1>6
  <2> QED BY <1>1, <2>1, <2>2 DEF CacheRight, ExportsRight, Complete
<1>13. IsChecker(c) /\ c.next <= Len(c.body)
  BY <1>1, <1>4, Importing
<1>14. c.body[c.next].k = "use" /\ c.body[c.next].path = t.path
  <2>1. WaitsFor(stack[n - 1], stack[(n - 1) + 1].path)
    BY <1>7, <1>8 DEF LoaderInv, StackInv
  <2> QED BY <1>4, <1>7, <1>8, <1>9, <2>1 DEF WaitsFor
<1>15. ScopeRight(c) /\ (WellFormed(program) => ~c.failed)
  BY <1>4, <1>7, <1>8 DEF NamesInv, ScopesRight, NoneFailed
<1>16. ScopeRight(d) /\ (d.failed => c.failed \/ ~StatementFine(program, c.path, c.next))
  <2>1. ExportsRight(c.body[c.next].path, exports)
    BY <1>10, <1>14
  <2> QED BY <1>5, <1>9, <1>13, <1>14, <1>15, <2>1, ImportRight
<1>17. WellFormed(program) => ~d.failed
  <2>1. PICK k \in 1..Len(stack) : c = stack[k]
    BY <1>4, <1>7, <1>8
  <2> QED BY <1>13, <1>15, <1>16, <2>1, FineWhere DEF NamesInv
<1>18. d.path = stack[Len(stack) - 1].path
  <2>1. d.path = c.path
    BY <1>5, <1>9, <1>13, ImportApplied
  <2> QED BY <1>4, <2>1
<1> QED BY <1>1, <1>6, <1>12, <1>16, <1>17, <1>18, ImporterKept

\* When the main file is done, every file that is reached is in the cache and fine.
LEMMA LinkedFine ==
  ASSUME LoaderInv, NamesInv, Finished, Len(stack) = 1, ~top.failed
  PROVE  WellFormed(program)
<1>1. /\ top = stack[1] /\ stack[1].path = Main /\ IsChecker(top) /\ ScopeRight(top) /\ top.next > Len(top.body)
      /\ program \in Programs
  <2>1. 1 \in 1..Len(stack) /\ top = stack[1] /\ stack # <<>>
    BY DEF top, Finished
  <2> QED BY <2>1 DEF Finished, LoaderInv, StackInv, NamesInv, ScopesRight
<1>2. Grounded(DOMAIN cache) /\ Targets(program, Main) \subseteq DOMAIN cache /\ Readable(program, Main)
  BY <1>1, FinishedTargets DEF LoaderInv, IsChecker
<1>3. PICK ps : ps = DOMAIN cache \cup {Main}
  OBVIOUS
<1>4. Grounded(ps)
  <2>1. CASE Main \in DOMAIN cache
    <3>1. ps = DOMAIN cache
      BY <1>3, <2>1
    <3> QED BY <1>2, <3>1
  <2>2. CASE Main \notin DOMAIN cache
    BY <1>2, <1>3, <2>2, GroundedGrows
  <2> QED BY <2>1, <2>2
<1>5. Reached(program, {Main}) \subseteq ps
  <2>1. {Main} \subseteq ps /\ \A p \in ps : Readable(program, p) => Targets(program, p) \subseteq ps
    BY <1>3, <1>4 DEF Grounded
  <2> QED BY <2>1, ReachedLeast
<1>6. \A p \in ps : Readable(program, p) /\ p \notin Reached(program, Targets(program, p))
  BY <1>4, GroundedAcyclic DEF Grounded
<1>7. \A i \in 1..Len(program[Main].body) : StatementFine(program, Main, i)
  <2>1. top.body = program[Main].body /\ top.next = Len(top.body) + 1 /\ Len(top.body) \in Nat
    BY <1>1, ProgramsReadable DEF IsChecker, Readable
  <2>2. \A i \in 1..Len(top.body) : i \in 1..(top.next - 1)
    BY <2>1
  <2> QED BY <1>1, <2>1, <2>2 DEF ScopeRight
<1>8. \A p \in ps : \A i \in 1..Len(program[p].body) : StatementFine(program, p, i)
  BY <1>3, <1>7 DEF NamesInv, CacheRight
<1> QED BY <1>5, <1>6, <1>8 DEF WellFormed

LEMMA EndNames == ASSUME LoaderInv, NamesInv, Reject \/ Link PROVE NamesInv'
<1>1. Finished /\ Len(stack) = 1 /\ stack' = <<>> /\ UNCHANGED <<program, cache>>
  BY DEF Reject, Link
<1>2. ScopesRight' /\ ChainInv' /\ NoneFailed' /\ CacheRight'
  <2>1. \A i \in 1..Len(stack') : FALSE
    BY <1>1
  <2>2. ScopesRight' /\ ChainInv' /\ NoneFailed'
    BY <2>1 DEF ScopesRight, ChainInv, NoneFailed
  <2> QED BY <1>1, <2>2 DEF NamesInv, CacheRight, ExportsRight, Complete
<1>3. Verdict'
  <2>1. CASE Reject
    <3>1. top = stack[1] /\ 1 \in 1..Len(stack)
      BY <1>1 DEF top
    <3>2. ~WellFormed(program)
      BY <2>1, <3>1 DEF Reject, NamesInv, NoneFailed
    <3>3. result' = "rejected"
      BY <2>1 DEF Reject
    <3> QED BY <1>1, <3>2, <3>3 DEF Verdict
  <2>2. CASE Link
    <3>1. WellFormed(program)
      BY <1>1, <2>2, LinkedFine DEF Link
    <3>2. result' \in {"unlowered", "linked"}
      BY <2>2 DEF Link
    <3> QED BY <1>1, <3>1, <3>2 DEF Verdict
  <2> QED BY <2>1, <2>2
<1> QED BY <1>2, <1>3 DEF NamesInv

LEMMA NamesInvariant == Spec => []NamesInv
<1>1. Init => NamesInv
  <2> SUFFICES ASSUME Init PROVE NamesInv
    OBVIOUS
  <2>1. PICK c : c = Checker(Main, program[Main].body)
    OBVIOUS
  <2>2. program \in Programs /\ stack = <<c>> /\ DOMAIN cache = {} /\ result = "pending"
    BY <2>1 DEF Init
  <2>3. Readable(program, Main)
    BY <2>2, ProgramsReadable DEF Readable
  <2>4. ScopeRight(c) /\ c.path = Main /\ ~c.failed
    BY <2>1, <2>2, <2>3, FirstScope
  <2>5. Len(stack) = 1 /\ stack[1] = c /\ \A j \in 1..1 : j = 1 /\ \A i \in 1..(j - 1) : FALSE
    BY <2>2
  <2>6. Main \in Reached(program, {Main})
    BY ReachedStarts
  <2> QED BY <2>2, <2>4, <2>5, <2>6 DEF NamesInv, CacheRight, ScopesRight, ChainInv, NoneFailed, Verdict
<1>2. LoaderInv /\ NamesInv /\ [Next]_vars => NamesInv'
  <2> SUFFICES ASSUME LoaderInv, NamesInv, [Next]_vars PROVE NamesInv'
    OBVIOUS
  <2>1. ASSUME NEW path \in Paths(program), UseCached(path) \/ UseFails(path) \/ UseLoads(path)
        PROVE  NamesInv'
    BY <2>1, CachedNames, RefusedNames, LoadedNames
  <2>2. CASE CheckStatement
    BY <2>2, StatementNames
  <2>3. CASE LoadFails
    BY <2>3, FailedNames
  <2>4. CASE LoadEnds
    BY <2>4, EndedNames
  <2>5. CASE Reject \/ Link
    BY <2>5, EndNames
  <2>6. CASE UNCHANGED vars
    BY <2>6 DEF vars, NamesInv, CacheRight, ScopesRight, ChainInv, NoneFailed, Verdict, ScopeRight, ExportsRight, Complete
  <2> QED BY <2>1, <2>2, <2>3, <2>4, <2>5, <2>6 DEF Next
<1> QED BY <1>1, <1>2, LoaderInvariant, PTL DEF Spec

-----------------------------------------------------------------------------
(* The theorems *)

\* A module is never loaded while it is being loaded, and it is marked as being loaded
\* exactly as long as it is, however its import ends (module_loader.rs:113-170).
THEOREM NeverReentered == Spec => []NoReentry
<1>1. LoaderInv => NoReentry
  BY DEF LoaderInv
<1> QED BY <1>1, LoaderInvariant, PTL

\* The exports of a module are cached at most once and stay what they are: every import
\* of it gets the same names (module_loader.rs:113-123, 157-165).
THEOREM CachedOnceForAll == Spec => ExportsKept
<1>1. LoaderInv /\ [Next]_vars => [\A p \in DOMAIN cache : p \in DOMAIN cache' /\ cache'[p] = cache[p]]_vars
  <2> SUFFICES ASSUME LoaderInv, [Next]_vars
               PROVE  \A p \in DOMAIN cache : p \in DOMAIN cache' /\ cache'[p] = cache[p]
    OBVIOUS
  <2>1. CASE LoadEnds
    <3>1. PICK exports : cache' = [p \in DOMAIN cache \cup {top.path} |-> IF p = top.path THEN exports ELSE cache[p]]
      BY <2>1 DEF LoadEnds
    <3>2. top.path \notin DOMAIN cache
      BY <2>1, TopInProgress DEF LoaderInv, LoadEnds
    <3> QED BY <3>1, <3>2
  <2>2. CASE UNCHANGED cache
    BY <2>2
  <2> QED BY <2>1, <2>2 DEF Next, UseCached, UseFails, UseLoads, CheckStatement, LoadFails, Reject, Link, vars
<1> QED BY <1>1, LoaderInvariant, PTL DEF Spec, ExportsKept

\* A program that gets through the loader needs only files that can be read, and no
\* import of them goes in a circle, the main file included (module_loader.rs:125-145).
THEOREM AcceptedIsGrounded == Spec => []AcceptsGrounded
<1>1. LoaderInv => AcceptsGrounded
  <2> SUFFICES ASSUME LoaderInv, result \in {"linked", "unlowered"}
               PROVE  \E ps \in SUBSET DOMAIN program : Main \in ps /\ Grounded(ps)
    BY DEF AcceptsGrounded
  <2>1. Grounded(DOMAIN cache) /\ Targets(program, Main) \subseteq DOMAIN cache /\ Readable(program, Main)
    BY ProgramsReadable DEF LoaderInv, Readable
  <2>2. Grounded(DOMAIN cache \cup {Main})
    <3>1. CASE Main \in DOMAIN cache
      <4>1. DOMAIN cache \cup {Main} = DOMAIN cache
        BY <3>1
      <4> QED BY <2>1, <4>1
    <3>2. CASE Main \notin DOMAIN cache
      BY <2>1, <3>2, GroundedGrows
    <3> QED BY <3>1, <3>2
  <2>3. DOMAIN cache \cup {Main} \in SUBSET DOMAIN program
    BY <2>2 DEF Grounded, Readable
  <2> QED BY <2>2, <2>3
<1> QED BY <1>1, LoaderInvariant, PTL

\* And no import of such a program is refused: what is in progress below an import was
\* needed by it, so a circle that is found is one (module_loader.rs:113-154).
THEOREM OnlyBrokenRefused == Spec => RefusesOnlyBroken
<1>1. LoaderInv /\ NeededOnly /\ [Next]_vars =>
        [\A path \in Paths(program) :
           UseFails(path) => ~\E ps \in SUBSET DOMAIN program : Main \in ps /\ Grounded(ps)]_vars
  <2> SUFFICES ASSUME LoaderInv, NeededOnly, NEW path, UseFails(path),
                      NEW ps \in SUBSET DOMAIN program, Main \in ps, Grounded(ps)
               PROVE  FALSE
    OBVIOUS
  <2>1. AtUse(path) /\ \A i \in 1..Len(stack) : stack[i].path \in ps
    BY DEF UseFails, NeededOnly
  <2>2. path \in Targets(program, top.path) /\ path \in ps
    BY <2>1, ImportNeeded
  <2>3. path \in in_progress
    BY <2>2 DEF UseFails, Circular, Grounded
  <2>4. stack # <<>> /\ Len(stack) \in Nat /\ top = stack[Len(stack)]
    BY <2>1, TopIs DEF AtUse, LoaderInv
  <2>5. PICK j \in 2..Len(stack) : path = stack[j].path
    BY <2>3 DEF LoaderInv, NoReentry
  <2>6. PICK n : n = Len(stack)
    OBVIOUS
  <2> DEFINE ring == {stack[i].path : i \in j..n}
  <2>7. \A i \in j..n : i \in 1..n /\ (i = n \/ (i \in 1..(n - 1) /\ i + 1 \in j..n))
    BY <2>6, <2>4, <2>5
  <2>8. j \in j..n
    BY <2>6, <2>4, <2>5
  <2>9. ring \in SUBSET ps /\ ring # {}
    BY <2>6, <2>1, <2>7, <2>8
  <2>10. PICK i \in j..n : Targets(program, stack[i].path) \cap ring = {}
    BY <2>9 DEF Grounded
  <2>11. CASE i = n
    BY <2>6, <2>2, <2>4, <2>5, <2>10, <2>8, <2>11
  <2>12. CASE i \in 1..(n - 1) /\ i + 1 \in j..n
    <3>1. PICK c : c = stack[i]
      OBVIOUS
    <3>2. IsChecker(c) /\ WaitsFor(c, stack[i + 1].path)
      BY <2>6, <2>7, <2>12, <3>1 DEF LoaderInv, StackInv
    <3>3. DOMAIN c.body = 1..Len(c.body) /\ Len(c.body) \in Nat
      BY <3>2, ProgramsReadable DEF LoaderInv, IsChecker, Readable
    <3>4. c.body[c.next] \in Range(c.body)
      BY <3>2, <3>3 DEF WaitsFor, IsChecker, Range
    <3>5. stack[i + 1].path \in Targets(program, c.path)
      BY <3>2, <3>4 DEF WaitsFor, Targets, IsChecker
    <3> QED BY <2>10, <2>12, <3>1, <3>5
  <2> QED BY <2>7, <2>11, <2>12
<1> QED BY <1>1, LoaderInvariant, NeededInvariant, PTL DEF Spec, RefusesOnlyBroken

\* For every set of programs: what the loader rejects has a missing or unreadable file, a
\* circle of imports or a name that is not visible where it is used, and all other
\* programs get through, in whatever order modules are loaded, cached and loaded again
\* (module_loader.rs:108-170, typechecker.rs:498-566).
THEOREM AcceptsWellFormed == Spec => []AcceptsExactly
<1>1. NamesInv => AcceptsExactly
  BY DEF NamesInv, Verdict, AcceptsExactly
<1> QED BY <1>1, NamesInvariant, PTL

-----------------------------------------------------------------------------
(* Merging: how many rows are new *)

\* There are finitely many new rows; how many grows by one with each row that is not known.
LEMMA RowsNat ==
  ASSUME NEW n \in Nat, NEW known
  PROVE  IsFiniteSet((1..n) \ known) /\ NewRows(n, known) \in Nat /\ NewRows(n, known) = Cardinality((1..n) \ known)
<1>1. IsFiniteSet(1..n)
  BY FS_Interval
<1>2. IsFiniteSet((1..n) \ known)
  BY <1>1, FS_Difference
<1> QED BY <1>2, FS_CardinalityType DEF NewRows

LEMMA RowsStep ==
  ASSUME NEW n \in Nat, NEW known
  PROVE  NewRows(n + 1, known) = IF n + 1 \in known THEN NewRows(n, known) ELSE NewRows(n, known) + 1
<1>1. CASE n + 1 \in known
  <2>1. (1..(n + 1)) \ known = (1..n) \ known
    BY <1>1
  <2> QED BY <1>1, <2>1 DEF NewRows
<1>2. CASE n + 1 \notin known
  <2>1. (1..(n + 1)) \ known = ((1..n) \ known) \cup {n + 1} /\ n + 1 \notin (1..n) \ known
    BY <1>2
  <2> QED BY <1>2, <2>1, RowsNat, FS_AddElement DEF NewRows
<1> QED BY <1>1, <1>2

LEMMA RowsGrow ==
  ASSUME NEW i \in Nat, NEW j \in Nat, i <= j, NEW known
  PROVE  NewRows(i, known) <= NewRows(j, known)
<1>1. (1..i) \ known \in SUBSET ((1..j) \ known)
  OBVIOUS
<1>2. Cardinality((1..i) \ known) <= Cardinality((1..j) \ known)
  BY <1>1, RowsNat, FS_Subset
<1> QED BY <1>2, RowsNat

LEMMA RowsStrict ==
  ASSUME NEW i \in Nat, NEW j \in Nat, i < j, NEW known, j \notin known
  PROVE  NewRows(i, known) < NewRows(j, known)
<1>1. PICK p \in Nat : i <= p /\ p + 1 = j
  BY j - 1 \in Nat
<1>2. NewRows(i, known) <= NewRows(p, known)
  BY <1>1, RowsGrow
<1>3. NewRows(p + 1, known) = NewRows(p, known) + 1
  BY <1>1, RowsStep
<1>4. NewRows(i, known) \in Nat /\ NewRows(p, known) \in Nat /\ NewRows(j, known) = NewRows(p, known) + 1
  BY <1>1, <1>3, RowsNat
<1> QED BY <1>2, <1>4

\* Every number up to that of all new rows is the number of some.
LEMMA RowsRanked ==
  ASSUME NEW n \in Nat, NEW known, NEW k \in 1..NewRows(n, known)
  PROVE  \E i \in (1..n) \ known : NewRows(i, known) = k
<1> DEFINE D == (1..n) \ known
           m == NewRows(n, known)
           f == [i \in D |-> NewRows(i, known)]
<1>1. m \in Nat /\ IsFiniteSet(D) /\ m = Cardinality(D)
  BY RowsNat
<1>2. ASSUME NEW i \in D PROVE f[i] \in 1..m
  <2>1. i \in Nat /\ i <= n /\ i \notin known
    OBVIOUS
  <2>0. PICK p \in Nat : p + 1 = i
    BY i - 1 \in Nat
  <2>2. NewRows(i, known) = NewRows(p, known) + 1 /\ NewRows(p, known) \in Nat
    BY <2>0, <2>1, RowsStep, RowsNat
  <2>3. NewRows(i, known) <= m
    BY <2>1, RowsGrow
  <2> QED BY <1>1, <2>2, <2>3
<1>3. ASSUME NEW i \in D, NEW j \in D, f[i] = f[j] PROVE i = j
  <2>1. i \in Nat /\ j \in Nat /\ i \notin known /\ j \notin known
    OBVIOUS
  <2>2. NewRows(i, known) \in Nat /\ NewRows(j, known) \in Nat /\ NewRows(i, known) = NewRows(j, known)
    BY <1>3, <2>1, RowsNat
  <2>3. ~(i < j) /\ ~(j < i)
    BY <2>1, <2>2, RowsStrict
  <2> QED BY <2>1, <2>3
<1>4. f \in [D -> 1..m]
  BY <1>2
<1> HIDE DEF D, m
<1>5. f \in Injection(D, 1..m)
  BY <1>3, <1>4 DEF Injection, IsInjective
<1>6. IsFiniteSet(1..m) /\ Cardinality(1..m) = m
  BY <1>1, FS_Interval
<1>7. f \in Surjection(D, 1..m)
  BY <1>1, <1>5, <1>6, FS_Injection
<1>8. \E i \in D : f[i] = k
  BY <1>7 DEF Surjection, m
<1> QED BY <1>8 DEF D, m

\* NewRow lists the rows that are not known, each once, in order.
LEMMA NewRowRight ==
  ASSUME NEW n \in Nat, NEW known, NEW row, row = NewRow(n, known), NEW m, m = NewRows(n, known)
  PROVE  /\ m \in Nat
         /\ row \in [1..m -> (1..n) \ known]
         /\ \A k \in 1..m : NewRows(row[k], known) = k
         /\ \A i \in (1..n) \ known : NewRows(i, known) \in 1..m /\ row[NewRows(i, known)] = i
<1>1. m \in Nat
  BY RowsNat
<1>2. \A k \in 1..m : row[k] \in (1..n) \ known /\ NewRows(row[k], known) = k
  BY RowsRanked DEF NewRow
<1>3. ASSUME NEW i \in (1..n) \ known PROVE NewRows(i, known) \in 1..m /\ row[NewRows(i, known)] = i
  <2>1. i \in Nat /\ i <= n /\ i \notin known
    OBVIOUS
  <2>0. PICK p \in Nat : p + 1 = i
    BY i - 1 \in Nat
  <2>2. NewRows(i, known) = NewRows(p, known) + 1 /\ NewRows(p, known) \in Nat
    BY <2>0, <2>1, RowsStep, RowsNat
  <2>3. NewRows(i, known) <= m
    BY <2>1, RowsGrow
  <2>4. NewRows(i, known) \in 1..m
    BY <1>1, <2>2, <2>3
  <2>5. PICK j : j = row[NewRows(i, known)]
    OBVIOUS
  <2>6. j \in (1..n) \ known /\ NewRows(j, known) = NewRows(i, known)
    BY <1>2, <2>4, <2>5
  <2>7. j \in Nat /\ j \notin known
    BY <2>6
  <2>8. ~(i < j) /\ ~(j < i)
    BY <2>1, <2>2, <2>6, <2>7, RowsStrict, RowsNat
  <2> QED BY <2>1, <2>4, <2>5, <2>7, <2>8
<1>4. row \in [1..m -> (1..n) \ known]
  BY <1>2 DEF NewRow
<1> QED BY <1>1, <1>2, <1>3, <1>4

-----------------------------------------------------------------------------
(* Merging: what becomes of rows, references and names *)

LowererFields == {"functions", "classes", "function_names", "class_names", "next_function", "next_class", "failed"}

\* What merging does with a function and with a class, and what it adds.
MovedRow(f, fr, cr, fo, co) == [f EXCEPT !.refs = remap_stmts_with(@, fr, cr, fo, co)]
MovedClass(c, cr, co) == [c EXCEPT !.id = resolve_class(cr, co, @)]
NewFunctions(functions, row, fr, cr, fo, co) == [k \in DOMAIN row |-> MovedRow(functions[row[k]], fr, cr, fo, co)]
NewClasses(classes, row, cr, co) == [k \in DOMAIN row |-> MovedClass(classes[row[k]], cr, co)]
NewNames(names, fr, fo) == [n \in DOMAIN names |-> resolve_func(fr, fo, names[n])]
NewClassNames(names, cr, co) == [n \in DOMAIN names |-> resolve_class(cr, co, names[n])]

MergedParts(R, L, d, known, kc, fr, cr) ==
  /\ DOMAIN R = LowererFields
  /\ R.functions = L.functions \o NewFunctions(d.functions, NewRow(Len(d.functions), known), fr, cr, Len(L.functions), Len(L.classes))
  /\ R.classes = L.classes \o NewClasses(d.classes, NewRow(Len(d.classes), kc), cr, Len(L.classes))
  /\ R.function_names = Over(L.function_names, NewNames(d.function_names, fr, Len(L.functions)))
  /\ R.class_names = Over(L.class_names, NewClassNames(d.class_names, cr, Len(L.classes)))

LEMMA MergedFields ==
  ASSUME NEW L, DOMAIN L = LowererFields, NEW d, NEW known, NEW kc, NEW fr, NEW cr
  PROVE  MergedParts(Merged(L, d, known, kc, fr, cr), L, d, known, kc, fr, cr)
<1>1. DOMAIN Merged(L, d, known, kc, fr, cr) = LowererFields
  BY DEF Merged, LowererFields
<1>2. Merged(L, d, known, kc, fr, cr).functions =
              L.functions \o NewFunctions(d.functions, NewRow(Len(d.functions), known), fr, cr, Len(L.functions), Len(L.classes))
  BY DEF Merged, LowererFields, NewFunctions, MovedRow
<1>3. Merged(L, d, known, kc, fr, cr).classes = L.classes \o NewClasses(d.classes, NewRow(Len(d.classes), kc), cr, Len(L.classes))
  BY DEF Merged, LowererFields, NewClasses, MovedClass
<1>4. Merged(L, d, known, kc, fr, cr).function_names = Over(L.function_names, NewNames(d.function_names, fr, Len(L.functions)))
  BY DEF Merged, LowererFields, NewNames
<1>5. Merged(L, d, known, kc, fr, cr).class_names = Over(L.class_names, NewClassNames(d.class_names, cr, Len(L.classes)))
  BY DEF Merged, LowererFields, NewClassNames
<1> QED BY <1>1, <1>2, <1>3, <1>4, <1>5 DEF MergedParts

AddedFunctions(L, d) ==
  NewFunctions(d.functions, NewRow(Len(d.functions), KnownFunctions(L, d)), func_remap(L, d, KnownFunctions(L, d)),
               class_remap(L, d, KnownClasses(L, d)), Len(L.functions), Len(L.classes))
AddedClasses(L, d) ==
  NewClasses(d.classes, NewRow(Len(d.classes), KnownClasses(L, d)), class_remap(L, d, KnownClasses(L, d)), Len(L.classes))
AddedNames(L, d) == NewNames(d.function_names, func_remap(L, d, KnownFunctions(L, d)), Len(L.functions))
AddedClassNames(L, d) == NewClassNames(d.class_names, class_remap(L, d, KnownClasses(L, d)), Len(L.classes))

\* The fields of a merged lowerer.
LEMMA MergedIs ==
  ASSUME NEW L, DOMAIN L = LowererFields, NEW d, NEW R, R = merge_imported(L, d)
  PROVE  /\ DOMAIN R = LowererFields
         /\ R.functions = L.functions \o AddedFunctions(L, d)
         /\ R.classes = L.classes \o AddedClasses(L, d)
         /\ R.function_names = Over(L.function_names, AddedNames(L, d))
         /\ R.class_names = Over(L.class_names, AddedClassNames(L, d))
<1>1. R = Merged(L, d, KnownFunctions(L, d), KnownClasses(L, d), func_remap(L, d, KnownFunctions(L, d)),
                 class_remap(L, d, KnownClasses(L, d)))
  BY DEF merge_imported
<1>2. MergedParts(R, L, d, KnownFunctions(L, d), KnownClasses(L, d), func_remap(L, d, KnownFunctions(L, d)),
                  class_remap(L, d, KnownClasses(L, d)))
  BY <1>1, MergedFields
<1> QED BY <1>2 DEF MergedParts, AddedFunctions, AddedClasses, AddedNames, AddedClassNames

\* References keep their kind and meaning; only their numbers change.
LEMMA RefsMoved ==
  ASSUME NEW refs \in Seq(Ref), NEW fr, NEW cr, NEW fo, NEW co, NEW out, out = remap_stmts_with(refs, fr, cr, fo, co)
  PROVE  /\ Len(out) = Len(refs) /\ DOMAIN out = 1..Len(refs)
         /\ \A i \in 1..Len(refs) :
              /\ DOMAIN out[i] = {"k", "id", "means"}
              /\ out[i].k = refs[i].k /\ out[i].means = refs[i].means
              /\ out[i].id = IF refs[i].k = "fn" THEN resolve_func(fr, fo, refs[i].id) ELSE resolve_class(cr, co, refs[i].id)
<1>1. DOMAIN out = 1..Len(refs) /\ Len(refs) \in Nat
  BY DEF remap_stmts_with
<1>2. Len(out) = Len(refs)
  BY <1>1 DEF remap_stmts_with
<1>3. ASSUME NEW i \in 1..Len(refs)
      PROVE  /\ DOMAIN out[i] = {"k", "id", "means"}
             /\ out[i].k = refs[i].k /\ out[i].means = refs[i].means
             /\ out[i].id = IF refs[i].k = "fn" THEN resolve_func(fr, fo, refs[i].id) ELSE resolve_class(cr, co, refs[i].id)
  <2>1. PICK r : r = refs[i] /\ r \in Ref
    BY <1>3
  <2>2. out[i] = [r EXCEPT !.id = IF r.k = "fn" THEN resolve_func(fr, fo, @) ELSE resolve_class(cr, co, @)]
    BY <2>1 DEF remap_stmts_with
  <2>3. DOMAIN r = {"k", "id", "means"}
    BY <2>1 DEF Ref
  <2> QED BY <2>1, <2>2, <2>3
<1> QED BY <1>1, <1>2, <1>3

-----------------------------------------------------------------------------
(* Merging: functions *)

\* Functions and classes of two tables have the same name exactly if they have the same meaning.
Agree(s, t) ==
  /\ \A i \in 1..Len(s.functions) : \A j \in 1..Len(t.functions) :
       s.functions[i].name # <<>> /\ t.functions[j].name # <<>> =>
         (s.functions[i].name = t.functions[j].name <=> s.functions[i].means = t.functions[j].means)
  /\ \A i \in 1..Len(s.classes) : \A j \in 1..Len(t.classes) :
       s.classes[i].name = t.classes[j].name <=> s.classes[i].means = t.classes[j].means

\* Something of that name and meaning is in the table.
HasFunction(t, name, means) == \E i \in 1..Len(t.functions) : t.functions[i].name = name /\ t.functions[i].means = means
HasClass(t, name, means) == \E i \in 1..Len(t.classes) : t.classes[i].name = name /\ t.classes[i].means = means

\* The largest element of a set with one element.
LEMMA Singleton ==
  ASSUME NEW x \in Int, NEW S, \A y : y \in S <=> y = x
  PROVE  Max(S) = x
<1>1. S = {x}
  OBVIOUS
<1> QED BY <1>1 DEF Max

\* The row of a name that is there once.
LEMMA NamedRow ==
  ASSUME NEW functions \in Seq(FunctionRow), NEW name, NEW i \in 1..Len(functions), functions[i].name = name,
         \A j \in 1..Len(functions) : functions[j].name = name => j = i
  PROVE  Max(FunctionNamed(functions, name)) = i - 1
<1>1. \A y : y \in FunctionNamed(functions, name) <=> y = i - 1
  BY DEF FunctionNamed
<1> QED BY <1>1, Singleton

LEMMA NamedClass ==
  ASSUME NEW classes \in Seq(ClassRow), NEW name, NEW i \in 1..Len(classes), classes[i].name = name, classes[i].id = i - 1,
         \A j \in 1..Len(classes) : classes[j].name = name => j = i
  PROVE  Max(ClassNamed(classes, name)) = i - 1
<1>1. Range(classes) = {classes[j] : j \in 1..Len(classes)}
  BY DEF Range
<1>2. \A y : y \in ClassNamed(classes, name) <=> y = i - 1
  BY <1>1 DEF ClassNamed
<1> QED BY <1>2, Singleton

\* A function or a class that is moved keeps its name and meaning.
LEMMA RowMoved ==
  ASSUME NEW f \in FunctionRow, NEW fr, NEW cr, NEW fo, NEW co, NEW g, g = MovedRow(f, fr, cr, fo, co)
  PROVE  DOMAIN g = {"name", "means", "refs"} /\ g.name = f.name /\ g.means = f.means
         /\ g.refs = remap_stmts_with(f.refs, fr, cr, fo, co)
  BY DEF MovedRow, FunctionRow

LEMMA ClassRowMoved ==
  ASSUME NEW f \in ClassRow, NEW cr, NEW co, NEW g, g = MovedClass(f, cr, co)
  PROVE  DOMAIN g = {"id", "name", "means"} /\ g.name = f.name /\ g.means = f.means
         /\ g.id = resolve_class(cr, co, f.id)
  BY DEF MovedClass, ClassRow

\* Rows behind others.
LEMMA Concatenated ==
  ASSUME NEW T, NEW s \in Seq(T), NEW m \in Nat, NEW V, NEW new \in [1..m -> V], NEW t, t = s \o new
  PROVE  /\ Len(t) = Len(s) + m /\ t \in Seq(T \cup V)
         /\ \A i \in 1..Len(s) : t[i] = s[i]
         /\ \A k \in 1..m : t[Len(s) + k] = new[k]
<1>1. PICK U : U = T \cup V
  OBVIOUS
<1>2. s \in Seq(U)
  BY <1>1
<1>3. new \in [1..m -> U]
  BY <1>1
<1>4. new \in Seq(U) /\ Len(new) = m
  BY <1>3
<1>5. t \in Seq(U) /\ Len(t) = Len(s) + m
  BY <1>2, <1>4, ConcatProperties
<1>7. Len(s) \in Nat /\ Len(s) + m \in Nat
  BY <1>2
<1>8. ASSUME NEW i \in 1..(Len(s) + m) PROVE t[i] = IF i <= Len(s) THEN s[i] ELSE new[i - Len(s)]
  BY <1>2, <1>4, ConcatProperties
<1>9. \A i \in 1..Len(s) : t[i] = s[i]
  BY <1>7, <1>8
<1>10. ASSUME NEW k \in 1..m PROVE t[Len(s) + k] = new[k]
  <2>1. PICK n : n = Len(s) + k
    OBVIOUS
  <2>2. n \in 1..(Len(s) + m) /\ ~(n <= Len(s)) /\ n - Len(s) = k
    BY <1>7, <2>1
  <2> QED BY <1>8, <2>1, <2>2
<1> QED BY <1>1, <1>5, <1>9, <1>10

LEMMA RowsSeq ==
  ASSUME NEW V, NEW t \in Seq(V), NEW W, \A i \in 1..Len(t) : t[i] \in W
  PROVE  t \in Seq(W)
  OBVIOUS

\* What merging c into L makes of the functions of both.
FunctionsIn(R, L, c, known, fr, cr, fo, co, row, m) ==
  /\ known = KnownFunctions(L, c) /\ fr = func_remap(L, c, known) /\ cr = class_remap(L, c, KnownClasses(L, c))
  /\ fo = Len(L.functions) /\ co = Len(L.classes)
  /\ row = NewRow(Len(c.functions), known) /\ m = NewRows(Len(c.functions), known)
  /\ m \in Nat /\ fo \in Nat /\ Len(R.functions) = fo + m /\ \E V : R.functions \in Seq(V)
  /\ \A i \in 1..fo : R.functions[i] = L.functions[i]
  /\ \A k \in 1..m : /\ row[k] \in 1..Len(c.functions) /\ row[k] \notin known /\ NewRows(row[k], known) = k
                     /\ R.functions[fo + k] = MovedRow(c.functions[row[k]], fr, cr, fo, co)
  /\ \A i \in 1..Len(c.functions) :
       LET id == resolve_func(fr, fo, i - 1)
       IN /\ id \in Nat /\ id < fo + m
          /\ R.functions[id + 1].name = c.functions[i].name /\ R.functions[id + 1].means = c.functions[i].means

\* The rows of the merged functions, old ones first, and where each function of c is.
LEMMA FunctionsMerged ==
  ASSUME NEW L, NEW c, DOMAIN L = LowererFields, RowsApart(L), RowsApart(c), Agree(L, c),
         NEW R, R = merge_imported(L, c)
  PROVE  \E known, fr, cr, fo, co, row, m : FunctionsIn(R, L, c, known, fr, cr, fo, co, row, m)
<1> PICK known, fr, cr, fo, co, row, m :
       /\ known = KnownFunctions(L, c) /\ fr = func_remap(L, c, known) /\ cr = class_remap(L, c, KnownClasses(L, c))
       /\ fo = Len(L.functions) /\ co = Len(L.classes)
       /\ row = NewRow(Len(c.functions), known) /\ m = NewRows(Len(c.functions), known)
  OBVIOUS
<1>1. L.functions \in Seq(FunctionRow) /\ c.functions \in Seq(FunctionRow)
  BY DEF RowsApart
<1>2. PICK n : n = Len(c.functions) /\ n \in Nat
  BY <1>1
<1>3. fo \in Nat
  BY <1>1
<1>4. /\ m \in Nat
      /\ row \in [1..m -> (1..n) \ known]
      /\ \A k \in 1..m : NewRows(row[k], known) = k
      /\ \A i \in (1..n) \ known : NewRows(i, known) \in 1..m /\ row[NewRows(i, known)] = i
  BY <1>2, NewRowRight
<1>5. PICK new : new = NewFunctions(c.functions, row, fr, cr, fo, co)
  OBVIOUS
<1>6. DOMAIN new = 1..m /\ \A k \in 1..m : new[k] = MovedRow(c.functions[row[k]], fr, cr, fo, co)
  BY <1>4, <1>5 DEF NewFunctions
<1>0. PICK V : new \in [1..m -> V]
  <2>1. new \in [1..m -> {new[k] : k \in 1..m}]
    BY <1>4, <1>5 DEF NewFunctions
  <2> QED BY <2>1
<1>7. R.functions = L.functions \o new
  <2>1. R.functions = L.functions \o AddedFunctions(L, c)
    BY MergedIs
  <2>2. new = AddedFunctions(L, c)
    BY <1>5 DEF AddedFunctions
  <2> QED BY <2>1, <2>2
<1>8. /\ Len(R.functions) = fo + m /\ R.functions \in Seq(FunctionRow \cup V)
      /\ \A i \in 1..fo : R.functions[i] = L.functions[i]
      /\ \A k \in 1..m : R.functions[fo + k] = new[k]
  <2>1. PICK t : t = R.functions
    OBVIOUS
  <2>2. PICK s : s = L.functions
    OBVIOUS
  <2>3. PICK T : T = FunctionRow
    OBVIOUS
  <2>4. s \in Seq(T) /\ m \in Nat /\ new \in [1..m -> V] /\ t = s \o new
    BY <1>0, <1>1, <1>4, <1>7, <2>1, <2>2, <2>3
  <2>5. /\ Len(t) = Len(s) + m /\ t \in Seq(T \cup V)
        /\ \A i \in 1..Len(s) : t[i] = s[i]
        /\ \A k \in 1..m : t[Len(s) + k] = new[k]
    <3> QED BY ONLY <2>4, Concatenated
  <2> QED BY <2>1, <2>2, <2>3, <2>5
<1>9. \A k \in 1..m : row[k] \in 1..n /\ row[k] \notin known
  BY <1>4
<1>10. ASSUME NEW i \in 1..n
       PROVE  LET id == resolve_func(fr, fo, i - 1)
              IN /\ id \in Nat /\ id < fo + m
                 /\ R.functions[id + 1].name = c.functions[i].name /\ R.functions[id + 1].means = c.functions[i].means
  <2>1. i - 1 \in 0..(n - 1) /\ (i - 1) + 1 = i /\ i \in Nat
    BY <1>2
  <2>2. DOMAIN fr = 0..(n - 1)
    BY <1>2 DEF func_remap
  <2>3. resolve_func(fr, fo, i - 1) = IF i \in known THEN Max(FunctionNamed(L.functions, c.functions[i].name))
                                      ELSE Len(L.functions) + NewRows(i - 1, known)
    BY <1>2, <2>1, <2>2 DEF func_remap, resolve_func
  <2>4. CASE i \in known
    <3>1. c.functions[i].name # <<>> /\ FunctionNamed(L.functions, c.functions[i].name) # {}
      BY <2>4 DEF KnownFunctions
    <3>2. PICK j \in 1..Len(L.functions) : L.functions[j].name = c.functions[i].name
      BY <3>1 DEF FunctionNamed
    <3>3. \A h \in 1..Len(L.functions) : L.functions[h].name = c.functions[i].name => h = j
      BY <3>1, <3>2 DEF RowsApart
    <3>4. Max(FunctionNamed(L.functions, c.functions[i].name)) = j - 1
      BY <1>1, <3>2, <3>3, NamedRow
    <3>5. L.functions[j].means = c.functions[i].means
      BY <1>2, <3>1, <3>2 DEF Agree
    <3>6. R.functions[j] = L.functions[j] /\ j \in Nat /\ j >= 1 /\ j <= fo
      <4>1. j \in 1..fo
        BY <3>2
      <4> QED BY <1>3, <1>8, <4>1
    <3>7. resolve_func(fr, fo, i - 1) = j - 1
      BY <2>3, <2>4, <3>4
    <3> QED BY <1>3, <1>4, <3>2, <3>5, <3>6, <3>7
  <2>5. CASE i \notin known
    <3>1. PICK p \in Nat : p + 1 = i
      BY <2>1
    <3>2. PICK k : k = NewRows(i, known) /\ k \in 1..m /\ row[k] = i
      BY <1>4, <2>5
    <3>3. NewRows(p + 1, known) = NewRows(p, known) + 1 /\ NewRows(p, known) \in Nat
      BY <2>5, <3>1, RowsStep, RowsNat
    <3>4. p = i - 1 /\ NewRows(p, known) = k - 1
      <4>1. PICK q \in Nat : q = NewRows(p, known)
        BY <3>3
      <4>2. k = q + 1
        BY <3>1, <3>2, <3>3, <4>1
      <4> QED BY <2>1, <3>1, <4>1, <4>2
    <3>5. resolve_func(fr, fo, i - 1) = fo + (k - 1)
      BY <2>3, <2>5, <3>4
    <3>6. R.functions[fo + k] = MovedRow(c.functions[i], fr, cr, fo, co)
      BY <1>6, <1>8, <3>2, SMTT(20)
    <3>7. c.functions[i] \in FunctionRow
      BY <1>1, <1>2
    <3>8. R.functions[fo + k].name = c.functions[i].name /\ R.functions[fo + k].means = c.functions[i].means
      BY <3>6, <3>7, RowMoved
    <3>9. fo + (k - 1) \in Nat /\ fo + (k - 1) < fo + m /\ (fo + (k - 1)) + 1 = fo + k
      <4>1. fo \in Nat /\ m \in Nat /\ k \in 1..m
        BY <1>3, <1>4, <3>2
      <4> QED BY ONLY <4>1
    <3> QED BY <3>5, <3>8, <3>9
  <2> QED BY <2>4, <2>5
<1>11. \A k \in 1..m : /\ row[k] \in 1..Len(c.functions) /\ row[k] \notin known /\ NewRows(row[k], known) = k
                        /\ R.functions[fo + k] = MovedRow(c.functions[row[k]], fr, cr, fo, co)
  BY <1>2, <1>4, <1>6, <1>8, <1>9, SMTT(20)
<1>12. \A i \in 1..Len(c.functions) :
         LET id == resolve_func(fr, fo, i - 1)
         IN /\ id \in Nat /\ id < fo + m
            /\ R.functions[id + 1].name = c.functions[i].name /\ R.functions[id + 1].means = c.functions[i].means
  BY <1>2, <1>10
<1>20. FunctionsIn(R, L, c, known, fr, cr, fo, co, row, m)
  BY <1>3, <1>4, <1>8, <1>11, <1>12 DEF FunctionsIn
<1> QED BY <1>20

-----------------------------------------------------------------------------
(* Merging: classes *)

\* What it makes of the classes.
ClassesIn(R, L, c, known, cr, co, row, m) ==
  /\ known = KnownClasses(L, c) /\ cr = class_remap(L, c, known) /\ co = Len(L.classes)
  /\ row = NewRow(Len(c.classes), known) /\ m = NewRows(Len(c.classes), known)
  /\ m \in Nat /\ co \in Nat /\ Len(R.classes) = co + m /\ \E V : R.classes \in Seq(V)
  /\ \A i \in 1..co : R.classes[i] = L.classes[i]
  /\ \A k \in 1..m : /\ row[k] \in 1..Len(c.classes) /\ row[k] \notin known /\ NewRows(row[k], known) = k
                     /\ R.classes[co + k] = MovedClass(c.classes[row[k]], cr, co)
                     /\ R.classes[co + k].id = co + k - 1
  /\ \A i \in 1..Len(c.classes) :
       LET id == resolve_class(cr, co, i - 1)
       IN /\ id \in Nat /\ id < co + m
          /\ R.classes[id + 1].name = c.classes[i].name /\ R.classes[id + 1].means = c.classes[i].means

\* The same for classes; a class has its row for a number.
LEMMA ClassesMerged ==
  ASSUME NEW L, NEW c, DOMAIN L = LowererFields, RowsApart(L), RowsApart(c), Agree(L, c),
         NEW R, R = merge_imported(L, c)
  PROVE  \E known, cr, co, row, m : ClassesIn(R, L, c, known, cr, co, row, m)
<1> PICK known, cr, co, row, m :
       /\ known = KnownClasses(L, c) /\ cr = class_remap(L, c, known) /\ co = Len(L.classes)
       /\ row = NewRow(Len(c.classes), known) /\ m = NewRows(Len(c.classes), known)
  OBVIOUS
<1>1. L.classes \in Seq(ClassRow) /\ c.classes \in Seq(ClassRow) /\ Len(c.classes) <= Sentinel
  BY DEF RowsApart
<1>2. PICK n : n = Len(c.classes) /\ n \in Nat
  BY <1>1
<1>3. co \in Nat
  BY <1>1
<1>4. /\ m \in Nat
      /\ row \in [1..m -> (1..n) \ known]
      /\ \A k \in 1..m : NewRows(row[k], known) = k
      /\ \A i \in (1..n) \ known : NewRows(i, known) \in 1..m /\ row[NewRows(i, known)] = i
  BY <1>2, NewRowRight
<1>5. PICK new : new = NewClasses(c.classes, row, cr, co)
  OBVIOUS
<1>6. DOMAIN new = 1..m /\ \A k \in 1..m : new[k] = MovedClass(c.classes[row[k]], cr, co)
  BY <1>4, <1>5 DEF NewClasses
<1>0. PICK V : new \in [1..m -> V]
  <2>1. new \in [1..m -> {new[k] : k \in 1..m}]
    BY <1>4, <1>5 DEF NewClasses
  <2> QED BY <2>1
<1>7. R.classes = L.classes \o new
  <2>1. R.classes = L.classes \o AddedClasses(L, c)
    BY MergedIs
  <2>2. new = AddedClasses(L, c)
    BY <1>5 DEF AddedClasses
  <2> QED BY <2>1, <2>2
<1>8. /\ Len(R.classes) = co + m /\ R.classes \in Seq(ClassRow \cup V)
      /\ \A i \in 1..co : R.classes[i] = L.classes[i]
      /\ \A k \in 1..m : R.classes[co + k] = new[k]
  <2>1. PICK t : t = R.classes
    OBVIOUS
  <2>2. PICK s : s = L.classes
    OBVIOUS
  <2>3. PICK T : T = ClassRow
    OBVIOUS
  <2>4. s \in Seq(T) /\ m \in Nat /\ new \in [1..m -> V] /\ t = s \o new
    BY <1>0, <1>1, <1>4, <1>7, <2>1, <2>2, <2>3
  <2>5. /\ Len(t) = Len(s) + m /\ t \in Seq(T \cup V)
        /\ \A i \in 1..Len(s) : t[i] = s[i]
        /\ \A k \in 1..m : t[Len(s) + k] = new[k]
    BY ONLY <2>4, Concatenated
  <2> QED BY <2>1, <2>2, <2>3, <2>5
<1>9. \A i \in 1..n : c.classes[i].id = i - 1 /\ c.classes[i] \in ClassRow
  BY <1>1, <1>2 DEF RowsApart
<1>10. ASSUME NEW i \in 1..n
       PROVE  /\ i - 1 < Sentinel /\ i - 1 \in DOMAIN cr
              /\ cr[i - 1] = IF i \in known THEN Max(ClassNamed(L.classes, c.classes[i].name)) ELSE co + NewRows(i - 1, known)
  <2>0. PICK z \in Int : z = Sentinel
    BY SentinelNat
  <2>1. i \in Nat /\ i <= n /\ n <= z
    BY <1>1, <1>2, <2>0
  <2>2. Range(c.classes) = {c.classes[j] : j \in 1..n}
    BY <1>1, <1>2 DEF Range
  <2>3. PICK o \in Int : o = i - 1
    BY <2>1
  <2>4. o \in {d.id : d \in Range(c.classes)}
    BY <1>9, <2>2, <2>3
  <2>5. (CHOOSE j \in 1..Len(c.classes) : c.classes[j].id = o) = i
    <3>1. \A j \in 1..n : c.classes[j].id = o <=> j = i
      BY <1>9, <2>1, <2>3
    <3> QED BY <1>2, <3>1
  <2>6. o \in DOMAIN cr /\ cr[o] = IF i \in known THEN Max(ClassNamed(L.classes, c.classes[i].name)) ELSE Len(L.classes) + NewRows(i - 1, known)
    <3>1. PICK r : r = CHOOSE j \in 1..Len(c.classes) : c.classes[j].id = o
      OBVIOUS
    <3>2. o \in DOMAIN cr /\ cr[o] = IF r \in known THEN Max(ClassNamed(L.classes, c.classes[r].name)) ELSE Len(L.classes) + NewRows(r - 1, known)
      BY <2>4, <3>1 DEF class_remap
    <3>3. r = i
      BY <2>5, <3>1
    <3> QED BY <3>2, <3>3
  <2>7. i - 1 < Sentinel
    BY <1>2, <2>0, <2>1
  <2> QED BY <2>3, <2>6, <2>7
<1>11. ASSUME NEW i \in 1..n
       PROVE  resolve_class(cr, co, i - 1) = cr[i - 1]
  <2>1. PICK o \in Int : o = i - 1
    OBVIOUS
  <2>2. o < Sentinel /\ o \in DOMAIN cr
    BY <1>10, <2>1
  <2>3. ~(o >= Sentinel)
    BY <2>1, <2>2, SentinelNat
  <2>4. resolve_class(cr, co, o) = cr[o]
    BY <2>2, <2>3 DEF resolve_class
  <2> QED BY <2>1, <2>4
<1>12. ASSUME NEW i \in 1..n, i \notin known
       PROVE  \E k \in 1..m : k = NewRows(i, known) /\ row[k] = i /\ resolve_class(cr, co, i - 1) = co + (k - 1)
  <2>1. i \in (1..n) \ known /\ i \in Nat
    BY <1>2, <1>12
  <2>2. PICK k : k = NewRows(i, known) /\ k \in 1..m /\ row[k] = i
    BY <1>4, <2>1
  <2>3. PICK p \in Nat : p + 1 = i
    BY <2>1, i - 1 \in Nat
  <2>4. NewRows(p + 1, known) = NewRows(p, known) + 1 /\ NewRows(p, known) \in Nat
    BY <1>12, <2>3, RowsStep, RowsNat
  <2>5. PICK q \in Nat : q = NewRows(p, known)
    BY <2>4
  <2>6. k = q + 1 /\ p = i - 1
    BY <2>1, <2>2, <2>3, <2>4, <2>5
  <2>7. resolve_class(cr, co, i - 1) = co + q
    BY <1>10, <1>11, <1>12, <2>5, <2>6
  <2> QED BY <2>2, <2>6, <2>7
<1>13. ASSUME NEW i \in 1..n
       PROVE  LET id == resolve_class(cr, co, i - 1)
              IN /\ id \in Nat /\ id < co + m
                 /\ R.classes[id + 1].name = c.classes[i].name /\ R.classes[id + 1].means = c.classes[i].means
  <2>4. CASE i \in known
    <3>1. ClassNamed(L.classes, c.classes[i].name) # {}
      BY <2>4 DEF KnownClasses
    <3>2. PICK j \in 1..Len(L.classes) : L.classes[j].name = c.classes[i].name
      <4>1. Range(L.classes) = {L.classes[j] : j \in 1..Len(L.classes)}
        BY <1>1 DEF Range
      <4> QED BY <3>1, <4>1 DEF ClassNamed
    <3>3. L.classes[j].id = j - 1 /\ \A h \in 1..Len(L.classes) : L.classes[h].name = c.classes[i].name => h = j
      BY <3>1, <3>2 DEF RowsApart
    <3>4. Max(ClassNamed(L.classes, c.classes[i].name)) = j - 1
      BY <1>1, <3>2, <3>3, NamedClass, ZenonT(30)
    <3>5. L.classes[j].means = c.classes[i].means
      BY <1>2, <3>1, <3>2 DEF Agree
    <3>6. R.classes[j] = L.classes[j] /\ j \in Nat /\ j >= 1 /\ j <= co
      <4>1. j \in 1..co
        BY <3>2
      <4> QED BY <1>3, <1>8, <4>1
    <3>7. resolve_class(cr, co, i - 1) = j - 1
      BY <1>10, <1>11, <2>4, <3>4
    <3> QED BY <1>3, <1>4, <3>2, <3>5, <3>6, <3>7
  <2>5. CASE i \notin known
    <3>1. PICK k \in 1..m : row[k] = i /\ resolve_class(cr, co, i - 1) = co + (k - 1)
      BY <1>12, <2>5
    <3>2. R.classes[co + k] = MovedClass(c.classes[i], cr, co)
      BY <1>6, <1>8, <3>1, SMTT(20)
    <3>3. R.classes[co + k].name = c.classes[i].name /\ R.classes[co + k].means = c.classes[i].means
      BY <1>9, <3>2, ClassRowMoved
    <3>4. co + (k - 1) \in Nat /\ co + (k - 1) < co + m /\ (co + (k - 1)) + 1 = co + k
      BY <1>3, <1>4, <3>1
    <3> QED BY <3>1, <3>3, <3>4
  <2> QED BY <2>4, <2>5
<1>14. ASSUME NEW k \in 1..m
       PROVE  /\ row[k] \in 1..n /\ row[k] \notin known /\ NewRows(row[k], known) = k
              /\ R.classes[co + k] = MovedClass(c.classes[row[k]], cr, co)
              /\ R.classes[co + k].id = co + k - 1
  <2>1. PICK i : i = row[k] /\ i \in 1..n /\ i \notin known /\ NewRows(i, known) = k
    BY <1>4
  <2>2. R.classes[co + k] = MovedClass(c.classes[i], cr, co)
    BY <1>6, <1>8, <2>1
  <2>3. R.classes[co + k].id = resolve_class(cr, co, c.classes[i].id)
    BY <1>9, <2>1, <2>2, ClassRowMoved
  <2>4. resolve_class(cr, co, i - 1) = co + (k - 1)
    BY <1>12, <2>1, ZenonT(30)
  <2>5. co + (k - 1) = co + k - 1
    BY <1>3, <1>4
  <2> QED BY <1>9, <2>1, <2>2, <2>3, <2>4, <2>5
<1>15. \A i \in 1..Len(c.classes) :
         LET id == resolve_class(cr, co, i - 1)
         IN /\ id \in Nat /\ id < co + m
            /\ R.classes[id + 1].name = c.classes[i].name /\ R.classes[id + 1].means = c.classes[i].means
  BY <1>2, <1>13
<1>20. ClassesIn(R, L, c, known, cr, co, row, m)
  BY <1>2, <1>3, <1>4, <1>8, <1>14, <1>15 DEF ClassesIn
<1> QED BY <1>20

-----------------------------------------------------------------------------
(* Merging: rows stay apart *)

LEMMA OldOrNew ==
  ASSUME NEW n \in Nat, NEW m \in Nat, NEW i \in 1..(n + m)
  PROVE  i \in 1..n \/ \E k \in 1..m : i = n + k
<1>1. CASE i <= n
  BY <1>1
<1>2. CASE ~(i <= n)
  <2>1. i - n \in 1..m /\ i = n + (i - n)
    BY <1>2
  <2> QED BY <2>1
<1> QED BY <1>1, <1>2

\* Everything in one table is in another, by name and meaning.
HasAll(t, c) ==
  /\ \A i \in 1..Len(c.functions) : c.functions[i].name # <<>> => HasFunction(t, c.functions[i].name, c.functions[i].means)
  /\ \A i \in 1..Len(c.classes) : HasClass(t, c.classes[i].name, c.classes[i].means)

\* Everything in a table is in one of two others.
Comes(t, s, c) ==
  /\ \A i \in 1..Len(t.functions) : t.functions[i].name # <<>> =>
       \/ HasFunction(s, t.functions[i].name, t.functions[i].means)
       \/ HasFunction(c, t.functions[i].name, t.functions[i].means)
  /\ \A i \in 1..Len(t.classes) :
       \/ HasClass(s, t.classes[i].name, t.classes[i].means)
       \/ HasClass(c, t.classes[i].name, t.classes[i].means)

\* Of functions with the same name or the same meaning there is one, and none is new.
LEMMA FunctionsApart ==
  ASSUME NEW L, NEW c, DOMAIN L = LowererFields, RowsApart(L), RowsApart(c), Agree(L, c),
         NEW R, R = merge_imported(L, c)
  PROVE  /\ \A i, j \in 1..Len(R.functions) :
              R.functions[i].name # <<>> /\ R.functions[j].name # <<>>
                /\ (R.functions[i].name = R.functions[j].name \/ R.functions[i].means = R.functions[j].means) => i = j
         /\ \A i \in 1..Len(R.functions) : R.functions[i].name # <<>> =>
              \/ HasFunction(L, R.functions[i].name, R.functions[i].means)
              \/ HasFunction(c, R.functions[i].name, R.functions[i].means)
<1>0. PICK known, fr, cr, fo, co, row, m : FunctionsIn(R, L, c, known, fr, cr, fo, co, row, m)
  BY FunctionsMerged
<1>1. /\ known = KnownFunctions(L, c) /\ fr = func_remap(L, c, known) /\ cr = class_remap(L, c, KnownClasses(L, c))
      /\ fo = Len(L.functions) /\ co = Len(L.classes)
      /\ row = NewRow(Len(c.functions), known) /\ m = NewRows(Len(c.functions), known)
  BY <1>0 DEF FunctionsIn
<1>2. /\ m \in Nat /\ fo \in Nat /\ Len(R.functions) = fo + m
      /\ \A i \in 1..fo : R.functions[i] = L.functions[i]
      /\ \A k \in 1..m : /\ row[k] \in 1..Len(c.functions) /\ row[k] \notin known /\ NewRows(row[k], known) = k
                         /\ R.functions[fo + k] = MovedRow(c.functions[row[k]], fr, cr, fo, co)
  BY <1>0 DEF FunctionsIn
<1>3. \A i \in 1..Len(c.functions) : c.functions[i] \in FunctionRow
  BY DEF RowsApart
<1>4. ASSUME NEW k \in 1..m
      PROVE  \E p \in 1..Len(c.functions) :
               /\ p = row[k] /\ p \notin known
               /\ R.functions[fo + k].name = c.functions[p].name /\ R.functions[fo + k].means = c.functions[p].means
  <2>1. PICK p : p = row[k] /\ p \in 1..Len(c.functions) /\ p \notin known
    BY <1>2
  <2>2. R.functions[fo + k] = MovedRow(c.functions[p], fr, cr, fo, co)
    BY <1>2, <2>1
  <2> QED BY <1>3, <2>1, <2>2, RowMoved
<1>5. ASSUME NEW i \in 1..fo, NEW k \in 1..m,
             R.functions[i].name # <<>>, R.functions[fo + k].name # <<>>
      PROVE  R.functions[i].name # R.functions[fo + k].name /\ R.functions[i].means # R.functions[fo + k].means
  <2>1. PICK p \in 1..Len(c.functions) :
          /\ p \notin known
          /\ R.functions[fo + k].name = c.functions[p].name /\ R.functions[fo + k].means = c.functions[p].means
    BY <1>4
  <2>2. R.functions[i] = L.functions[i] /\ i \in 1..Len(L.functions)
    BY <1>1, <1>2
  <2>3. FunctionNamed(L.functions, c.functions[p].name) = {}
    BY <1>1, <1>5, <2>1 DEF KnownFunctions
  <2>4. L.functions[i].name # c.functions[p].name
    BY <2>2, <2>3 DEF FunctionNamed
  <2>5. L.functions[i].means # c.functions[p].means
    BY <1>5, <2>1, <2>2, <2>4 DEF Agree
  <2> QED BY <2>1, <2>2, <2>4, <2>5
<1>6. ASSUME NEW k \in 1..m, NEW h \in 1..m,
             R.functions[fo + k].name # <<>>, R.functions[fo + h].name # <<>>,
             R.functions[fo + k].name = R.functions[fo + h].name \/ R.functions[fo + k].means = R.functions[fo + h].means
      PROVE  k = h
  <2>1. PICK p \in 1..Len(c.functions) :
          p = row[k] /\ R.functions[fo + k].name = c.functions[p].name /\ R.functions[fo + k].means = c.functions[p].means
    BY <1>4
  <2>2. PICK q \in 1..Len(c.functions) :
          q = row[h] /\ R.functions[fo + h].name = c.functions[q].name /\ R.functions[fo + h].means = c.functions[q].means
    BY <1>4
  <2>3. p = q
    BY <1>6, <2>1, <2>2 DEF RowsApart
  <2> QED BY <1>2, <2>1, <2>2, <2>3
<1>7. ASSUME NEW i \in 1..fo, NEW j \in 1..fo,
             R.functions[i].name # <<>>, R.functions[j].name # <<>>,
             R.functions[i].name = R.functions[j].name \/ R.functions[i].means = R.functions[j].means
      PROVE  i = j
  <2>1. R.functions[i] = L.functions[i] /\ i \in 1..Len(L.functions) /\ R.functions[j] = L.functions[j] /\ j \in 1..Len(L.functions)
    BY <1>1, <1>2
  <2> QED BY <1>7, <2>1 DEF RowsApart
<1>8. ASSUME NEW i \in 1..Len(R.functions), NEW j \in 1..Len(R.functions),
             R.functions[i].name # <<>>, R.functions[j].name # <<>>,
             R.functions[i].name = R.functions[j].name \/ R.functions[i].means = R.functions[j].means
      PROVE  i = j
  <2>1. i \in 1..fo \/ \E k \in 1..m : i = fo + k
    BY <1>2, OldOrNew
  <2>2. j \in 1..fo \/ \E k \in 1..m : j = fo + k
    BY <1>2, OldOrNew
  <2>3. CASE i \in 1..fo /\ j \in 1..fo
    BY <1>7, <1>8, <2>3
  <2>4. ASSUME NEW k \in 1..m, i = fo + k, j \in 1..fo PROVE FALSE
    BY <1>5, <1>8, <2>4
  <2>5. ASSUME NEW k \in 1..m, j = fo + k, i \in 1..fo PROVE FALSE
    BY <1>5, <1>8, <2>5
  <2>6. ASSUME NEW k \in 1..m, i = fo + k, NEW h \in 1..m, j = fo + h PROVE i = j
    BY <1>6, <1>8, <2>6
  <2> QED BY <2>1, <2>2, <2>3, <2>4, <2>5, <2>6
<1>9. ASSUME NEW i \in 1..Len(R.functions), R.functions[i].name # <<>>
      PROVE  \/ HasFunction(L, R.functions[i].name, R.functions[i].means)
             \/ HasFunction(c, R.functions[i].name, R.functions[i].means)
  <2>1. i \in 1..fo \/ \E k \in 1..m : i = fo + k
    BY <1>2, OldOrNew
  <2>2. CASE i \in 1..fo
    <3>1. R.functions[i] = L.functions[i] /\ i \in 1..Len(L.functions)
      BY <1>1, <1>2, <2>2
    <3> QED BY <3>1 DEF HasFunction
  <2>3. ASSUME NEW k \in 1..m, i = fo + k PROVE HasFunction(c, R.functions[i].name, R.functions[i].means)
    BY <1>4, <2>3 DEF HasFunction
  <2> QED BY <2>1, <2>2, <2>3
<1> QED BY <1>8, <1>9

LEMMA ClassesApart ==
  ASSUME NEW L, NEW c, DOMAIN L = LowererFields, RowsApart(L), RowsApart(c), Agree(L, c),
         NEW R, R = merge_imported(L, c)
  PROVE  /\ \A i, j \in 1..Len(R.classes) :
              R.classes[i].name = R.classes[j].name \/ R.classes[i].means = R.classes[j].means => i = j
         /\ \A i \in 1..Len(R.classes) : R.classes[i] \in ClassRow /\ R.classes[i].id = i - 1
         /\ \A i \in 1..Len(R.classes) :
              \/ HasClass(L, R.classes[i].name, R.classes[i].means)
              \/ HasClass(c, R.classes[i].name, R.classes[i].means)
<1>0. PICK known, cr, co, row, m : ClassesIn(R, L, c, known, cr, co, row, m)
  BY ClassesMerged
<1>1. /\ known = KnownClasses(L, c) /\ cr = class_remap(L, c, known) /\ co = Len(L.classes)
      /\ row = NewRow(Len(c.classes), known) /\ m = NewRows(Len(c.classes), known)
  BY <1>0 DEF ClassesIn
<1>2. /\ m \in Nat /\ co \in Nat /\ Len(R.classes) = co + m
      /\ \A i \in 1..co : R.classes[i] = L.classes[i]
      /\ \A k \in 1..m : /\ row[k] \in 1..Len(c.classes) /\ row[k] \notin known /\ NewRows(row[k], known) = k
                         /\ R.classes[co + k] = MovedClass(c.classes[row[k]], cr, co)
                         /\ R.classes[co + k].id = co + k - 1
  BY <1>0 DEF ClassesIn
<1>3. /\ \A i \in 1..Len(c.classes) : c.classes[i] \in ClassRow
      /\ \A i \in 1..Len(L.classes) : L.classes[i] \in ClassRow /\ L.classes[i].id = i - 1
  BY DEF RowsApart
<1>4. ASSUME NEW k \in 1..m
      PROVE  /\ R.classes[co + k] \in ClassRow
             /\ \E p \in 1..Len(c.classes) :
                  /\ p = row[k] /\ p \notin known
                  /\ R.classes[co + k].name = c.classes[p].name /\ R.classes[co + k].means = c.classes[p].means
  <2>1. PICK p : p = row[k] /\ p \in 1..Len(c.classes) /\ p \notin known
    BY <1>2
  <2>2. PICK g : g = R.classes[co + k]
    OBVIOUS
  <2>3. PICK f \in ClassRow : f = c.classes[p]
    BY <1>3, <2>1
  <2>4. g = MovedClass(f, cr, co) /\ g.id = co + k - 1
    BY <1>2, <2>1, <2>2, <2>3
  <2>5. DOMAIN g = {"id", "name", "means"} /\ g.name = f.name /\ g.means = f.means
    BY <2>4, ClassRowMoved
  <2>6. g.id \in Nat
    BY <1>2, <2>4
  <2>7. g = [id |-> g.id, name |-> g.name, means |-> g.means]
    BY <2>4 DEF MovedClass, ClassRow
  <2>8. g \in ClassRow
    BY <2>3, <2>5, <2>6, <2>7 DEF ClassRow
  <2> QED BY <2>1, <2>2, <2>3, <2>5, <2>8
<1>5. ASSUME NEW i \in 1..co, NEW k \in 1..m
      PROVE  R.classes[i].name # R.classes[co + k].name /\ R.classes[i].means # R.classes[co + k].means
  <2>1. PICK p \in 1..Len(c.classes) :
          /\ p \notin known
          /\ R.classes[co + k].name = c.classes[p].name /\ R.classes[co + k].means = c.classes[p].means
    BY <1>4
  <2>2. R.classes[i] = L.classes[i] /\ i \in 1..Len(L.classes)
    BY <1>1, <1>2
  <2>3. ClassNamed(L.classes, c.classes[p].name) = {}
    BY <1>1, <2>1 DEF KnownClasses
  <2>4. L.classes[i] \in Range(L.classes)
    BY <2>2 DEF Range, RowsApart
  <2>5. L.classes[i].name # c.classes[p].name
    BY <2>3, <2>4 DEF ClassNamed
  <2>6. L.classes[i].means # c.classes[p].means
    BY <2>1, <2>2, <2>5 DEF Agree
  <2> QED BY <2>1, <2>2, <2>5, <2>6
<1>6. ASSUME NEW k \in 1..m, NEW h \in 1..m,
             R.classes[co + k].name = R.classes[co + h].name \/ R.classes[co + k].means = R.classes[co + h].means
      PROVE  k = h
  <2>1. PICK p \in 1..Len(c.classes) :
          p = row[k] /\ R.classes[co + k].name = c.classes[p].name /\ R.classes[co + k].means = c.classes[p].means
    BY <1>4
  <2>2. PICK q \in 1..Len(c.classes) :
          q = row[h] /\ R.classes[co + h].name = c.classes[q].name /\ R.classes[co + h].means = c.classes[q].means
    BY <1>4
  <2>3. p = q
    BY <1>6, <2>1, <2>2, ZenonT(30) DEF RowsApart
  <2> QED BY <1>2, <2>1, <2>2, <2>3
<1>7. ASSUME NEW i \in 1..co, NEW j \in 1..co,
             R.classes[i].name = R.classes[j].name \/ R.classes[i].means = R.classes[j].means
      PROVE  i = j
  <2>1. R.classes[i] = L.classes[i] /\ i \in 1..Len(L.classes) /\ R.classes[j] = L.classes[j] /\ j \in 1..Len(L.classes)
    BY <1>1, <1>2
  <2> QED BY <1>7, <2>1 DEF RowsApart
<1>8. ASSUME NEW i \in 1..Len(R.classes), NEW j \in 1..Len(R.classes),
             R.classes[i].name = R.classes[j].name \/ R.classes[i].means = R.classes[j].means
      PROVE  i = j
  <2>1. i \in 1..co \/ \E k \in 1..m : i = co + k
    BY <1>2, OldOrNew
  <2>2. j \in 1..co \/ \E k \in 1..m : j = co + k
    BY <1>2, OldOrNew
  <2>3. CASE i \in 1..co /\ j \in 1..co
    BY <1>7, <1>8, <2>3
  <2>4. ASSUME NEW k \in 1..m, i = co + k, j \in 1..co PROVE FALSE
    BY <1>5, <1>8, <2>4
  <2>5. ASSUME NEW k \in 1..m, j = co + k, i \in 1..co PROVE FALSE
    BY <1>5, <1>8, <2>5
  <2>6. ASSUME NEW k \in 1..m, i = co + k, NEW h \in 1..m, j = co + h PROVE i = j
    BY <1>6, <1>8, <2>6
  <2> QED BY <2>1, <2>2, <2>3, <2>4, <2>5, <2>6
<1>9. ASSUME NEW i \in 1..Len(R.classes)
      PROVE  /\ R.classes[i] \in ClassRow /\ R.classes[i].id = i - 1
             /\ \/ HasClass(L, R.classes[i].name, R.classes[i].means)
                \/ HasClass(c, R.classes[i].name, R.classes[i].means)
  <2>1. i \in 1..co \/ \E k \in 1..m : i = co + k
    BY <1>2, OldOrNew
  <2>2. CASE i \in 1..co
    <3>1. R.classes[i] = L.classes[i] /\ i \in 1..Len(L.classes)
      BY <1>1, <1>2, <2>2
    <3> QED BY <1>3, <3>1 DEF HasClass
  <2>3. ASSUME NEW k \in 1..m, i = co + k
        PROVE  R.classes[i] \in ClassRow /\ R.classes[i].id = i - 1 /\ HasClass(c, R.classes[i].name, R.classes[i].means)
    <3>1. PICK p \in 1..Len(c.classes) : R.classes[i].name = c.classes[p].name /\ R.classes[i].means = c.classes[p].means
      BY <1>4, <2>3
    <3>2. HasClass(c, R.classes[i].name, R.classes[i].means)
      BY <3>1 DEF HasClass
    <3>3. R.classes[i] \in ClassRow
      BY <1>4, <2>3
    <3>4. R.classes[i].id = i - 1
      <4>1. R.classes[co + k].id = co + k - 1
        BY <1>2
      <4>2. co + k - 1 = i - 1
        BY <1>2, <2>3
      <4>3. R.classes[i] = R.classes[co + k]
        BY <2>3
      <4> QED BY <4>1, <4>2, <4>3
    <3> QED BY <3>2, <3>3, <3>4
  <2> QED BY <2>1, <2>2, <2>3
<1> QED BY <1>8, <1>9

\* Numbers become numbers, also those of placeholders, which nothing is promised about.
LEMMA ClassResolved ==
  ASSUME NEW L, NEW c, DOMAIN L = LowererFields, RowsApart(L), RowsApart(c), Agree(L, c),
         NEW R, NEW known, NEW cr, NEW co, NEW row, NEW m, ClassesIn(R, L, c, known, cr, co, row, m),
         NEW id \in Nat
  PROVE  resolve_class(cr, co, id) \in Nat
<1>1. /\ co \in Nat /\ cr = class_remap(L, c, known)
      /\ \A i \in 1..Len(c.classes) : resolve_class(cr, co, i - 1) \in Nat
  BY DEF ClassesIn
<1>2. CASE id >= Sentinel
  BY <1>2 DEF resolve_class
<1>3. CASE ~(id >= Sentinel) /\ id \in DOMAIN cr
  <2>1. Range(c.classes) = {c.classes[j] : j \in 1..Len(c.classes)}
    BY DEF Range, RowsApart
  <2>2. id \in {d.id : d \in Range(c.classes)}
    BY <1>1, <1>3 DEF class_remap
  <2>3. PICK j \in 1..Len(c.classes) : c.classes[j].id = id
    BY <2>1, <2>2
  <2>4. id = j - 1
    BY <2>3 DEF RowsApart
  <2> QED BY <1>1, <2>3, <2>4
<1>4. CASE ~(id >= Sentinel) /\ id \notin DOMAIN cr
  <2>1. resolve_class(cr, co, id) = id + co
    BY <1>4 DEF resolve_class
  <2> QED BY <1>1, <2>1
<1> QED BY <1>2, <1>3, <1>4

LEMMA FunctionResolved ==
  ASSUME NEW L, NEW c, RowsApart(c),
         NEW R, NEW known, NEW fr, NEW cr, NEW fo, NEW co, NEW row, NEW m, FunctionsIn(R, L, c, known, fr, cr, fo, co, row, m),
         NEW id \in Nat
  PROVE  resolve_func(fr, fo, id) \in Nat
<1>1. /\ fo \in Nat /\ fr = func_remap(L, c, known)
      /\ \A i \in 1..Len(c.functions) : resolve_func(fr, fo, i - 1) \in Nat
  BY DEF FunctionsIn
<1>2. PICK n \in Nat : n = Len(c.functions)
  BY DEF RowsApart
<1>3. DOMAIN fr = 0..(n - 1)
  BY <1>1, <1>2 DEF func_remap
<1>4. CASE id < n
  <2>1. PICK i \in 1..n : id = i - 1
    <3>1. id + 1 \in 1..n /\ id = (id + 1) - 1
      BY <1>2, <1>4
    <3> QED BY <3>1
  <2> QED BY <1>1, <1>2, <2>1
<1>5. CASE ~(id < n)
  <2>1. id \notin DOMAIN fr
    BY <1>3, <1>5
  <2>2. resolve_func(fr, fo, id) = id + fo
    BY <2>1 DEF resolve_func
  <2> QED BY <1>1, <2>2
<1> QED BY <1>4, <1>5

\* What is merged is a table again.
LEMMA FunctionsTyped ==
  ASSUME NEW L, NEW c, DOMAIN L = LowererFields, RowsApart(L), RowsApart(c), Agree(L, c),
         NEW R, R = merge_imported(L, c)
  PROVE  R.functions \in Seq(FunctionRow)
<1>0. PICK known, fr, cr, fo, co, row, m : FunctionsIn(R, L, c, known, fr, cr, fo, co, row, m)
  BY FunctionsMerged
<1>1. PICK known_classes, cr2, co2, row_class, mc : ClassesIn(R, L, c, known_classes, cr2, co2, row_class, mc)
  BY ClassesMerged
<1>2. cr2 = cr /\ co2 = co
  BY <1>0, <1>1 DEF FunctionsIn, ClassesIn
<1>3. \A id \in Nat : resolve_class(cr, co, id) \in Nat
  BY <1>1, <1>2, ClassResolved
<1>4. \A id \in Nat : resolve_func(fr, fo, id) \in Nat
  BY <1>0, FunctionResolved
<1>5. /\ m \in Nat /\ fo \in Nat /\ fo = Len(L.functions) /\ Len(R.functions) = fo + m /\ \E V : R.functions \in Seq(V)
      /\ \A i \in 1..fo : R.functions[i] = L.functions[i]
      /\ \A k \in 1..m : /\ row[k] \in 1..Len(c.functions)
                         /\ R.functions[fo + k] = MovedRow(c.functions[row[k]], fr, cr, fo, co)
  BY <1>0 DEF FunctionsIn
<1>6. ASSUME NEW k \in 1..m PROVE R.functions[fo + k] \in FunctionRow
  <2>1. PICK f \in FunctionRow : f = c.functions[row[k]]
    BY <1>5 DEF RowsApart
  <2>2. PICK g : g = R.functions[fo + k] /\ g = MovedRow(f, fr, cr, fo, co)
    BY <1>5, <2>1
  <2>3. PICK refs \in Seq(Ref) : refs = f.refs
    BY <2>1 DEF FunctionRow
  <2>4. PICK out : out = remap_stmts_with(refs, fr, cr, fo, co)
    OBVIOUS
  <2>5. /\ Len(out) = Len(refs) /\ DOMAIN out = 1..Len(refs)
        /\ \A i \in 1..Len(refs) :
             /\ DOMAIN out[i] = {"k", "id", "means"}
             /\ out[i].k = refs[i].k /\ out[i].means = refs[i].means
             /\ out[i].id = IF refs[i].k = "fn" THEN resolve_func(fr, fo, refs[i].id) ELSE resolve_class(cr, co, refs[i].id)
    BY <2>4, RefsMoved
  <2>6. ASSUME NEW i \in 1..Len(refs) PROVE out[i] \in Ref
    <3>1. PICK r \in Ref : r = refs[i]
      BY <2>6
    <3>2. PICK o : o = out[i]
      OBVIOUS
    <3>3. o = [r EXCEPT !.id = IF r.k = "fn" THEN resolve_func(fr, fo, @) ELSE resolve_class(cr, co, @)]
      BY <2>4, <3>1, <3>2 DEF remap_stmts_with
    <3>4. r.id \in Nat
      BY DEF Ref
    <3>5. (IF r.k = "fn" THEN resolve_func(fr, fo, r.id) ELSE resolve_class(cr, co, r.id)) \in Nat
      BY <1>3, <1>4, <3>4
    <3>6. PICK id \in Nat : id = IF r.k = "fn" THEN resolve_func(fr, fo, r.id) ELSE resolve_class(cr, co, r.id)
      BY <3>5
    <3>7. o = [r EXCEPT !.id = id]
      BY <3>3, <3>6
    <3>8. o \in Ref
      BY <3>7 DEF Ref
    <3> QED BY <3>2, <3>8
  <2>7. out \in Seq(Ref)
    <3>1. PICK n \in Nat : n = Len(refs)
      OBVIOUS
    <3>2. out = [i \in 1..n |-> out[i]]
      BY <2>4, <3>1 DEF remap_stmts_with
    <3>3. out \in [1..n -> Ref]
      BY <2>6, <3>1, <3>2
    <3> QED BY <3>1, <3>3
  <2>8. g = [f EXCEPT !.refs = out]
    BY <2>2, <2>3, <2>4 DEF MovedRow
  <2>9. g \in FunctionRow
    BY <2>7, <2>8 DEF FunctionRow
  <2> QED BY <2>2, <2>9
<1>7. ASSUME NEW i \in 1..Len(R.functions) PROVE R.functions[i] \in FunctionRow
  <2>0. m \in Nat /\ fo \in Nat /\ i \in 1..(fo + m)
    BY <1>5
  <2>1. i \in 1..fo \/ \E k \in 1..m : i = fo + k
    BY <2>0, OldOrNew
  <2>2. CASE i \in 1..fo
    <3>1. L.functions[i] \in FunctionRow
      BY <1>5, <2>2 DEF RowsApart
    <3> QED BY <1>5, <2>2, <3>1
  <2> QED BY <1>6, <2>1, <2>2
<1>8. PICK t : t = R.functions
  OBVIOUS
<1>9. PICK V : t \in Seq(V)
  BY <1>5, <1>8
<1>10. \A i \in 1..Len(t) : t[i] \in FunctionRow
  BY <1>7, <1>8
<1>11. t \in Seq(FunctionRow)
  BY <1>9, <1>10, RowsSeq
<1> QED BY <1>8, <1>11

LEMMA RowsMerged ==
  ASSUME NEW L, NEW c, DOMAIN L = LowererFields, RowsApart(L), RowsApart(c), Agree(L, c),
         NEW R, R = merge_imported(L, c), Len(R.classes) <= Sentinel
  PROVE  RowsApart(R) /\ Comes(R, L, c)
<1>1. R.functions \in Seq(FunctionRow)
  BY FunctionsTyped
<1>2. /\ \A i, j \in 1..Len(R.functions) :
              R.functions[i].name # <<>> /\ R.functions[j].name # <<>>
                /\ (R.functions[i].name = R.functions[j].name \/ R.functions[i].means = R.functions[j].means) => i = j
      /\ \A i \in 1..Len(R.functions) : R.functions[i].name # <<>> =>
              \/ HasFunction(L, R.functions[i].name, R.functions[i].means)
              \/ HasFunction(c, R.functions[i].name, R.functions[i].means)
  BY FunctionsApart
<1>3. /\ \A i, j \in 1..Len(R.classes) :
              R.classes[i].name = R.classes[j].name \/ R.classes[i].means = R.classes[j].means => i = j
      /\ \A i \in 1..Len(R.classes) : R.classes[i] \in ClassRow /\ R.classes[i].id = i - 1
      /\ \A i \in 1..Len(R.classes) :
              \/ HasClass(L, R.classes[i].name, R.classes[i].means)
              \/ HasClass(c, R.classes[i].name, R.classes[i].means)
  BY ClassesApart
<1>4. R.classes \in Seq(ClassRow)
  <2>1. PICK known_classes, cr2, co2, row_class, mc : ClassesIn(R, L, c, known_classes, cr2, co2, row_class, mc)
    BY ClassesMerged
  <2>2. PICK t : t = R.classes
    OBVIOUS
  <2>3. PICK V : t \in Seq(V)
    BY <2>1, <2>2 DEF ClassesIn
  <2>4. \A i \in 1..Len(t) : t[i] \in ClassRow
    BY <1>3, <2>2
  <2>5. t \in Seq(ClassRow)
    BY <2>3, <2>4, RowsSeq
  <2> QED BY <2>2, <2>5
<1>5. RowsApart(R)
  BY <1>1, <1>2, <1>3, <1>4 DEF RowsApart
<1>6. Comes(R, L, c)
  BY <1>2, <1>3 DEF Comes
<1> QED BY <1>5, <1>6

-----------------------------------------------------------------------------
(* Merging: references keep their meaning *)

\* References, row by row.
LEMMA RefsAt ==
  ASSUME NEW t, t.functions \in Seq(FunctionRow)
  PROVE  RefsMeant(t) <=> \A i \in 1..Len(t.functions) : t.functions[i].name # <<>> =>
                            \A j \in 1..Len(t.functions[i].refs) : Denotes(t, t.functions[i].refs[j])
<1>1. PICK fs \in Seq(FunctionRow) : fs = t.functions
  OBVIOUS
<1>2. Range(fs) = {fs[i] : i \in 1..Len(fs)}
  BY DEF Range
<1>3. \A f : f \in Rows(t) <=> \E i \in 1..Len(fs) : f = fs[i] /\ fs[i].name # <<>>
  BY <1>1, <1>2 DEF Rows
<1>4. ASSUME NEW i \in 1..Len(fs) PROVE Range(fs[i].refs) = {fs[i].refs[j] : j \in 1..Len(fs[i].refs)}
  <2>0. PICK f \in FunctionRow : f = fs[i]
    OBVIOUS
  <2>1. PICK refs \in Seq(Ref) : refs = fs[i].refs
    BY <2>0 DEF FunctionRow
  <2>2. Range(refs) = {refs[j] : j \in 1..Len(refs)}
    BY DEF Range
  <2> QED BY <2>1, <2>2
<1>5. ASSUME RefsMeant(t), NEW i \in 1..Len(fs), fs[i].name # <<>>, NEW j \in 1..Len(fs[i].refs)
      PROVE  Denotes(t, fs[i].refs[j])
  <2>1. fs[i] \in Rows(t)
    BY <1>3, <1>5
  <2>2. fs[i].refs[j] \in Range(fs[i].refs)
    BY <1>4
  <2> QED BY <1>5, <2>1, <2>2 DEF RefsMeant
<1>6. ASSUME \A i \in 1..Len(fs) : fs[i].name # <<>> => \A j \in 1..Len(fs[i].refs) : Denotes(t, fs[i].refs[j]),
             NEW f \in Rows(t), NEW r \in Range(f.refs)
      PROVE  Denotes(t, r)
  <2>1. PICK i \in 1..Len(fs) : f = fs[i] /\ fs[i].name # <<>>
    BY <1>3
  <2>2. PICK j \in 1..Len(fs[i].refs) : r = fs[i].refs[j]
    BY <1>4, <1>6, <2>1
  <2> QED BY <1>6, <2>1, <2>2
<1> QED BY <1>1, <1>5, <1>6 DEF RefsMeant

\* A number that is right stays right when rows are added.
LEMMA DenotesKept ==
  ASSUME NEW s, NEW t, s.functions \in Seq(FunctionRow), t.functions \in Seq(FunctionRow),
         s.classes \in Seq(ClassRow), t.classes \in Seq(ClassRow),
         Extends(t, s), NEW r \in Ref, Denotes(s, r)
  PROVE  Denotes(t, r)
<1>1. PICK id \in Nat : id = r.id
  BY DEF Ref
<1>2. CASE r.k = "fn"
  <2>1. id < Len(s.functions) /\ s.functions[id + 1].means = r.means
    BY <1>1, <1>2 DEF Denotes
  <2>2. id + 1 \in 1..Len(s.functions) /\ Len(s.functions) <= Len(t.functions) /\ Len(t.functions) \in Nat /\ Len(s.functions) \in Nat
    BY <2>1 DEF Extends
  <2>3. t.functions[id + 1] = s.functions[id + 1] /\ id < Len(t.functions)
    BY <2>1, <2>2 DEF Extends
  <2> QED BY <1>1, <1>2, <2>1, <2>3 DEF Denotes
<1>3. CASE r.k # "fn" /\ id >= Sentinel
  BY <1>1, <1>3 DEF Denotes
<1>4. CASE r.k # "fn" /\ ~(id >= Sentinel)
  <2>1. id < Len(s.classes) /\ s.classes[id + 1].means = r.means
    BY <1>1, <1>4 DEF Denotes
  <2>2. id + 1 \in 1..Len(s.classes) /\ Len(s.classes) <= Len(t.classes) /\ Len(t.classes) \in Nat /\ Len(s.classes) \in Nat
    BY <2>1 DEF Extends
  <2>3. t.classes[id + 1] = s.classes[id + 1] /\ id < Len(t.classes)
    BY <2>1, <2>2 DEF Extends
  <2> QED BY <1>1, <1>4, <2>1, <2>3 DEF Denotes
<1> QED BY <1>2, <1>3, <1>4

\* A number that is right in one table is right for what it becomes in the merged one.
LEMMA DenotesMoved ==
  ASSUME NEW L, NEW c, NEW R,
         NEW known, NEW fr, NEW cr, NEW fo, NEW co, NEW row, NEW m, FunctionsIn(R, L, c, known, fr, cr, fo, co, row, m),
         NEW known_classes, NEW row_class, NEW mc, ClassesIn(R, L, c, known_classes, cr, co, row_class, mc),
         c.functions \in Seq(FunctionRow), c.classes \in Seq(ClassRow), Len(R.classes) <= Sentinel,
         NEW r \in Ref, Denotes(c, r),
         NEW o, o.k = r.k, o.means = r.means,
         o.id = IF r.k = "fn" THEN resolve_func(fr, fo, r.id) ELSE resolve_class(cr, co, r.id)
  PROVE  Denotes(R, o)
<1>1. PICK id \in Nat : id = r.id
  BY DEF Ref
<1>0. PICK z \in Nat : z = Sentinel
  BY SentinelNat
<1>2. CASE r.k = "fn"
  <2>1. id < Len(c.functions) /\ c.functions[id + 1].means = r.means
    BY <1>1, <1>2 DEF Denotes
  <2>2. PICK i \in 1..Len(c.functions) : i = id + 1 /\ i - 1 = id
    <3>1. id + 1 \in 1..Len(c.functions) /\ (id + 1) - 1 = id
      BY <2>1
    <3> QED BY <3>1
  <2>3. PICK new : new = resolve_func(fr, fo, i - 1)
    OBVIOUS
  <2>4. new \in Nat /\ new < Len(R.functions) /\ R.functions[new + 1].means = c.functions[i].means
    <3>1. fo \in Nat /\ m \in Nat /\ Len(R.functions) = fo + m
      BY DEF FunctionsIn
    <3>2. new \in Nat /\ new < fo + m /\ R.functions[new + 1].means = c.functions[i].means
      BY <2>3 DEF FunctionsIn
    <3> QED BY <3>1, <3>2
  <2>5. o.id = new
    BY <1>1, <1>2, <2>2, <2>3
  <2> QED BY <1>1, <1>2, <2>1, <2>2, <2>4, <2>5 DEF Denotes
<1>3. CASE r.k # "fn" /\ id >= z
  <2>1. o.id = id
    BY <1>0, <1>1, <1>3 DEF resolve_class
  <2> QED BY <1>0, <1>1, <1>3, <2>1 DEF Denotes
<1>4. CASE r.k # "fn" /\ ~(id >= z)
  <2>1. id < Len(c.classes) /\ c.classes[id + 1].means = r.means
    BY <1>0, <1>1, <1>4 DEF Denotes
  <2>2. PICK i \in 1..Len(c.classes) : i = id + 1 /\ i - 1 = id
    <3>1. id + 1 \in 1..Len(c.classes) /\ (id + 1) - 1 = id
      BY <2>1
    <3> QED BY <3>1
  <2>3. PICK new : new = resolve_class(cr, co, i - 1)
    OBVIOUS
  <2>4. new \in Nat /\ new < Len(R.classes) /\ R.classes[new + 1].means = c.classes[i].means /\ ~(new >= z)
    <3>1. co \in Nat /\ mc \in Nat /\ Len(R.classes) = co + mc
      BY DEF ClassesIn
    <3>2. new \in Nat /\ new < co + mc /\ R.classes[new + 1].means = c.classes[i].means
      BY <2>3 DEF ClassesIn
    <3>3. Len(R.classes) <= z
      BY <1>0
    <3> QED BY ONLY <3>1, <3>2, <3>3, <1>0
  <2>5. o.id = new
    BY <1>1, <1>4, <2>2, <2>3
  <2> QED BY <1>0, <1>1, <1>4, <2>1, <2>2, <2>4, <2>5 DEF Denotes
<1> QED BY <1>2, <1>3, <1>4

\* Nothing that was in either is lost.
LEMMA MergeExtends ==
  ASSUME NEW L, NEW c, DOMAIN L = LowererFields, RowsApart(L), RowsApart(c), Agree(L, c),
         NEW R, R = merge_imported(L, c)
  PROVE  Extends(R, L) /\ HasAll(R, c)
<1>1. PICK known, fr, cr, fo, co, row, m : FunctionsIn(R, L, c, known, fr, cr, fo, co, row, m)
  BY FunctionsMerged
<1>2. PICK known_classes, cr2, co2, row_class, mc : ClassesIn(R, L, c, known_classes, cr2, co2, row_class, mc)
  BY ClassesMerged
<1>3. Extends(R, L)
  <2>1. Len(L.functions) \in Nat /\ Len(L.classes) \in Nat
    BY DEF RowsApart
  <2>2. Len(L.functions) <= Len(R.functions) /\ \A i \in 1..Len(L.functions) : R.functions[i] = L.functions[i]
    BY <1>1, <2>1 DEF FunctionsIn
  <2>3. Len(L.classes) <= Len(R.classes) /\ \A i \in 1..Len(L.classes) : R.classes[i] = L.classes[i]
    BY <1>2, <2>1 DEF ClassesIn
  <2> QED BY <2>2, <2>3 DEF Extends
<1>4. ASSUME NEW i \in 1..Len(c.functions) PROVE HasFunction(R, c.functions[i].name, c.functions[i].means)
  <2>1. PICK id : id = resolve_func(fr, fo, i - 1)
    OBVIOUS
  <2>2. id \in Nat /\ id < Len(R.functions) /\ Len(R.functions) \in Nat
        /\ R.functions[id + 1].name = c.functions[i].name /\ R.functions[id + 1].means = c.functions[i].means
    <3>1. fo \in Nat /\ m \in Nat /\ Len(R.functions) = fo + m
      BY <1>1 DEF FunctionsIn
    <3>2. id \in Nat /\ id < fo + m
          /\ R.functions[id + 1].name = c.functions[i].name /\ R.functions[id + 1].means = c.functions[i].means
      BY <1>1, <2>1 DEF FunctionsIn
    <3> QED BY <3>1, <3>2
  <2>3. id + 1 \in 1..Len(R.functions)
    BY <2>2
  <2> QED BY <2>2, <2>3 DEF HasFunction
<1>5. ASSUME NEW i \in 1..Len(c.classes) PROVE HasClass(R, c.classes[i].name, c.classes[i].means)
  <2>1. PICK id : id = resolve_class(cr2, co2, i - 1)
    OBVIOUS
  <2>2. id \in Nat /\ id < Len(R.classes) /\ Len(R.classes) \in Nat
        /\ R.classes[id + 1].name = c.classes[i].name /\ R.classes[id + 1].means = c.classes[i].means
    <3>1. co2 \in Nat /\ mc \in Nat /\ Len(R.classes) = co2 + mc
      BY <1>2 DEF ClassesIn
    <3>2. id \in Nat /\ id < co2 + mc
          /\ R.classes[id + 1].name = c.classes[i].name /\ R.classes[id + 1].means = c.classes[i].means
      BY <1>2, <2>1 DEF ClassesIn
    <3> QED BY <3>1, <3>2
  <2>3. id + 1 \in 1..Len(R.classes)
    BY <2>2
  <2> QED BY <2>2, <2>3 DEF HasClass
<1> QED BY <1>3, <1>4, <1>5 DEF HasAll

\* All references of a merged table are right.
LEMMA RefsMerged ==
  ASSUME NEW L, NEW c, DOMAIN L = LowererFields, Sound(L), Sound(c), Agree(L, c),
         NEW R, R = merge_imported(L, c), Len(R.classes) <= Sentinel
  PROVE  RefsMeant(R)
<1>0. RowsApart(L) /\ RowsApart(c) /\ RefsMeant(L) /\ RefsMeant(c)
  BY DEF Sound
<1>1. PICK known, fr, cr, fo, co, row, m : FunctionsIn(R, L, c, known, fr, cr, fo, co, row, m)
  BY <1>0, FunctionsMerged
<1>2. PICK known_classes, row_class, mc : ClassesIn(R, L, c, known_classes, cr, co, row_class, mc)
  <2>1. PICK known_classes, cr2, co2, row_class, mc : ClassesIn(R, L, c, known_classes, cr2, co2, row_class, mc)
    BY <1>0, ClassesMerged
  <2>2. cr2 = cr /\ co2 = co
    BY <1>1, <2>1 DEF FunctionsIn, ClassesIn
  <2> QED BY <2>1, <2>2
<1>3. RowsApart(R) /\ Extends(R, L)
  BY <1>0, RowsMerged, MergeExtends
<1>4. /\ R.functions \in Seq(FunctionRow) /\ L.functions \in Seq(FunctionRow) /\ c.functions \in Seq(FunctionRow)
      /\ R.classes \in Seq(ClassRow) /\ L.classes \in Seq(ClassRow) /\ c.classes \in Seq(ClassRow)
  BY <1>0, <1>3 DEF RowsApart
<1>5. ASSUME NEW i \in 1..Len(R.functions), R.functions[i].name # <<>>, NEW j \in 1..Len(R.functions[i].refs)
      PROVE  Denotes(R, R.functions[i].refs[j])
  <2>0. /\ m \in Nat /\ fo \in Nat /\ fo = Len(L.functions) /\ Len(R.functions) = fo + m
        /\ \A h \in 1..fo : R.functions[h] = L.functions[h]
        /\ \A k \in 1..m : /\ row[k] \in 1..Len(c.functions)
                           /\ R.functions[fo + k] = MovedRow(c.functions[row[k]], fr, cr, fo, co)
    BY <1>1 DEF FunctionsIn
  <2>1. i \in 1..fo \/ \E k \in 1..m : i = fo + k
    <3>1. m \in Nat /\ fo \in Nat /\ i \in 1..(fo + m)
      BY <2>0
    <3> QED BY <3>1, OldOrNew
  <2>2. CASE i \in 1..fo
    <3>1. R.functions[i] = L.functions[i] /\ i \in 1..Len(L.functions)
      BY <2>0, <2>2
    <3>2. Denotes(L, L.functions[i].refs[j])
      BY <1>0, <1>4, <1>5, <3>1, RefsAt
    <3>0. PICK f \in FunctionRow : f = L.functions[i]
      BY <1>4, <3>1
    <3>3. PICK refs \in Seq(Ref) : refs = L.functions[i].refs
      BY <3>0 DEF FunctionRow
    <3>4. PICK r \in Ref : r = L.functions[i].refs[j]
      BY <1>5, <3>1, <3>3
    <3>5. Denotes(R, r)
      BY <1>3, <1>4, <3>2, <3>4, DenotesKept
    <3> QED BY <3>1, <3>4, <3>5
  <2>3. ASSUME NEW k \in 1..m, i = fo + k PROVE Denotes(R, R.functions[i].refs[j])
    <3>1. PICK p \in 1..Len(c.functions) : p = row[k]
      BY <2>0
    <3>2. PICK f \in FunctionRow : f = c.functions[p]
      BY <1>4
    <3>3. PICK g : g = R.functions[i]
      OBVIOUS
    <3>4. g = MovedRow(f, fr, cr, fo, co)
      BY <2>0, <2>3, <3>1, <3>2, <3>3
    <3>5. g.name = f.name /\ g.refs = remap_stmts_with(f.refs, fr, cr, fo, co)
      BY <3>4, RowMoved
    <3>6. PICK refs \in Seq(Ref) : refs = f.refs
      BY DEF FunctionRow
    <3>7. PICK out : out = g.refs
      OBVIOUS
    <3>8. /\ Len(out) = Len(refs)
          /\ \A h \in 1..Len(refs) :
               /\ out[h].k = refs[h].k /\ out[h].means = refs[h].means
               /\ out[h].id = IF refs[h].k = "fn" THEN resolve_func(fr, fo, refs[h].id) ELSE resolve_class(cr, co, refs[h].id)
      BY <3>5, <3>6, <3>7, RefsMoved
    <3>9. j \in 1..Len(refs)
      BY <1>5, <3>3, <3>7, <3>8
    <3>10. PICK r \in Ref : r = refs[j]
      BY <3>9
    <3>11. Denotes(c, r)
      BY <1>0, <1>4, <1>5, <3>2, <3>3, <3>5, <3>6, <3>9, <3>10, RefsAt
    <3>12. PICK o : o = out[j]
      OBVIOUS
    <3>13. o.k = r.k /\ o.means = r.means /\ o.id = IF r.k = "fn" THEN resolve_func(fr, fo, r.id) ELSE resolve_class(cr, co, r.id)
      BY <3>8, <3>9, <3>10, <3>12
    <3>14. Denotes(R, o)
      BY <1>1, <1>2, <1>4, <3>11, <3>13, DenotesMoved
    <3> QED BY <3>3, <3>7, <3>12, <3>14
  <2> QED BY <2>1, <2>2, <2>3
<1> QED BY <1>4, <1>5, RefsAt

-----------------------------------------------------------------------------
(* Merging: names lead to their rows *)

\* All names of a merged table lead to their rows.
LEMMA NamesMerged ==
  ASSUME NEW L, NEW c, DOMAIN L = LowererFields, RowsApart(L), RowsApart(c), Agree(L, c), NamesLead(L), NamesLead(c),
         NEW R, R = merge_imported(L, c)
  PROVE  NamesLead(R)
<1>1. PICK known, fr, cr, fo, co, row, m : FunctionsIn(R, L, c, known, fr, cr, fo, co, row, m)
  BY FunctionsMerged
<1>2. PICK known_classes, row_class, mc : ClassesIn(R, L, c, known_classes, cr, co, row_class, mc)
  <2>1. PICK known_classes, cr2, co2, row_class, mc : ClassesIn(R, L, c, known_classes, cr2, co2, row_class, mc)
    BY ClassesMerged
  <2>2. cr2 = cr /\ co2 = co
    BY <1>1, <2>1 DEF FunctionsIn, ClassesIn
  <2> QED BY <2>1, <2>2
<1>3. PICK names : names = NewNames(c.function_names, fr, fo)
  OBVIOUS
<1>4. PICK class_names : class_names = NewClassNames(c.class_names, cr, co)
  OBVIOUS
<1>5. R.function_names = Over(L.function_names, names) /\ R.class_names = Over(L.class_names, class_names)
  <2>1. R.function_names = Over(L.function_names, AddedNames(L, c)) /\ R.class_names = Over(L.class_names, AddedClassNames(L, c))
    BY MergedIs
  <2>2. names = AddedNames(L, c) /\ class_names = AddedClassNames(L, c)
    BY <1>1, <1>3, <1>4 DEF FunctionsIn, AddedNames, AddedClassNames
  <2> QED BY <2>1, <2>2
<1>6. ASSUME NEW n \in DOMAIN R.function_names
      PROVE  LET id == R.function_names[n] IN id \in Nat /\ id < Len(R.functions) /\ R.functions[id + 1].name = n
  <2>0. /\ m \in Nat /\ fo \in Nat /\ fo = Len(L.functions) /\ Len(R.functions) = fo + m
        /\ \A h \in 1..fo : R.functions[h] = L.functions[h]
    BY <1>1 DEF FunctionsIn
  <2>1. CASE n \in DOMAIN L.function_names
    <3>1. PICK id : id = L.function_names[n]
      OBVIOUS
    <3>2. R.function_names[n] = id
      BY <1>5, <2>1, <3>1 DEF Over
    <3>3. id \in Nat /\ id < fo /\ L.functions[id + 1].name = n
      BY <2>0, <2>1, <3>1 DEF NamesLead
    <3>4. id + 1 \in 1..fo /\ id < fo + m
      BY <2>0, <3>3
    <3> QED BY <2>0, <3>2, <3>3, <3>4
  <2>2. CASE n \notin DOMAIN L.function_names
    <3>1. n \in DOMAIN c.function_names /\ R.function_names[n] = resolve_func(fr, fo, c.function_names[n])
      BY <1>3, <1>5, <2>2 DEF Over, NewNames
    <3>2. PICK old \in Nat : old = c.function_names[n] /\ old < Len(c.functions) /\ c.functions[old + 1].name = n
      BY <3>1 DEF NamesLead
    <3>3. PICK i \in 1..Len(c.functions) : i = old + 1 /\ i - 1 = old
      <4>1. old + 1 \in 1..Len(c.functions) /\ (old + 1) - 1 = old
        BY <3>2 DEF RowsApart
      <4> QED BY <4>1
    <3>4. PICK id : id = resolve_func(fr, fo, i - 1)
      OBVIOUS
    <3>5. id \in Nat /\ id < fo + m /\ R.functions[id + 1].name = c.functions[i].name
      BY <1>1, <3>4 DEF FunctionsIn
    <3>6. R.function_names[n] = id
      BY <3>1, <3>2, <3>3, <3>4
    <3> QED BY <2>0, <3>2, <3>3, <3>5, <3>6
  <2> QED BY <2>1, <2>2
<1>7. ASSUME NEW n \in DOMAIN R.class_names
      PROVE  LET id == R.class_names[n]
             IN IF n \in BuiltinClasses THEN id = BuiltinId(n)
                ELSE id \in Nat /\ id < Len(R.classes) /\ R.classes[id + 1].name = n
  <2>0. /\ mc \in Nat /\ co \in Nat /\ co = Len(L.classes) /\ Len(R.classes) = co + mc
        /\ \A h \in 1..co : R.classes[h] = L.classes[h]
    BY <1>2 DEF ClassesIn
  <2>1. CASE n \in DOMAIN L.class_names
    <3>1. PICK id : id = L.class_names[n]
      OBVIOUS
    <3>2. R.class_names[n] = id
      BY <1>5, <2>1, <3>1 DEF Over
    <3>3. CASE n \in BuiltinClasses
      <4>1. id = BuiltinId(n)
        BY <2>1, <3>1, <3>3 DEF NamesLead
      <4> QED BY <3>2, <3>3, <4>1
    <3>4. CASE n \notin BuiltinClasses
      <4>1. id \in Nat /\ id < co /\ L.classes[id + 1].name = n
        BY <2>0, <2>1, <3>1, <3>4 DEF NamesLead
      <4>2. id + 1 \in 1..co /\ id < co + mc
        BY <2>0, <4>1
      <4> QED BY <2>0, <3>2, <3>4, <4>1, <4>2
    <3> QED BY <3>3, <3>4
  <2>2. CASE n \notin DOMAIN L.class_names
    <3>1. n \in DOMAIN c.class_names /\ R.class_names[n] = resolve_class(cr, co, c.class_names[n])
      BY <1>4, <1>5, <2>2 DEF Over, NewClassNames
    <3>2. CASE n \in BuiltinClasses
      <4>1. c.class_names[n] = BuiltinId(n)
        BY <3>1, <3>2 DEF NamesLead
      <4>2. R.class_names[n] = BuiltinId(n)
        BY <3>1, <4>1, SentinelNat DEF resolve_class, BuiltinId
      <4> QED BY <3>2, <4>2
    <3>3. CASE n \notin BuiltinClasses
      <4>2. PICK old \in Nat : old = c.class_names[n] /\ old < Len(c.classes) /\ c.classes[old + 1].name = n
        BY <3>1, <3>3 DEF NamesLead
      <4>3. PICK i \in 1..Len(c.classes) : i = old + 1 /\ i - 1 = old
        <5>1. old + 1 \in 1..Len(c.classes) /\ (old + 1) - 1 = old
          BY <4>2 DEF RowsApart
        <5> QED BY <5>1
      <4>4. PICK id : id = resolve_class(cr, co, i - 1)
        OBVIOUS
      <4>5. id \in Nat /\ id < co + mc /\ R.classes[id + 1].name = c.classes[i].name
        BY <1>2, <4>4 DEF ClassesIn
      <4>6. R.class_names[n] = id
        BY <3>1, <4>2, <4>3, <4>4
      <4> QED BY <2>0, <3>3, <4>2, <4>3, <4>5, <4>6
    <3> QED BY <3>2, <3>3
  <2> QED BY <2>1, <2>2
<1> QED BY <1>6, <1>7 DEF NamesLead

\* Merging one table into another that agrees with it.
LEMMA MergeSound ==
  ASSUME NEW L, NEW c, DOMAIN L = LowererFields, Sound(L), Sound(c), Agree(L, c),
         NEW R, R = merge_imported(L, c), Len(R.classes) <= Sentinel
  PROVE  DOMAIN R = LowererFields /\ Sound(R) /\ Extends(R, L) /\ HasAll(R, c) /\ Comes(R, L, c)
<1>1. RowsApart(L) /\ RowsApart(c) /\ NamesLead(L) /\ NamesLead(c)
  BY DEF Sound
<1>2. RowsApart(R) /\ Comes(R, L, c)
  BY <1>1, RowsMerged
<1>3. Extends(R, L) /\ HasAll(R, c)
  BY <1>1, MergeExtends
<1>4. NamesLead(R)
  BY <1>1, NamesMerged
<1>5. RefsMeant(R)
  BY RefsMerged
<1>6. DOMAIN R = LowererFields
  BY MergedIs
<1> QED BY <1>2, <1>3, <1>4, <1>5, <1>6 DEF Sound

\* A merge makes no table of classes shorter.
LEMMA ClassesGrow ==
  ASSUME NEW L, NEW c, DOMAIN L = LowererFields, NEW n \in Nat, NEW V, L.classes \in Seq(V), n <= Len(L.classes),
         NEW R, R = merge_imported(L, c), NEW W, c.classes \in Seq(W)
  PROVE  DOMAIN R = LowererFields /\ (\E U : R.classes \in Seq(U)) /\ n <= Len(R.classes)
<1>1. DOMAIN R = LowererFields /\ R.classes = L.classes \o AddedClasses(L, c)
  BY MergedIs
<1>2. PICK new : new = AddedClasses(L, c)
  OBVIOUS
<1>3. PICK row, m : row = NewRow(Len(c.classes), KnownClasses(L, c)) /\ m = NewRows(Len(c.classes), KnownClasses(L, c))
  OBVIOUS
<1>4. Len(c.classes) \in Nat
  OBVIOUS
<1>5. m \in Nat /\ DOMAIN row = 1..m
  BY <1>3, <1>4, NewRowRight
<1>6. new \in [1..m -> {new[k] : k \in 1..m}]
  BY <1>2, <1>3, <1>5 DEF AddedClasses, NewClasses
<1>7. PICK U : new \in [1..m -> U]
  BY <1>6
<1>8. PICK s, t : s = L.classes /\ t = R.classes
  OBVIOUS
<1>9. s \in Seq(V) /\ m \in Nat /\ new \in [1..m -> U] /\ t = s \o new
  BY <1>1, <1>2, <1>5, <1>7, <1>8
<1>10. PICK X : t \in Seq(X) /\ Len(t) = Len(s) + m
  <2>1. PICK X : X = V \cup U
    OBVIOUS
  <2>2. s \in Seq(X)
    BY <1>9, <2>1
  <2>3. new \in [1..m -> X]
    BY <1>9, <2>1
  <2>4. new \in Seq(X) /\ Len(new) = m
    BY <1>9, <2>3
  <2>5. t \in Seq(X) /\ Len(t) = Len(s) + m
    BY <1>9, <2>2, <2>4, ConcatProperties
  <2> QED BY <2>5
<1>11. Len(s) \in Nat
  BY <1>9
<1> QED BY <1>1, <1>8, <1>9, <1>10, <1>11

-----------------------------------------------------------------------------
(* Merging one table after the other *)

\* Induction, for a set.
LEMMA NatClosed ==
  ASSUME NEW S \in SUBSET Nat, 0 \in S, \A n \in S : n + 1 \in S
  PROVE  Nat = S
<1>1. IsWellFoundedOn(OpToRel(<, Nat), Nat)
  BY NatLessThanWellFounded
<1> DEFINE R == OpToRel(<, Nat)
           T == Nat \ S
<1>2. \A x, y \in Nat : y < x => <<y, x>> \in R
  BY DEF OpToRel
<1> HIDE DEF R
<1>3. SUFFICES ASSUME T # {} PROVE FALSE
  OBVIOUS
<1>4. T \subseteq Nat /\ IsWellFoundedOn(R, Nat)
  BY <1>1 DEF R
<1>5. PICK x \in T : \A y \in T : ~(<<y, x>> \in R)
  BY <1>3, <1>4, WFMin
<1>6. x # 0 /\ x \in Nat /\ x - 1 \in Nat /\ x - 1 < x /\ (x - 1) + 1 = x
  BY <1>5
<1>7. x - 1 \in S
  BY <1>5, <1>6, <1>2
<1> QED BY <1>6, <1>7, <1>5

\* One merge after the other.
Folds(f, caches, n) ==
  /\ DOMAIN f = 0..n /\ f[0] = Lowerer
  /\ \A i \in 1..n : f[i] = merge_imported(f[i - 1], caches[i])

\* There is a sequence of tables, each merged from the one before; merge_all is its last.
LEMMA FoldExists ==
  ASSUME NEW caches, NEW n \in Nat
  PROVE  \E f : Folds(f, caches, n)
<1> DEFINE S == {k \in Nat : \E f : Folds(f, caches, k)}
<1>1. 0 \in S
  <2>1. PICK f : f = [i \in 0..0 |-> Lowerer]
    OBVIOUS
  <2>2. Folds(f, caches, 0)
    BY <2>1 DEF Folds
  <2> QED BY <2>2
<1>2. ASSUME NEW k \in S PROVE k + 1 \in S
  <2>1. PICK f : Folds(f, caches, k)
    OBVIOUS
  <2>2. PICK last : last = merge_imported(f[k], caches[k + 1])
    OBVIOUS
  <2>3. PICK g : g = [i \in 0..(k + 1) |-> IF i <= k THEN f[i] ELSE last]
    OBVIOUS
  <2>4. DOMAIN g = 0..(k + 1) /\ g[0] = Lowerer
    BY <2>1, <2>3 DEF Folds
  <2>5. ASSUME NEW i \in 1..(k + 1) PROVE g[i] = merge_imported(g[i - 1], caches[i])
    <3>1. i - 1 \in 0..k /\ g[i - 1] = f[i - 1]
      BY <2>3
    <3>2. CASE i <= k
      <4>1. g[i] = f[i] /\ i \in 1..k
        BY <2>3, <3>2
      <4> QED BY <2>1, <3>1, <4>1 DEF Folds
    <3>3. CASE ~(i <= k)
      <4>1. i = k + 1 /\ i - 1 = k
        BY <3>3
      <4>2. g[i] = last
        BY <2>3, <3>3
      <4> QED BY <2>2, <3>1, <4>1, <4>2
    <3> QED BY <3>2, <3>3
  <2>6. Folds(g, caches, k + 1)
    BY <2>4, <2>5 DEF Folds
  <2> QED BY <2>6
<1>3. S \in SUBSET Nat
  OBVIOUS
<1> HIDE DEF S
<1>4. Nat = S
  BY <1>1, <1>2, <1>3, NatClosed
<1> QED BY <1>4 DEF S

LEMMA MergeAllFolds ==
  ASSUME NEW caches, Len(caches) \in Nat
  PROVE  \E f : Folds(f, caches, Len(caches)) /\ merge_all(caches) = f[Len(caches)]
<1> PICK n \in Nat : n = Len(caches)
  OBVIOUS
<1>1. PICK f : Folds(f, caches, n)
  BY FoldExists
<1>2. PICK g : g = [i \in 0..n |-> IF i = 0 THEN Lowerer ELSE merge_imported(f[i - 1], caches[i])]
  OBVIOUS
<1>3. PICK h : h = CHOOSE e : e = [i \in 0..n |-> IF i = 0 THEN Lowerer ELSE merge_imported(e[i - 1], caches[i])]
  OBVIOUS
<1>4. merge_all(caches) = h[n]
  BY <1>3 DEF merge_all
<1>5. DOMAIN f = 0..n /\ f[0] = Lowerer /\ \A i \in 1..n : f[i] = merge_imported(f[i - 1], caches[i])
  BY <1>1 DEF Folds
<1>6. \A i \in 0..n : g[i] = f[i]
  BY <1>2, <1>5
<1>7. \A i \in 0..n : i # 0 => i - 1 \in 0..n
  OBVIOUS
<1>8. g = [i \in 0..n |-> IF i = 0 THEN Lowerer ELSE merge_imported(g[i - 1], caches[i])]
  BY <1>2, <1>6, <1>7
<1>9. h = [i \in 0..n |-> IF i = 0 THEN Lowerer ELSE merge_imported(h[i - 1], caches[i])]
  BY <1>3, <1>8
<1>10. Folds(h, caches, n)
  BY <1>9 DEF Folds
<1> QED BY <1>4, <1>10

\* An empty lowerer is right.
LEMMA LowererSound == Sound(Lowerer) /\ DOMAIN Lowerer = LowererFields
<1>1. DOMAIN Lowerer = LowererFields
  BY DEF Lowerer, LowererFields
<1>2. Lowerer.functions = <<>> /\ Lowerer.classes = <<>> /\ Lowerer.function_names = [f \in {} |-> 0]
      /\ Lowerer.class_names = [c \in BuiltinClasses |-> BuiltinId(c)]
  BY DEF Lowerer
<1>3. RowsApart(Lowerer)
  BY <1>2, SentinelNat DEF RowsApart
<1>4. NamesLead(Lowerer)
  BY <1>2 DEF NamesLead
<1>5. Lowerer.functions \in Seq(FunctionRow) /\ Len(Lowerer.functions) = 0
  BY <1>2
<1>6. RefsMeant(Lowerer)
  BY <1>5, RefsAt
<1> QED BY <1>1, <1>3, <1>4, <1>6 DEF Sound

\* Everything in a table is in one of several others.
FromSome(t, caches, k) ==
  /\ \A i \in 1..Len(t.functions) : t.functions[i].name # <<>> =>
       \E h \in 1..k : HasFunction(caches[h], t.functions[i].name, t.functions[i].means)
  /\ \A i \in 1..Len(t.classes) : \E h \in 1..k : HasClass(caches[h], t.classes[i].name, t.classes[i].means)

\* A table agrees with another if all it came from do.
LEMMA AgreeAll ==
  ASSUME NEW t, NEW caches, NEW k \in Nat, FromSome(t, caches, k), NEW c, \A h \in 1..k : Agree(caches[h], c)
  PROVE  Agree(t, c)
<1>1. ASSUME NEW i \in 1..Len(t.functions), NEW j \in 1..Len(c.functions), t.functions[i].name # <<>>, c.functions[j].name # <<>>
      PROVE  t.functions[i].name = c.functions[j].name <=> t.functions[i].means = c.functions[j].means
  <2>1. PICK h \in 1..k : HasFunction(caches[h], t.functions[i].name, t.functions[i].means)
    BY <1>1 DEF FromSome
  <2>2. PICK s : s = caches[h] /\ Agree(s, c)
    OBVIOUS
  <2>3. PICK p \in 1..Len(s.functions) : s.functions[p].name = t.functions[i].name /\ s.functions[p].means = t.functions[i].means
    BY <2>1, <2>2 DEF HasFunction
  <2> QED BY <1>1, <2>2, <2>3, SMTT(20) DEF Agree
<1>2. ASSUME NEW i \in 1..Len(t.classes), NEW j \in 1..Len(c.classes)
      PROVE  t.classes[i].name = c.classes[j].name <=> t.classes[i].means = c.classes[j].means
  <2>1. PICK h \in 1..k : HasClass(caches[h], t.classes[i].name, t.classes[i].means)
    BY <1>2 DEF FromSome
  <2>2. PICK s : s = caches[h] /\ Agree(s, c)
    OBVIOUS
  <2>3. PICK p \in 1..Len(s.classes) : s.classes[p].name = t.classes[i].name /\ s.classes[p].means = t.classes[i].means
    BY <2>1, <2>2 DEF HasClass
  <2> QED BY <1>2, <2>2, <2>3 DEF Agree
<1> QED BY <1>1, <1>2 DEF Agree

\* What is there stays there when rows are added.
LEMMA HasKept ==
  ASSUME NEW t, NEW s, RowsApart(t), RowsApart(s), Extends(t, s)
  PROVE  /\ \A name, means : HasFunction(s, name, means) => HasFunction(t, name, means)
         /\ \A name, means : HasClass(s, name, means) => HasClass(t, name, means)
<1>1. /\ Len(s.functions) \in Nat /\ Len(t.functions) \in Nat /\ Len(s.classes) \in Nat /\ Len(t.classes) \in Nat
  BY DEF RowsApart
<1>2. \A i \in 1..Len(s.functions) : i \in 1..Len(t.functions) /\ t.functions[i] = s.functions[i]
  BY <1>1 DEF Extends
<1>3. \A i \in 1..Len(s.classes) : i \in 1..Len(t.classes) /\ t.classes[i] = s.classes[i]
  BY <1>1 DEF Extends
<1>4. \A name, means : HasFunction(s, name, means) => HasFunction(t, name, means)
  BY <1>2 DEF HasFunction
<1>5. \A name, means : HasClass(s, name, means) => HasClass(t, name, means)
  BY <1>3 DEF HasClass
<1> QED BY <1>4, <1>5

LEMMA ContainsKept ==
  ASSUME NEW t, NEW s, RowsApart(t), RowsApart(s), Extends(t, s), NEW c, HasAll(s, c)
  PROVE  HasAll(t, c)
  BY HasKept DEF HasAll

LEMMA FromMerged ==
  ASSUME NEW R, NEW L, NEW c, Comes(R, L, c), NEW caches, NEW k \in Nat, FromSome(L, caches, k), c = caches[k + 1]
  PROVE  FromSome(R, caches, k + 1)
<1>1. \A h \in 1..k : h \in 1..(k + 1)
  OBVIOUS
<1>2. k + 1 \in 1..(k + 1)
  OBVIOUS
<1>3. \A name, means : name # <<>> /\ HasFunction(L, name, means) => \E h \in 1..k : HasFunction(caches[h], name, means)
  BY SMTT(20) DEF FromSome, HasFunction
<1>4. \A name, means : HasClass(L, name, means) => \E h \in 1..k : HasClass(caches[h], name, means)
  BY ZenonT(30) DEF FromSome, HasClass
<1>5. ASSUME NEW i \in 1..Len(R.functions), R.functions[i].name # <<>>
      PROVE  \E h \in 1..(k + 1) : HasFunction(caches[h], R.functions[i].name, R.functions[i].means)
  <2>1. PICK name, means : name = R.functions[i].name /\ means = R.functions[i].means
    OBVIOUS
  <2>2. HasFunction(L, name, means) \/ HasFunction(c, name, means)
    BY <1>5, <2>1 DEF Comes
  <2>3. \E h \in 1..(k + 1) : HasFunction(caches[h], name, means)
    BY <1>1, <1>2, <1>3, <1>5, <2>1, <2>2
  <2> QED BY <2>1, <2>3
<1>6. ASSUME NEW i \in 1..Len(R.classes)
      PROVE  \E h \in 1..(k + 1) : HasClass(caches[h], R.classes[i].name, R.classes[i].means)
  <2>1. PICK name, means : name = R.classes[i].name /\ means = R.classes[i].means
    OBVIOUS
  <2>2. HasClass(L, name, means) \/ HasClass(c, name, means)
    BY <2>1 DEF Comes
  <2>3. \E h \in 1..(k + 1) : HasClass(caches[h], name, means)
    BY <1>1, <1>2, <1>4, <2>1, <2>2
  <2> QED BY <2>1, <2>3
<1> QED BY <1>5, <1>6 DEF FromSome

\* No table on the way to a merged one has more classes.
LEMMA FoldGrows ==
  ASSUME NEW caches, NEW n \in Nat, NEW f, Folds(f, caches, n), \A i \in 1..n : Sound(caches[i])
  PROVE  \A k \in 0..n : /\ DOMAIN f[k] = LowererFields /\ \E U : f[k].classes \in Seq(U)
                         /\ \A j \in 0..k : Len(f[j].classes) <= Len(f[k].classes)
<1> DEFINE P(k) == /\ DOMAIN f[k] = LowererFields /\ \E U : f[k].classes \in Seq(U)
                   /\ \A j \in 0..k : Len(f[j].classes) <= Len(f[k].classes)
           S == {k \in Nat : k <= n => P(k)}
<1>1. 0 \in S
  <2>1. f[0] = Lowerer
    BY DEF Folds
  <2>2. DOMAIN f[0] = LowererFields /\ f[0].classes \in Seq(ClassRow) /\ Len(f[0].classes) <= Len(f[0].classes)
    BY <2>1, LowererSound DEF Sound, RowsApart
  <2> QED BY <2>2
<1>2. ASSUME NEW k \in S PROVE k + 1 \in S
  <2>1. SUFFICES ASSUME k + 1 <= n PROVE P(k + 1)
    OBVIOUS
  <2>2. k \in Nat /\ P(k)
    BY <2>1
  <2>3. PICK L, c, R : L = f[k] /\ c = caches[k + 1] /\ R = f[k + 1]
    OBVIOUS
  <2>4. R = merge_imported(L, c)
    <3>1. k + 1 \in 1..n /\ (k + 1) - 1 = k
      BY <2>1, <2>2
    <3> QED BY <2>3, <3>1 DEF Folds
  <2>5. c.classes \in Seq(ClassRow)
    <3>1. Sound(c)
      BY <2>1, <2>2, <2>3
    <3> QED BY <3>1 DEF Sound, RowsApart
  <2>6. PICK U : L.classes \in Seq(U)
    BY <2>2, <2>3
  <2>7. PICK len \in Nat : len = Len(L.classes)
    BY <2>6
  <2>8. DOMAIN L = LowererFields /\ len <= Len(L.classes)
    BY <2>2, <2>3, <2>7
  <2>9. DOMAIN R = LowererFields /\ (\E V : R.classes \in Seq(V)) /\ len <= Len(R.classes)
    BY <2>4, <2>5, <2>6, <2>8, ClassesGrow
  <2>10. Len(R.classes) \in Nat
    BY <2>9
  <2>11. ASSUME NEW j \in 0..(k + 1) PROVE Len(f[j].classes) <= Len(f[k + 1].classes)
    <3>1. CASE j = k + 1
      BY <2>3, <2>10, <3>1
    <3>2. CASE j # k + 1
      <4>1. j \in 0..k
        BY <2>2, <3>2
      <4>2. Len(f[j].classes) <= len
        BY <2>2, <2>3, <2>7, <4>1
      <4>3. len <= Len(R.classes) /\ len \in Nat /\ Len(R.classes) \in Nat
        BY <2>7, <2>9, <2>10
      <4> QED BY <2>3, <4>2, <4>3
    <3> QED BY <3>1, <3>2
  <2> QED BY <2>3, <2>9, <2>11
<1>3. S \in SUBSET Nat
  OBVIOUS
<1> HIDE DEF S
<1>4. Nat = S
  BY <1>1, <1>2, <1>3, NatClosed
<1>5. ASSUME NEW k \in 0..n PROVE P(k)
  <2>1. k \in S /\ k <= n
    BY <1>4
  <2> QED BY <2>1 DEF S
<1> QED BY <1>5

\* Merging tables that agree, one after the other.
LEMMA MergesRight ==
  ASSUME NEW caches, NEW n \in Nat, NEW f, Folds(f, caches, n),
         \A i \in 1..n : Sound(caches[i]),
         \A i \in 1..n : \A j \in 1..n : Agree(caches[i], caches[j]),
         Len(f[n].classes) <= Sentinel
  PROVE  Sound(f[n]) /\ FromSome(f[n], caches, n) /\ \A i \in 1..n : HasAll(f[n], caches[i])
<1> DEFINE P(k) == /\ Sound(f[k]) /\ FromSome(f[k], caches, k)
                   /\ \A i \in 1..k : HasAll(f[k], caches[i])
           S == {k \in Nat : k <= n => P(k)}
<1>0. PICK z \in Nat : z = Sentinel
  BY SentinelNat
<1>1. 0 \in S
  <2>1. f[0] = Lowerer
    BY DEF Folds
  <2>2. Sound(f[0])
    BY <2>1, LowererSound
  <2>3. Len(f[0].functions) = 0 /\ Len(f[0].classes) = 0
    BY <2>1 DEF Lowerer
  <2>4. FromSome(f[0], caches, 0)
    BY <2>3 DEF FromSome
  <2> QED BY <2>2, <2>4
<1>2. ASSUME NEW k \in S PROVE k + 1 \in S
  <2>1. SUFFICES ASSUME k + 1 <= n PROVE P(k + 1)
    OBVIOUS
  <2>2. k \in Nat /\ k + 1 \in 1..n /\ (k + 1) - 1 = k /\ k \in 0..n /\ k + 1 \in 0..n /\ k <= n
    BY <2>1
  <2>3. P(k)
    BY <2>2
  <2>4. PICK L, c, R : L = f[k] /\ c = caches[k + 1] /\ R = f[k + 1]
    OBVIOUS
  <2>5. R = merge_imported(L, c)
    BY <2>2, <2>4 DEF Folds
  <2>6. Sound(L) /\ Sound(c) /\ FromSome(L, caches, k)
    BY <2>2, <2>3, <2>4
  <2>7. DOMAIN L = LowererFields
    BY <2>2, <2>4, FoldGrows
  <2>8. Len(R.classes) <= Sentinel
    <3>1. /\ Len(f[k + 1].classes) <= Len(f[n].classes)
          /\ (\E U : f[k + 1].classes \in Seq(U)) /\ (\E U : f[n].classes \in Seq(U))
      <4>1. n \in 0..n /\ k + 1 \in 0..n
        BY <2>2
      <4> QED BY <4>1, FoldGrows
    <3>2. PICK a \in Nat, b \in Nat : a = Len(f[k + 1].classes) /\ b = Len(f[n].classes)
      BY <3>1
    <3>3. a <= b /\ b <= z
      BY <1>0, <3>1, <3>2
    <3> QED BY <1>0, <2>4, <3>2, <3>3
  <2>9. \A h \in 1..k : h \in 1..n
    BY <2>2
  <2>10. Agree(L, c)
    <3>1. \A h \in 1..k : Agree(caches[h], c)
      BY <2>2, <2>4, <2>9
    <3> QED BY <2>2, <2>6, <3>1, AgreeAll
  <2>11. Sound(R) /\ Extends(R, L) /\ HasAll(R, c) /\ Comes(R, L, c)
    BY <2>5, <2>6, <2>7, <2>8, <2>10, MergeSound
  <2>12. FromSome(R, caches, k + 1)
    BY <2>2, <2>4, <2>6, <2>11, FromMerged
  <2>13. ASSUME NEW i \in 1..(k + 1) PROVE HasAll(R, caches[i])
    <3>1. CASE i = k + 1
      BY <2>4, <2>11, <3>1
    <3>2. CASE i # k + 1
      <4>1. i \in 1..k
        BY <2>2, <3>2
      <4>2. HasAll(L, caches[i])
        BY <2>3, <2>4, <4>1
      <4>3. RowsApart(R) /\ RowsApart(L)
        BY <2>6, <2>11 DEF Sound
      <4> QED BY <2>11, <4>2, <4>3, ContainsKept
    <3> QED BY <3>1, <3>2
  <2> QED BY <2>4, <2>11, <2>12, <2>13
<1>3. S \in SUBSET Nat
  OBVIOUS
<1> HIDE DEF S
<1>4. Nat = S
  BY <1>1, <1>2, <1>3, NatClosed
<1>5. P(n)
  <2>1. n \in S /\ n <= n
    BY <1>4
  <2> QED BY <2>1 DEF S
<1> QED BY <1>5

LEMMA MergeAllRight ==
  ASSUME NEW caches, Len(caches) \in Nat,
         \A i \in 1..Len(caches) : Sound(caches[i]),
         \A i \in 1..Len(caches) : \A j \in 1..Len(caches) : Agree(caches[i], caches[j]),
         NEW t, t = merge_all(caches), Len(t.classes) <= Sentinel
  PROVE  Sound(t) /\ FromSome(t, caches, Len(caches)) /\ \A i \in 1..Len(caches) : HasAll(t, caches[i])
<1>1. PICK n \in Nat : n = Len(caches)
  OBVIOUS
<1>2. PICK f : Folds(f, caches, n) /\ t = f[n]
  BY <1>1, MergeAllFolds
<1>3. Len(f[n].classes) <= Sentinel
  BY <1>2
<1>4. Sound(f[n]) /\ FromSome(f[n], caches, n) /\ \A i \in 1..n : HasAll(f[n], caches[i])
  BY <1>1, <1>2, <1>3, MergesRight
<1> QED BY <1>1, <1>2, <1>4

LEMMA MergeAllClasses ==
  ASSUME NEW caches, Len(caches) \in Nat, \A i \in 1..Len(caches) : Sound(caches[i]),
         NEW t, t = merge_all(caches)
  PROVE  Len(t.classes) \in Nat
<1>1. PICK n \in Nat : n = Len(caches)
  OBVIOUS
<1>2. PICK f : Folds(f, caches, n) /\ t = f[n]
  BY <1>1, MergeAllFolds
<1>3. n \in 0..n
  OBVIOUS
<1>4. \E U : f[n].classes \in Seq(U)
  BY <1>1, <1>2, <1>3, FoldGrows
<1> QED BY <1>2, <1>4

\* A table agrees with all that it contains.
LEMMA AgreeWithin ==
  ASSUME NEW t, RowsApart(t), NEW c, HasAll(t, c)
  PROVE  Agree(t, c) /\ Agree(c, t) /\ Agree(t, t)
<1>1. ASSUME NEW i \in 1..Len(t.functions), NEW j \in 1..Len(c.functions), t.functions[i].name # <<>>, c.functions[j].name # <<>>
      PROVE  t.functions[i].name = c.functions[j].name <=> t.functions[i].means = c.functions[j].means
  <2>1. PICK p \in 1..Len(t.functions) : t.functions[p].name = c.functions[j].name /\ t.functions[p].means = c.functions[j].means
    BY <1>1 DEF HasAll, HasFunction
  <2>2. t.functions[i].name = t.functions[p].name \/ t.functions[i].means = t.functions[p].means => i = p
    BY <1>1, <2>1 DEF RowsApart
  <2> QED BY <2>1, <2>2
<1>2. ASSUME NEW i \in 1..Len(t.classes), NEW j \in 1..Len(c.classes)
      PROVE  t.classes[i].name = c.classes[j].name <=> t.classes[i].means = c.classes[j].means
  <2>1. PICK p \in 1..Len(t.classes) : t.classes[p].name = c.classes[j].name /\ t.classes[p].means = c.classes[j].means
    BY <1>2 DEF HasAll, HasClass
  <2>2. t.classes[i].name = t.classes[p].name \/ t.classes[i].means = t.classes[p].means => i = p
    BY <1>2, <2>1 DEF RowsApart
  <2> QED BY <2>1, <2>2
<1>3. Agree(t, t)
  BY DEF Agree, RowsApart
<1>4. Agree(t, c) /\ Agree(c, t)
  BY <1>1, <1>2 DEF Agree
<1> QED BY <1>3, <1>4

-----------------------------------------------------------------------------
(* The code of a program *)

\* A name the code cached so far may have: one of a module that is loaded, or of a lambda.
Known(name) == name \in Reserved \/ \E q \in DOMAIN cache : name \in ItemNames(program, q)
RowsKnown(t) ==
  /\ \A i \in 1..Len(t.functions) : t.functions[i].name # <<>> => Known(t.functions[i].name[1])
  /\ \A i \in 1..Len(t.classes) : Known(t.classes[i].name)

\* All code that is cached is right by itself, and names mean the same in all of it.
CodeInv ==
  /\ IsFiniteSet(DOMAIN fir_cache)
  /\ DOMAIN fir_cache \subseteq DOMAIN cache
  /\ \A p \in DOMAIN fir_cache : RowsKnown(fir_cache[p])
  /\ \A p \in DOMAIN fir_cache : Sound(fir_cache[p])
  /\ \A p \in DOMAIN fir_cache : \A q \in DOMAIN fir_cache : Agree(fir_cache[p], fir_cache[q])
  /\ Sound(fir_module)

\* What is cached of a lowerer is as right as the lowerer.
LEMMA ExportSound ==
  ASSUME NEW L, Sound(L), NEW t, t = export_cache(L)
  PROVE  /\ Sound(t) /\ t.functions = L.functions /\ t.classes = L.classes
<1>1. /\ t.functions = L.functions /\ t.classes = L.classes
      /\ t.function_names = L.function_names /\ t.class_names = L.class_names
  BY DEF export_cache
<1>2. RowsApart(t)
  BY <1>1 DEF Sound, RowsApart
<1>3. NamesLead(t)
  BY <1>1 DEF Sound, NamesLead
<1>4. RefsMeant(t)
  BY <1>1 DEF Sound, RefsMeant, Rows, Denotes
<1> QED BY <1>1, <1>2, <1>3, <1>4 DEF Sound

\* Every order has all the cached code, and nothing else.
LEMMA OrderAll ==
  ASSUME IsFiniteSet(DOMAIN fir_cache), NEW order \in Orders
  PROVE  /\ Len(order) \in Nat
         /\ \A i \in 1..Len(order) : \E p \in DOMAIN fir_cache : order[i] = fir_cache[p]
         /\ \A p \in DOMAIN fir_cache : \E i \in 1..Len(order) : order[i] = fir_cache[p]
<1>1. PICK T : T = {fir_cache[p] : p \in DOMAIN fir_cache}
  OBVIOUS
<1>2. PICK f : f = [p \in DOMAIN fir_cache |-> fir_cache[p]]
  OBVIOUS
<1>3. f \in Surjection(DOMAIN fir_cache, T)
  BY <1>1, <1>2 DEF Surjection
<1>4. IsFiniteSet(T)
  BY <1>3, FS_Surjection
<1>5. PICK n \in Nat : n = Cardinality(T)
  BY <1>4, FS_CardinalityType
<1>6. order \in [1..n -> T] /\ \A i, j \in 1..n : i # j => order[i] # order[j]
  BY <1>1, <1>5 DEF Orders, SetToSeqs
<1>7. order \in Injection(1..n, T)
  BY <1>6 DEF Injection, IsInjective
<1>8. Cardinality(1..n) = n
  BY FS_Interval
<1>9. order \in Surjection(1..n, T)
  BY <1>4, <1>5, <1>7, <1>8, FS_Injection
<1>10. Len(order) = n
  BY <1>6
<1>11. \A p \in DOMAIN fir_cache : \E i \in 1..n : order[i] = fir_cache[p]
  <2>1. \A u \in T : \E i \in 1..n : order[i] = u
    BY <1>9 DEF Surjection
  <2> QED BY <1>1, <2>1
<1>12. \A i \in 1..n : \E p \in DOMAIN fir_cache : order[i] = fir_cache[p]
  BY <1>1, <1>6
<1> QED BY <1>10, <1>11, <1>12

\* The main file is not loaded as a module: it would import the module under way again.
MainApart == Main \notin DOMAIN cache

LEMMA MainNotCached ==
  ASSUME LoaderInv, MainApart, Finished, Len(stack) > 1, ~top.failed
  PROVE  top.path # Main
<1>1. SUFFICES ASSUME top.path = Main PROVE FALSE
  OBVIOUS
<1>2. Targets(program, Main) \subseteq DOMAIN cache
  BY <1>1, FinishedTargets
<1>3. PICK n \in Nat : n = Len(stack) /\ n > 1
  BY TopIs DEF LoaderInv, Finished
<1>4. 1 \in 1..(n - 1) /\ 1 \in 1..n /\ 2 \in 2..n /\ 1 + 1 = 2
  BY <1>3
<1>5. PICK c, path : c = stack[1] /\ path = stack[2].path
  OBVIOUS
<1>6. c.path = Main /\ IsChecker(c) /\ WaitsFor(c, path)
  BY <1>3, <1>4, <1>5 DEF LoaderInv, StackInv, Finished
<1>7. path \in Targets(program, Main)
  <2>1. c.body = program[Main].body /\ c.next \in 1..(Len(c.body) + 1) /\ c.next <= Len(c.body)
    BY <1>6 DEF IsChecker, WaitsFor
  <2>2. Len(c.body) \in Nat /\ DOMAIN c.body = 1..Len(c.body)
    BY <1>6, <2>1, ProgramsReadable DEF LoaderInv, IsChecker, Readable
  <2>3. c.body[c.next] \in Range(c.body)
    BY <2>1, <2>2 DEF Range
  <2> QED BY <1>6, <2>1, <2>3 DEF Targets, WaitsFor
<1>8. path \in in_progress
  BY <1>3, <1>4, <1>5 DEF LoaderInv, NoReentry
<1> QED BY <1>2, <1>7, <1>8 DEF LoaderInv

LEMMA MainInvariant == Spec => []MainApart
<1>1. Init => MainApart
  BY DEF Init, MainApart
<1>2. LoaderInv /\ MainApart /\ [Next]_vars => MainApart'
  <2> SUFFICES ASSUME LoaderInv, MainApart, [Next]_vars PROVE MainApart'
    OBVIOUS
  <2>1. CASE LoadEnds
    <3>1. top.path # Main
      BY <2>1, MainNotCached DEF LoadEnds
    <3>2. DOMAIN cache' = DOMAIN cache \cup {top.path}
      BY <2>1 DEF LoadEnds
    <3> QED BY <3>1, <3>2 DEF MainApart
  <2>2. CASE UNCHANGED cache
    BY <2>2 DEF MainApart
  <2> QED BY <2>1, <2>2 DEF Next, vars, UseCached, UseFails, UseLoads, CheckStatement, LoadFails, Reject, Link
<1> QED BY <1>1, <1>2, LoaderInvariant, PTL DEF Spec

\* A file that is done is not among those that are loaded.
LEMMA TopNew ==
  ASSUME LoaderInv, MainApart, Finished
  PROVE  top.path \in DOMAIN program /\ top.path \notin DOMAIN cache
<1>1. top.path \in DOMAIN program
  BY TopIs DEF LoaderInv, Finished, IsChecker, Readable
<1>2. CASE Len(stack) > 1
  BY <1>1, <1>2, TopInProgress DEF LoaderInv
<1>3. CASE ~(Len(stack) > 1)
  <2>1. Len(stack) \in Nat \ {0} /\ top = stack[Len(stack)]
    BY TopIs DEF LoaderInv, Finished
  <2> DEFINE n == Len(stack)
  <2>2. n \in Nat \ {0} /\ ~(n > 1)
    BY <1>3, <2>1
  <2>3. ASSUME NEW k \in Nat \ {0}, ~(k > 1) PROVE k = 1
    BY <2>3
  <2> HIDE DEF n
  <2>4. n = 1
    BY <2>2, <2>3
  <2>5. Len(stack) = 1
    BY <2>4 DEF n
  <2>6. top.path = Main
    BY <2>1, <2>5 DEF LoaderInv, StackInv, Finished
  <2> QED BY <1>1, <2>6 DEF MainApart
<1> QED BY <1>2, <1>3

\* What is merged has names that are known only.
LEMMA KnownMerged ==
  ASSUME NEW t, NEW caches, NEW k \in Nat, FromSome(t, caches, k), \A h \in 1..k : RowsKnown(caches[h])
  PROVE  RowsKnown(t)
<1>1. ASSUME NEW i \in 1..Len(t.functions), t.functions[i].name # <<>> PROVE Known(t.functions[i].name[1])
  <2>1. PICK h \in 1..k : HasFunction(caches[h], t.functions[i].name, t.functions[i].means)
    BY <1>1 DEF FromSome
  <2>2. PICK c : c = caches[h] /\ RowsKnown(c)
    OBVIOUS
  <2>3. PICK j \in 1..Len(c.functions) : c.functions[j].name = t.functions[i].name
    BY <2>1, <2>2 DEF HasFunction
  <2>4. Known(c.functions[j].name[1])
    BY <1>1, <2>2, <2>3 DEF RowsKnown
  <2> QED BY <2>3, <2>4
<1>2. ASSUME NEW i \in 1..Len(t.classes) PROVE Known(t.classes[i].name)
  <2>1. PICK h \in 1..k : HasClass(caches[h], t.classes[i].name, t.classes[i].means)
    BY DEF FromSome
  <2>2. PICK c : c = caches[h] /\ RowsKnown(c)
    OBVIOUS
  <2>3. PICK j \in 1..Len(c.classes) : c.classes[j].name = t.classes[i].name
    BY <2>1, <2>2 DEF HasClass
  <2>4. Known(c.classes[j].name)
    BY <2>2, <2>3 DEF RowsKnown
  <2> QED BY <2>3, <2>4
<1> QED BY <1>1, <1>2 DEF RowsKnown

\* A file whose names no other file has brings no name that is known.
LEMMA OwnNew ==
  ASSUME LoaderInv, NamesApart, NEW path \in DOMAIN program, path \notin DOMAIN cache, NEW t, RowsKnown(t)
  PROVE  ItemNames(program, path) \cap (NamesPast(t, 0, 0) \cup Reserved) = {}
<1>1. DOMAIN cache \subseteq DOMAIN program
  BY DEF LoaderInv, Grounded, Readable
<1>2. ASSUME NEW name \in ItemNames(program, path) PROVE ~Known(name)
  <2>1. name \notin Reserved
    BY <1>2 DEF NamesApart
  <2>2. ASSUME NEW q \in DOMAIN cache, name \in ItemNames(program, q) PROVE FALSE
    <3>1. q \in DOMAIN program /\ q # path
      BY <1>1
    <3> QED BY <1>2, <2>2, <3>1 DEF NamesApart
  <2> QED BY <2>1, <2>2 DEF Known
<1>3. ASSUME NEW name \in NamesPast(t, 0, 0) \cup Reserved PROVE Known(name)
  <2>1. CASE name \in Reserved
    BY <2>1 DEF Known
  <2>2. CASE name \in NamesPast(t, 0, 0)
    <3>1. \/ \E i \in 1..Len(t.functions) : t.functions[i].name # <<>> /\ name = t.functions[i].name[1]
          \/ \E i \in 1..Len(t.classes) : name = t.classes[i].name
      BY <2>2 DEF NamesPast
    <3> QED BY <3>1 DEF RowsKnown
  <2> QED BY <1>3, <2>1, <2>2
<1> QED BY <1>2, <1>3

\* The rows of a file that is lowered are the rows below and others under its own names.
LEMMA RowsOwned ==
  ASSUME NEW t, RowsApart(t), RowsKnown(t), NEW L, RowsApart(L), Extends(L, t), NEW own,
         NamesPast(L, Len(t.functions), Len(t.classes)) \subseteq own \cup Reserved
  PROVE  /\ \A i \in 1..Len(L.functions) : L.functions[i].name # <<>> =>
              Known(L.functions[i].name[1]) \/ L.functions[i].name[1] \in own
         /\ \A i \in 1..Len(L.classes) : Known(L.classes[i].name) \/ L.classes[i].name \in own
<1>1. PICK m \in Nat, n \in Nat : m = Len(t.functions) /\ n = Len(t.classes)
  BY DEF RowsApart
<1>2. PICK k \in Nat, l \in Nat : k = Len(L.functions) /\ l = Len(L.classes)
  BY DEF RowsApart
<1>3. ASSUME NEW i \in 1..k, L.functions[i].name # <<>>
      PROVE  Known(L.functions[i].name[1]) \/ L.functions[i].name[1] \in own
  <2>1. CASE i \in 1..m
    <3>1. L.functions[i] = t.functions[i]
      BY <1>1, <2>1 DEF Extends
    <3> QED BY <1>1, <1>3, <2>1, <3>1 DEF RowsKnown
  <2>2. CASE i \notin 1..m
    <3>1. i \in (m + 1)..k
      BY <2>2
    <3>2. L.functions[i].name[1] \in NamesPast(L, m, n)
      BY <1>2, <1>3, <3>1 DEF NamesPast
    <3> QED BY <1>1, <3>2 DEF Known
  <2> QED BY <2>1, <2>2
<1>4. ASSUME NEW i \in 1..l PROVE Known(L.classes[i].name) \/ L.classes[i].name \in own
  <2>1. CASE i \in 1..n
    <3>1. L.classes[i] = t.classes[i]
      BY <1>1, <2>1 DEF Extends
    <3> QED BY <1>1, <2>1, <3>1 DEF RowsKnown
  <2>2. CASE i \notin 1..n
    <3>1. i \in (n + 1)..l
      BY <2>2
    <3>2. L.classes[i].name \in NamesPast(L, m, n)
      BY <1>2, <3>1 DEF NamesPast
    <3> QED BY <1>1, <3>2 DEF Known
  <2> QED BY <2>1, <2>2
<1> QED BY <1>2, <1>3, <1>4

\* What is lowered on top of the cached code is right and has all of it.
LEMMA LoweredRight ==
  ASSUME CodeInv, LoaderInv, MainApart, NamesApart, LoweringAdds, Finished, ~top.failed, NEW order \in Orders,
         NEW L, L = lower_on(order, top.path, top.scope), ~L.failed
  PROVE  /\ Sound(L) /\ \A p \in DOMAIN fir_cache : HasAll(L, fir_cache[p])
         /\ \A i \in 1..Len(L.functions) : L.functions[i].name # <<>> =>
              Known(L.functions[i].name[1]) \/ L.functions[i].name[1] \in ItemNames(program, top.path)
         /\ \A i \in 1..Len(L.classes) : Known(L.classes[i].name) \/ L.classes[i].name \in ItemNames(program, top.path)
<1>1. PICK t, own : t = merge_all(order) /\ own = ItemNames(program, top.path)
  OBVIOUS
<1>2. /\ Extends(L, t) /\ Len(L.classes) <= Sentinel
      /\ NamesPast(L, Len(t.functions), Len(t.classes)) \subseteq own \cup Reserved
      /\ (Sound(t) /\ own \cap (NamesPast(t, 0, 0) \cup Reserved) = {} => Sound(L))
  BY <1>1 DEF LoweringAdds
<1>3. /\ Len(order) \in Nat
      /\ \A i \in 1..Len(order) : \E p \in DOMAIN fir_cache : order[i] = fir_cache[p]
      /\ \A p \in DOMAIN fir_cache : \E i \in 1..Len(order) : order[i] = fir_cache[p]
  BY OrderAll DEF CodeInv
<1>4. \A i \in 1..Len(order) : Sound(order[i]) /\ RowsKnown(order[i])
  BY <1>3 DEF CodeInv
<1>5. \A i \in 1..Len(order) : \A j \in 1..Len(order) : Agree(order[i], order[j])
  BY <1>3 DEF CodeInv
<1>6. Len(t.classes) \in Nat
  BY <1>1, <1>3, <1>4, MergeAllClasses
<1>7. Len(t.classes) <= Sentinel
  BY <1>2, <1>6, SentinelNat DEF Extends
<1>8. Sound(t) /\ FromSome(t, order, Len(order)) /\ \A i \in 1..Len(order) : HasAll(t, order[i])
  BY <1>1, <1>3, <1>4, <1>5, <1>7, MergeAllRight
<1>9. RowsKnown(t)
  BY <1>3, <1>4, <1>8, KnownMerged
<1>10. own \cap (NamesPast(t, 0, 0) \cup Reserved) = {}
  <2>1. PICK path : path = top.path /\ path \in DOMAIN program /\ path \notin DOMAIN cache
    BY TopNew
  <2> QED BY <1>1, <1>9, <2>1, OwnNew
<1>11. Sound(L)
  BY <1>2, <1>8, <1>10
<1>12. ASSUME NEW p \in DOMAIN fir_cache PROVE HasAll(L, fir_cache[p])
  <2>1. HasAll(t, fir_cache[p])
    BY <1>3, <1>8
  <2>2. RowsApart(L) /\ RowsApart(t)
    BY <1>8, <1>11 DEF Sound
  <2> QED BY <1>2, <2>1, <2>2, ContainsKept
<1>13. /\ \A i \in 1..Len(L.functions) : L.functions[i].name # <<>> =>
            Known(L.functions[i].name[1]) \/ L.functions[i].name[1] \in own
       /\ \A i \in 1..Len(L.classes) : Known(L.classes[i].name) \/ L.classes[i].name \in own
  BY <1>2, <1>8, <1>9, <1>11, RowsOwned DEF Sound
<1> QED BY <1>1, <1>11, <1>12, <1>13

\* The steps that change code.
LEMMA CodeCached ==
  ASSUME CodeInv, LoaderInv, MainApart, NamesApart, LoweringAdds, LoadEnds
  PROVE  CodeInv'
<1>1. Finished /\ ~top.failed /\ fir_module' = fir_module /\ program' = program /\ DOMAIN cache' = DOMAIN cache \cup {top.path}
  BY DEF LoadEnds
<1>0. \A name : (Known(name) => Known(name)') /\ (name \in ItemNames(program, top.path) => Known(name)')
  BY <1>1 DEF Known, ItemNames
<1>2. PICK order, L :
        /\ order \in Orders /\ L = lower_on(order, top.path, top.scope)
        /\ fir_cache' = IF L.failed THEN fir_cache ELSE Over(fir_cache, [p \in {top.path} |-> export_cache(L)])
  BY DEF LoadEnds
<1>3. CASE L.failed
  <2>1. fir_cache' = fir_cache
    BY <1>2, <1>3
  <2>2. \A p \in DOMAIN fir_cache : RowsKnown(fir_cache[p])'
    BY <1>0, <2>1 DEF CodeInv, RowsKnown
  <2> QED BY <1>1, <2>1, <2>2 DEF CodeInv
<1>4. CASE ~L.failed
  <2>1. /\ Sound(L) /\ \A p \in DOMAIN fir_cache : HasAll(L, fir_cache[p])
        /\ \A i \in 1..Len(L.functions) : L.functions[i].name # <<>> =>
             Known(L.functions[i].name[1]) \/ L.functions[i].name[1] \in ItemNames(program, top.path)
        /\ \A i \in 1..Len(L.classes) : Known(L.classes[i].name) \/ L.classes[i].name \in ItemNames(program, top.path)
    BY <1>1, <1>2, <1>4, LoweredRight
  <2>2. PICK t : t = export_cache(L)
    OBVIOUS
  <2>3. Sound(t) /\ t.functions = L.functions /\ t.classes = L.classes
    BY <2>1, <2>2, ExportSound
  <2>4. \A p \in DOMAIN fir_cache : HasAll(t, fir_cache[p])
    BY <2>1, <2>3 DEF HasAll, HasFunction, HasClass
  <2>5. PICK path : path = top.path
    OBVIOUS
  <2>6. fir_cache' = Over(fir_cache, [p \in {path} |-> t])
    BY <1>2, <1>4, <2>2, <2>5
  <2>7. \A p : p \in DOMAIN fir_cache' <=> p \in DOMAIN fir_cache \/ p = path
    BY <2>6 DEF Over
  <2>8. \A p \in DOMAIN fir_cache' : fir_cache'[p] = t \/ (p \in DOMAIN fir_cache /\ fir_cache'[p] = fir_cache[p])
    BY <2>6 DEF Over
  <2>9. IsFiniteSet(DOMAIN fir_cache \cup {path})
    BY FS_AddElement DEF CodeInv
  <2>10. DOMAIN fir_cache' = DOMAIN fir_cache \cup {path}
    BY <2>7
  <2>11. IsFiniteSet(DOMAIN fir_cache')
    BY <2>9, <2>10
  <2>12. \A p \in DOMAIN fir_cache' : Sound(fir_cache'[p])
    BY <2>3, <2>8 DEF CodeInv
  <2>13. RowsApart(t)
    BY <2>3 DEF Sound
  <2>14. \A p \in DOMAIN fir_cache : Agree(t, fir_cache[p]) /\ Agree(fir_cache[p], t)
    BY <2>4, <2>13, AgreeWithin
  <2>15. Agree(t, t)
    BY <2>13 DEF Agree, RowsApart
  <2>16. \A p, q \in DOMAIN fir_cache' : Agree(fir_cache'[p], fir_cache'[q])
    BY <2>8, <2>14, <2>15 DEF CodeInv
  <2>17. Sound(fir_module')
    BY <1>1 DEF CodeInv
  <2>18. DOMAIN fir_cache' \subseteq DOMAIN cache'
    BY <1>1, <2>5, <2>10 DEF CodeInv
  <2>19. RowsKnown(t)'
    BY <1>0, <2>1, <2>3 DEF RowsKnown
  <2>20. \A p \in DOMAIN fir_cache : RowsKnown(fir_cache[p])
    BY DEF CodeInv
  <2>21. ASSUME NEW p \in DOMAIN fir_cache, NEW c, c = fir_cache[p] PROVE RowsKnown(c)'
    BY <1>0, <2>20, <2>21 DEF RowsKnown
  <2>22. \A p \in DOMAIN fir_cache' : RowsKnown(fir_cache[p])'
    BY <2>8, <2>19, <2>21
  <2> QED BY <2>11, <2>12, <2>16, <2>17, <2>18, <2>22 DEF CodeInv
<1> QED BY <1>3, <1>4

LEMMA CodeLinked ==
  ASSUME CodeInv, LoaderInv, MainApart, NamesApart, LoweringAdds, Link
  PROVE  CodeInv'
<1>1. Finished /\ ~top.failed /\ fir_cache' = [p \in {} |-> export_cache(Lowerer)]
  BY DEF Link
<1>2. PICK order, L :
        /\ order \in Orders /\ L = lower_on(order, Main, top.scope)
        /\ fir_module' = IF L.failed THEN fir_module ELSE export_cache(L)
  BY DEF Link
<1>3. top.path = Main
  BY DEF Link, Finished, top, LoaderInv, StackInv
<1>4. Sound(fir_module')
  <2>1. CASE L.failed
    BY <1>2, <2>1 DEF CodeInv
  <2>2. CASE ~L.failed
    <3>1. Sound(L)
      BY <1>1, <1>2, <1>3, <2>2, LoweredRight
    <3> QED BY <1>2, <2>2, <3>1, ExportSound
  <2> QED BY <2>1, <2>2
<1>5. DOMAIN fir_cache' = {}
  BY <1>1
<1>6. IsFiniteSet(DOMAIN fir_cache')
  BY <1>5, FS_EmptySet
<1> QED BY <1>4, <1>5, <1>6 DEF CodeInv

\* If every lowering does its part and names are apart, all code is right at all times.
LEMMA CodeInvariant == Spec /\ []LoweringAdds => [](NamesApart => CodeInv)
<1>1. Init => CodeInv
  <2> SUFFICES ASSUME Init PROVE CodeInv
    OBVIOUS
  <2>1. DOMAIN fir_cache = {} /\ fir_module = export_cache(Lowerer)
    BY DEF Init
  <2>2. Sound(fir_module)
    BY <2>1, LowererSound, ExportSound
  <2>3. DOMAIN fir_cache \subseteq DOMAIN cache
    BY <2>1
  <2> QED BY <2>1, <2>2, <2>3, FS_EmptySet DEF CodeInv
<1>2. LoaderInv /\ MainApart /\ LoweringAdds /\ (NamesApart => CodeInv) /\ [Next]_vars => (NamesApart => CodeInv)'
  <2> SUFFICES ASSUME LoaderInv, MainApart, LoweringAdds, NamesApart => CodeInv, [Next]_vars, NamesApart' PROVE CodeInv'
    OBVIOUS
  <2>0. NamesApart /\ CodeInv
    <3>1. program' = program
      BY DEF Next, UseCached, UseFails, UseLoads, CheckStatement, LoadFails, LoadEnds, Reject, Link, vars
    <3> QED BY <3>1 DEF NamesApart, ItemNames
  <2>1. CASE LoadEnds
    BY <2>0, <2>1, CodeCached
  <2>2. CASE Link
    BY <2>0, <2>2, CodeLinked
  <2>3. CASE UNCHANGED <<program, cache, fir_cache, fir_module>>
    BY <2>0, <2>3 DEF CodeInv, RowsKnown, Known, ItemNames
  <2> QED BY <2>1, <2>2, <2>3 DEF Next, vars, UseCached, UseFails, UseLoads, CheckStatement, LoadFails, Reject
<1>3. Init => (NamesApart => CodeInv)
  BY <1>1
<1> QED BY <1>2, <1>3, LoaderInvariant, MainInvariant, PTL DEF Spec

\* If lowering a file does its part, then in a program in which no two files have an
\* item of the same name, every number in cached code and in the program stands for
\* what the name stood for where it was written, for every set of programs and every
\* order in which the code is merged (fir/src/lower/mod.rs:520-683,
\* module_loader.rs:186-200). The merge knows rows by bare names: where two files share
\* one this is false, although every lowering does its part.
THEOREM LinksStayMeant == Spec /\ []LoweringAdds => []LinksKept
<1>1. (NamesApart => CodeInv) => LinksKept
  BY DEF CodeInv, Sound, RefsMeant, LinksMeant, Tables, LinksKept
<1> QED BY <1>1, CodeInvariant, PTL

\* And nothing comes into such a program twice, however many caches it is in.
THEOREM NothingTwice == Spec /\ []LoweringAdds => [](NamesApart => EachOnce)
<1>1. CodeInv => EachOnce
  BY DEF CodeInv, Sound, RowsApart, EachOnce
<1> QED BY <1>1, CodeInvariant, PTL

-----------------------------------------------------------------------------
(* All the code is there *)

\* If all can be lowered, all that is loaded has its code, and so has the program.
WholeInv ==
  AllLowerable =>
    /\ stack # <<>> => DOMAIN cache \subseteq DOMAIN fir_cache
    /\ \A p \in DOMAIN fir_cache : Defines(fir_cache[p], p)
    /\ result = "linked" => stack = <<>> /\ \A p \in DOMAIN cache \cup {Main} : Defines(fir_module, p)

LEMMA RowsAre ==
  ASSUME NEW t, t.functions \in Seq(FunctionRow)
  PROVE  \A f : f \in Rows(t) <=> \E i \in 1..Len(t.functions) : f = t.functions[i] /\ t.functions[i].name # <<>>
<1>1. PICK fs \in Seq(FunctionRow) : fs = t.functions
  OBVIOUS
<1>2. Range(fs) = {fs[i] : i \in 1..Len(fs)}
  BY DEF Range
<1> QED BY <1>1, <1>2 DEF Rows

LEMMA DefinedKept ==
  ASSUME NEW t, NEW c, RowsApart(t), RowsApart(c), HasAll(t, c), NEW p, Defines(c, p)
  PROVE  Defines(t, p)
<1>1. t.functions \in Seq(FunctionRow) /\ c.functions \in Seq(FunctionRow)
  BY DEF RowsApart
<1>2. ASSUME NEW f \in Rows(c) PROVE \E g \in Rows(t) : g.means = f.means
  <2>1. PICK i \in 1..Len(c.functions) : f = c.functions[i] /\ f.name # <<>>
    BY <1>1, RowsAre
  <2>2. PICK j \in 1..Len(t.functions) : t.functions[j].name = f.name /\ t.functions[j].means = f.means
    BY <2>1 DEF HasAll, HasFunction
  <2>3. t.functions[j] \in Rows(t)
    BY <1>1, <2>1, <2>2, RowsAre
  <2> QED BY <2>2, <2>3
<1> QED BY <1>2 DEF Defines

LEMMA ExportDefines ==
  ASSUME NEW L, NEW p, Defines(L, p)
  PROVE  Defines(export_cache(L), p)
<1>1. Rows(export_cache(L)) = Rows(L)
  BY DEF Rows, export_cache
<1> QED BY <1>1 DEF Defines

\* The code a file is lowered to has the functions of the file and of all that is cached.
LEMMA LoweredWhole ==
  ASSUME CodeInv, LoaderInv, MainApart, NamesApart, WholeInv, LoweringAdds, AllLowerable, Finished, ~top.failed,
         NEW order \in Orders,
         NEW L, L = lower_on(order, top.path, top.scope)
  PROVE  ~L.failed /\ Defines(L, top.path) /\ \A p \in DOMAIN fir_cache : Defines(L, p)
<1>1. ~L.failed /\ Defines(L, top.path)
  BY DEF LoweringAdds
<1>2. Sound(L) /\ \A p \in DOMAIN fir_cache : HasAll(L, fir_cache[p])
  BY <1>1, LoweredRight
<1>3. ASSUME NEW p \in DOMAIN fir_cache PROVE Defines(L, p)
  <2>1. PICK c : c = fir_cache[p]
    OBVIOUS
  <2>2. Sound(c) /\ HasAll(L, c) /\ Defines(c, p)
    BY <1>2, <2>1 DEF CodeInv, WholeInv
  <2> QED BY <1>2, <2>2, DefinedKept DEF Sound
<1> QED BY <1>1, <1>3

LEMMA WholeCached ==
  ASSUME CodeInv, LoaderInv, MainApart, NamesApart, WholeInv, LoweringAdds, LoadEnds
  PROVE  WholeInv'
<1>1. SUFFICES ASSUME AllLowerable' PROVE WholeInv'
  BY DEF WholeInv
<1>2. program' = program /\ result' = result /\ Finished /\ ~top.failed /\ stack # <<>>
      /\ \A p : p \in DOMAIN cache' <=> p \in DOMAIN cache \/ p = top.path
  BY DEF LoadEnds, Finished
<1>3. AllLowerable
  BY <1>1, <1>2 DEF AllLowerable
<1>4. PICK order, L :
        /\ order \in Orders /\ L = lower_on(order, top.path, top.scope)
        /\ fir_cache' = IF L.failed THEN fir_cache ELSE Over(fir_cache, [p \in {top.path} |-> export_cache(L)])
  BY DEF LoadEnds
<1>5. ~L.failed /\ Defines(L, top.path) /\ \A p \in DOMAIN fir_cache : Defines(L, p)
  BY <1>2, <1>3, <1>4, LoweredWhole
<1>6. PICK t, path : t = export_cache(L) /\ path = top.path
  OBVIOUS
<1>7. Defines(t, path)
  BY <1>5, <1>6, ExportDefines
<1>8. fir_cache' = Over(fir_cache, [p \in {path} |-> t])
  BY <1>4, <1>5, <1>6
<1>9. \A p : p \in DOMAIN fir_cache' <=> p \in DOMAIN fir_cache \/ p = path
  BY <1>8 DEF Over
<1>10. \A p \in DOMAIN fir_cache' :
         (p = path /\ fir_cache'[p] = t) \/ (p \in DOMAIN fir_cache /\ fir_cache'[p] = fir_cache[p])
  BY <1>8 DEF Over
<1>11. stack' # <<>> => DOMAIN cache' \subseteq DOMAIN fir_cache'
  <2>1. DOMAIN cache \subseteq DOMAIN fir_cache
    BY <1>2, <1>3 DEF WholeInv
  <2> QED BY <1>2, <1>6, <1>9, <2>1
<1>12. ASSUME NEW p \in DOMAIN fir_cache' PROVE Defines(fir_cache'[p], p)
  <2>1. \A q \in DOMAIN fir_cache : Defines(fir_cache[q], q)
    BY <1>3 DEF WholeInv
  <2>2. CASE p = path /\ fir_cache'[p] = t
    BY <1>7, <2>2
  <2>3. CASE p \in DOMAIN fir_cache /\ fir_cache'[p] = fir_cache[p]
    BY <2>1, <2>3
  <2> QED BY <1>10, <2>2, <2>3
<1>13. result' # "linked"
  BY <1>2, <1>3 DEF WholeInv
<1>14. PICK made : made = fir_cache'
  OBVIOUS
<1>15. \A p \in DOMAIN made : \A s \in Range(program'[p].body) : s.k = "def" => \E f \in Rows(made[p]) : f.means = <<p, s.name>>
  BY <1>2, <1>12, <1>14 DEF Defines
<1> QED BY <1>11, <1>13, <1>14, <1>15 DEF WholeInv, Defines

LEMMA WholeLinked ==
  ASSUME CodeInv, LoaderInv, MainApart, NamesApart, WholeInv, LoweringAdds, Link
  PROVE  WholeInv'
<1>1. SUFFICES ASSUME AllLowerable' PROVE WholeInv'
  BY DEF WholeInv
<1>2. program' = program /\ cache' = cache /\ stack' = <<>> /\ Finished /\ ~top.failed /\ stack # <<>>
      /\ DOMAIN fir_cache' = {}
  BY DEF Link, Finished
<1>3. AllLowerable
  BY <1>1, <1>2 DEF AllLowerable
<1>4. PICK order, L :
        /\ order \in Orders /\ L = lower_on(order, Main, top.scope)
        /\ fir_module' = IF L.failed THEN fir_module ELSE export_cache(L)
  BY DEF Link
<1>5. top.path = Main
  BY DEF Link, Finished, top, LoaderInv, StackInv
<1>6. ~L.failed /\ Defines(L, Main) /\ \A p \in DOMAIN fir_cache : Defines(L, p)
  BY <1>2, <1>3, <1>4, <1>5, LoweredWhole
<1>7. DOMAIN cache \subseteq DOMAIN fir_cache
  BY <1>2, <1>3 DEF WholeInv
<1>8. \A p \in DOMAIN cache \cup {Main} : Defines(L, p)
  BY <1>6, <1>7
<1>9. \A p \in DOMAIN cache \cup {Main} : Defines(fir_module', p)
  BY <1>4, <1>6, <1>8, ExportDefines
<1>10. \A p \in DOMAIN cache' \cup {Main} : Defines(fir_module, p)'
  BY <1>2, <1>9 DEF Defines, Rows
<1> QED BY <1>2, <1>10 DEF WholeInv

LEMMA WholeInvariant == Spec /\ []LoweringAdds => [](NamesApart => WholeInv)
<1>1. Init => (NamesApart => WholeInv)
  BY DEF Init, WholeInv
<1>2. LoaderInv /\ MainApart /\ LoweringAdds /\ (NamesApart => CodeInv) /\ (NamesApart => WholeInv) /\ [Next]_vars
        => (NamesApart => WholeInv)'
  <2> SUFFICES ASSUME LoaderInv, MainApart, LoweringAdds, NamesApart => CodeInv, NamesApart => WholeInv, [Next]_vars, NamesApart'
               PROVE  WholeInv'
    OBVIOUS
  <2>0. NamesApart /\ CodeInv /\ WholeInv
    <3>1. program' = program
      BY DEF Next, UseCached, UseFails, UseLoads, CheckStatement, LoadFails, LoadEnds, Reject, Link, vars
    <3> QED BY <3>1 DEF NamesApart, ItemNames
  <2>1. CASE LoadEnds
    BY <2>0, <2>1, WholeCached
  <2>2. CASE Link
    BY <2>0, <2>2, WholeLinked
  <2>3. CASE UNCHANGED vars
    BY <2>0, <2>3 DEF vars, WholeInv, AllLowerable, Defines
  <2>4. CASE stack # <<>> /\ result' # "linked" /\ UNCHANGED <<program, cache, fir_cache>>
    BY <2>0, <2>4 DEF WholeInv, AllLowerable, Defines
  <2>5. stack # <<>> => result # "linked" \/ ~AllLowerable
    BY <2>0 DEF WholeInv
  <2>6. CASE stack # <<>> /\ result' = result /\ UNCHANGED <<program, cache, fir_cache>>
    BY <2>0, <2>5, <2>6 DEF WholeInv, AllLowerable, Defines
  <2> QED BY <2>1, <2>2, <2>3, <2>4, <2>6
          DEF Next, AtUse, Finished, UseCached, UseFails, UseLoads, CheckStatement, LoadFails, Reject
<1> QED BY <1>1, <1>2, LoaderInvariant, MainInvariant, CodeInvariant, PTL DEF Spec

\* If lowering does its part, every file can be lowered and no two files have an item of
\* the same name, the functions of every file the main file needs are in the program, whichever module brought them in and in
\* whatever order the caches were merged (module_loader.rs:187-200, main.rs:183).
THEOREM EverythingLinked == Spec /\ []LoweringAdds => []AllThere
<1>1. LoaderInv /\ (NamesApart => WholeInv) => AllThere
  <2> SUFFICES ASSUME LoaderInv, NamesApart, WholeInv, result = "linked", AllLowerable, NEW p \in Reached(program, {Main})
               PROVE  Defines(fir_module, p)
    BY DEF AllThere
  <2>1. PICK ps : ps = DOMAIN cache \cup {Main}
    OBVIOUS
  <2>2. /\ Grounded(DOMAIN cache) /\ Targets(program, Main) \subseteq DOMAIN cache
        /\ \A q \in ps : Defines(fir_module, q)
    BY <2>1 DEF LoaderInv, WholeInv
  <2>3. {Main} \subseteq ps /\ \A q \in ps : Targets(program, q) \subseteq ps
    BY <2>1, <2>2 DEF Grounded
  <2>4. Reached(program, {Main}) \subseteq ps
    BY <2>3, ReachedLeast
  <2> QED BY <2>2, <2>4
<1> QED BY <1>1, LoaderInvariant, WholeInvariant, PTL
=============================================================================
