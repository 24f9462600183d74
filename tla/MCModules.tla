------------------------------- MODULE MCModules -------------------------------
(* Programs of a main file and up to three modules, for TLC.               *)
EXTENDS LinkedProgram, ModuleCode

F(x) == "f" \o x
C(x) == "C" \o x
T(x) == "T" \o x
H(x) == "h" \o x

Links == {<<"main", "a">>, <<"main", "b">>, <<"main", "c">>, <<"a", "b">>, <<"a", "c">>, <<"b", "c">>,
          <<"b", "a">>, <<"c", "main">>}
MaxLinks == 6
Graphs == {g \in UNION {kSubset(n, Links) : n \in 1..MaxLinks} : \E l \in g : l[1] = "main"}
From(g, x) == SetToSortSeq({l[2] : l \in {e \in g : e[1] = x}}, LAMBDA p, q : p = "a" \/ q = "main" \/ (p = "b" /\ q = "c"))
Acyclic(g) == ~({<<"b", "a">>, <<"a", "b">>} \subseteq g) /\ <<"c", "main">> \notin g

Styles == {"names", "all", "names passed on", "all passed on"}
Passing(style) == style \in {"names passed on", "all passed on"}

\* Modules whose items are visible in a file: those it imports, and if modules pass
\* on what they import, those they see.
RECURSIVE Seen(_, _, _)
Seen(g, style, x) ==
  Range(From(g, x)) \cup IF Passing(style) THEN UNION {Seen(g, style, y) : y \in Range(From(g, x))} ELSE {}

Items(y) == {F(y), C(y), T(y)}
Import(g, style, y) ==
  Use(y, IF style \in {"names", "names passed on"} THEN UNION {Items(z) : z \in {y} \cup Seen(g, style, y)} ELSE All,
      Passing(style))

Calls(ys) == FlattenSeq([i \in 1..Len(ys) |-> <<Calling(<<F(ys[i])>>), Constructing(C(ys[i])), Calling(<<C(ys[i]), "m">>)>>])

\* A file: a trait with a default method, a class that includes the traits it sees, a
\* private function and a public one; "extra" comes first in the public one.
Source(x, uses, seen, extra) ==
  File(TRUE, uses \o
    <<Trait(T(x), TRUE, <<[name |-> "d", body |-> <<Constructing("CancelledError")>>]>>),
      Class(C(x), TRUE, {T(x)} \cup {T(y) : y \in Range(seen)}, <<[name |-> "m", body |-> Calls(seen)]>>),
      Def(H(x), FALSE, <<Lambda(<<Calling(<<C(x), "d">>)>>)>>),
      Def(F(x), TRUE, extra \o Calls(seen) \o <<Calling(<<H(x)>>), Constructing(C(x)), Lambda(Calls(seen))>>)>>)

Faults == {"none", "missing", "unreadable", "cannot be lowered", "private name", "private import"}

\* The fault is one of module a.
Program(g, style, fault) ==
  LET uses(x) == LET ys == From(g, x) IN [i \in 1..Len(ys) |-> Import(g, style, ys[i])]
                 \o IF fault = "private import" /\ "a" \in Range(ys) THEN <<Use("a", {H("a")}, FALSE)>> ELSE <<>>
      extra(x) == IF fault = "cannot be lowered" /\ x = "a" THEN <<Unsupported>>
                  ELSE IF fault = "private name" /\ "a" \in Range(From(g, x)) THEN <<Calling(<<H("a")>>)>> ELSE <<>>
      file(x) == Source(x, uses(x), SetToSeq(Seen(g, style, x)), extra(x))
  IN [x \in {"main", "a", "b", "c"} \ (IF fault = "missing" THEN {"a"} ELSE {}) |->
        IF x = "a" /\ fault = "unreadable" THEN [file(x) EXCEPT !.lexes = FALSE] ELSE file(x)]

\* Two modules with something of the same name: private functions, or classes; one may
\* import the other.
Helped(x, uses, item) == File(TRUE, uses \o <<item, Def(F(x), TRUE, <<IF item.k = "def" THEN Calling(<<"helper">>) ELSE Constructing("helper")>>)>>)
MCSameName ==
  {("main" :> File(TRUE, <<Use("a", {"fa"}, FALSE), Use("b", {"fb"}, FALSE),
                           Def("main", FALSE, <<Calling(<<"fa">>), Calling(<<"fb">>)>>)>>))
   @@ ("a" :> Helped("a", <<>>, item)) @@ ("b" :> Helped("b", uses, item))
   : item \in {Def("helper", FALSE, <<>>), Class("helper", FALSE, {}, <<>>)}, uses \in {<<>>, <<Use("a", {"fa"}, FALSE)>>}}

MCPrograms ==
  {Program(g, style, "none") : g \in {h \in Graphs : Acyclic(h)}, style \in Styles}
  \cup {Program(g, style, "none") : g \in {h \in Graphs : ~Acyclic(h)}, style \in {"names", "all"}}
  \cup {Program(g, style, fault) : g \in {h \in Graphs : Cardinality(h) <= 4}, style \in {"names", "all"}, fault \in Faults}
  \cup MCSameName
=============================================================================
