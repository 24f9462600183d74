----------------------------- MODULE LinkedProgram -----------------------------
(***************************************************************************)
(* Which programs ModuleLoader should accept, and what should be in the    *)
(* code of one that is linked, said from the files alone.                  *)
(***************************************************************************)
EXTENDS ModuleLoader

\* What is reached from the nodes "from" along "edges", which are pairs of nodes.
Closure(edges, from) ==
  LET nodes == from \cup {e[2] : e \in edges}
  IN {n \in nodes : \A s \in SUBSET nodes :
        from \subseteq s /\ (\A e \in edges : e[1] \in s => e[2] \in s) => n \in s}

\* The files a program needs: an import of a file that can be read is one of the program.
Imports(prog) == UNION {{<<p, q>> : q \in Targets(prog, p)} : p \in {f \in DOMAIN prog : Readable(prog, f)}}
Reached(prog, ps) == Closure(Imports(prog), ps)

Lowerable(prog, p) == \A s \in Range(prog[p].body) : s.k = "def" => \A r \in Range(s.body) : r.k # "unsupported"

\* The names a module offers: its public items, and those it passes on, name by name or
\* with a whole module.
Passes(prog, p) == {s.path : s \in {d \in Range(prog[p].body) : d.pub /\ d.k = "use" /\ d.names = All}}
PassesOn(prog) == UNION {{<<p, q>> : q \in Passes(prog, p)} : p \in DOMAIN prog}
OwnNames(prog, p) == UNION {IF s.k = "use" THEN s.names ELSE {s.name} : s \in {d \in Range(prog[p].body) : d.pub}}
Offered(prog, p) == UNION {OwnNames(prog, q) : q \in Closure(PassesOn(prog), {p}) \cap DOMAIN prog}

Imported(prog, s) == IF s.names = All THEN Offered(prog, s.path) ELSE s.names

\* What is visible above the statement of a file: functions of the file, classes and
\* traits declared above it, builtin classes and what is imported above it.
Above(prog, p, i) ==
  LET above == {prog[p].body[j] : j \in 1..(i - 1)}
  IN {s.name : s \in {d \in Range(prog[p].body) : d.k = "def"} \cup {d \in above : d.k # "use"}}
     \cup BuiltinClasses
     \cup UNION {Imported(prog, s) : s \in {d \in above : d.k = "use"}}

\* A statement may name what is visible above it and itself.
StatementFine(prog, p, i) ==
  LET s == prog[p].body[i]
  IN IF s.k = "use" THEN s.names \subseteq Offered(prog, s.path)
     ELSE {n[1] : n \in NamesOf(s)} \subseteq Above(prog, p, i) \cup {s.name}

WellFormed(prog) ==
  /\ \A p \in Reached(prog, {Main}) : Readable(prog, p) /\ p \notin Reached(prog, Targets(prog, p))
  /\ \A p \in Reached(prog, {Main}) : \A i \in 1..Len(prog[p].body) : StatementFine(prog, p, i)

\* Which methods a class has is not the loader's business: a method is only named where
\* every class or trait of that name, whatever file it is in, has it or a default for it.
Called(prog, x) == {s \in UNION {Range(prog[p].body) : p \in DOMAIN prog} : s.k # "use" /\ s.name = x}
OwnMethod(prog, t, m) == t \notin BuiltinClasses /\ \A s \in Called(prog, t) : s.k # "def" /\ m \in Methods(s)
MethodOf(prog, c, m) ==
  /\ c \notin BuiltinClasses
  /\ \A s \in Called(prog, c) : /\ s.k # "def"
                                /\ \/ m \in Methods(s)
                                   \/ s.k = "class" /\ \E t \in s.includes : OwnMethod(prog, t, m)

ASSUME MethodsKnown ==
  \A prog \in Programs : \A p \in DOMAIN prog : \A s \in Range(prog[p].body) :
    s.k # "use" => \A n \in NamesOf(s) : n = <<n[1]>> \/ (n = <<n[1], n[2]>> /\ MethodOf(prog, n[1], n[2]))

\* A program is rejected exactly if a file it needs is missing or unreadable, imports
\* go in a circle, through the main file too, or a name is used that is not visible
\* there: a private one, or one a module does not pass on. That holds although a
\* module that failed is loaded again by each importer, and cached ones are not
\* looked at again (module_loader.rs:108-124, 148-170).
AcceptsExactly == result # "pending" => ((result = "rejected") <=> ~WellFormed(program))

-----------------------------------------------------------------------------
(* Code *)

Ref == [k : {"fn", "class"}, id : Nat, means : Seq(STRING)]
FunctionRow == [name : Seq(STRING), means : Seq(STRING), refs : Seq(Ref)]
ClassRow == [id : Nat, name : STRING, means : Seq(STRING)]

\* Rows with the same name or the same meaning are one; a class has its row for a number.
RowsApart(t) ==
  /\ t.functions \in Seq(FunctionRow) /\ t.classes \in Seq(ClassRow) /\ Len(t.classes) <= Sentinel
  /\ \A i, j \in 1..Len(t.functions) :
       t.functions[i].name # <<>> /\ t.functions[j].name # <<>>
         /\ (t.functions[i].name = t.functions[j].name \/ t.functions[i].means = t.functions[j].means) => i = j
  /\ \A i, j \in 1..Len(t.classes) :
       t.classes[i].name = t.classes[j].name \/ t.classes[i].means = t.classes[j].means => i = j
  /\ \A i \in 1..Len(t.classes) : t.classes[i].id = i - 1

\* Names lead to their rows.
NamesLead(t) ==
  /\ \A n \in DOMAIN t.function_names :
       LET id == t.function_names[n] IN id \in Nat /\ id < Len(t.functions) /\ t.functions[id + 1].name = n
  /\ \A n \in DOMAIN t.class_names :
       LET id == t.class_names[n]
       IN IF n \in BuiltinClasses THEN id = BuiltinId(n)
          ELSE id \in Nat /\ id < Len(t.classes) /\ t.classes[id + 1].name = n

RefsMeant(t) == \A f \in Rows(t) : \A r \in Range(f.refs) : Denotes(t, r)

Sound(t) == RowsApart(t) /\ NamesLead(t) /\ RefsMeant(t)

\* The rows of a table are still what they were.
Extends(t, old) ==
  /\ Len(old.functions) <= Len(t.functions) /\ \A i \in 1..Len(old.functions) : t.functions[i] = old.functions[i]
  /\ Len(old.classes) <= Len(t.classes) /\ \A i \in 1..Len(old.classes) : t.classes[i] = old.classes[i]

\* The functions of a file are in a table.
Defines(t, p) == \A s \in Range(program[p].body) : s.k = "def" => \E f \in Rows(t) : f.means = <<p, s.name>>

AllLowerable == \A p \in DOMAIN program : Lowerable(program, p)

\* The names under which a file brings code into a program: its items', and for its
\* lambdas "__lambda". Methods go by the name of their class.
ItemNames(prog, p) == {s.name : s \in {d \in Range(prog[p].body) : d.k # "use"}}
Reserved == BuiltinClasses \cup {"__lambda"}

\* The names rows go by, the first m functions and n classes left out.
NamesPast(t, m, n) ==
  {t.functions[i].name[1] : i \in {j \in (m + 1)..Len(t.functions) : t.functions[j].name # <<>>}}
  \cup {t.classes[i].name : i \in (n + 1)..Len(t.classes)}

\* No two files have an item of the same name, private ones included, and none has
\* one of a name the compiler uses.
NamesApart ==
  /\ \A p, q \in DOMAIN program : p # q => ItemNames(program, p) \cap ItemNames(program, q) = {}
  /\ \A p \in DOMAIN program : ItemNames(program, p) \cap Reserved = {}

\* A file that is lowered on top of other code leaves that as it is and adds rows under
\* names of its own, its functions among them. If there is no such name in that code
\* yet, references lead where they should in all of it. It does not have to do with
\* how the code below came together, and fails only if there is something in the
\* program that cannot be lowered (fir/src/lower/mod.rs:331-473, fir/src/module.rs:27-60).
LoweringAdds ==
  Finished /\ ~top.failed =>
    \A order \in Orders :
      LET merged == merge_all(order)
          lowered == lower_on(order, top.path, top.scope)
          own == ItemNames(program, top.path)
      IN /\ AllLowerable => ~lowered.failed
         /\ ~lowered.failed =>
              /\ Extends(lowered, merged) /\ Len(lowered.classes) <= Sentinel
              /\ NamesPast(lowered, Len(merged.functions), Len(merged.classes)) \subseteq own \cup Reserved
              /\ Sound(merged) /\ own \cap (NamesPast(merged, 0, 0) \cup Reserved) = {} => Sound(lowered)
              /\ Defines(lowered, top.path)

\* Where no two files have an item of the same name, references mean what they meant
\* (fir/src/lower/mod.rs:554 knows a function by its bare name).
LinksKept == NamesApart => LinksMeant

\* Code that comes in with several modules is in the program once
\* (fir/src/lower/mod.rs:557 and 609).
EachOnce ==
  result = "linked" =>
    /\ \A f, g \in {i \in 1..Len(fir_module.functions) : fir_module.functions[i].name # <<>>} :
         fir_module.functions[f].means = fir_module.functions[g].means => f = g
    /\ \A i, j \in 1..Len(fir_module.classes) : fir_module.classes[i].means = fir_module.classes[j].means => i = j

\* If all code can be lowered and names are apart, the functions of every file are in
\* the program (module_loader.rs:187-200).
AllThere ==
  result = "linked" /\ AllLowerable /\ NamesApart => \A p \in Reached(program, {Main}) : Defines(fir_module, p)

================================================================================
