------------------------------ MODULE Evaluation ------------------------------
(***************************************************************************)
(* What a program does, with values that know what they are: the meaning   *)
(* types are judged against.  An operation on a value it has no meaning    *)
(* for is stuck; an error the language defines at run time (an index out   *)
(* of range, a division by zero, an empty pop) stops the program, as does  *)
(* running out of the bound on nested calls and on rounds of a loop.       *)
(***************************************************************************)
EXTENDS Syntax

CONSTANTS MaxDepth,   \* nested calls
          MaxRounds   \* rounds of a loop

-----------------------------------------------------------------------------
(* Values.  Lists, sets, maps, objects and tasks live on the heap.         *)

VInt(n) == <<"Int", n>>
VFloat(n) == <<"Float", n>>
VStr == <<"String">>
VBool(b) == <<"Bool", b>>
VNil == <<"Nil">>
VVoid == <<"Void">>
Ref(a) == <<"Ref", a>>
Closure(lambda, locals) == <<"Closure", lambda, locals>>
Variant(enum, name) == <<"Variant", enum, name>>

\* A machine: the variables of the program and of the function that runs, the
\* heap, the declarations by name, and how many blocks are around the statement.
Machine == [globals |-> [n \in {} |-> VVoid], locals |-> [n \in {} |-> VVoid], heap |-> <<>>, depth |-> 0,
            blocks |-> 0,
            classes |-> [c \in {} |-> VVoid], enums |-> [c \in {} |-> {}]]

Out(how, v, M) == [out |-> how, v |-> v, m |-> M]
Go(v, M) == Out("go", v, M)
Stuck(M) == Out("stuck", VVoid, M)
Stop(M) == Out("stop", VVoid, M)

\* What runs as part of what: "expr", "exprs", "stmt", "body", "apply".
RECURSIVE Run(_, _, _)

Then(r, Next(_, _)) == IF r.out = "go" THEN Next(r.v, r.m) ELSE r

Object(M, v) == M.heap[v[2]]
IsObject(M, v, kind) == v[1] = "Ref" /\ Object(M, v).kind = kind
Alloc(object, M) == Go(Ref(Len(M.heap) + 1), [M EXCEPT !.heap = Append(@, object)])
ListObject(elems) == [kind |-> "List", elems |-> elems]


\* In a method the fields of the object are variables, behind the parameters.
Fields(M) == IF "self" \in DOMAIN M.locals THEN Object(M, M.locals["self"]).fields ELSE [n \in {} |-> VVoid]

Value(M, name) ==
  CASE name \in DOMAIN M.locals -> M.locals[name]
    [] name \in DOMAIN Fields(M) -> Fields(M)[name]
    [] name \in DOMAIN M.globals -> M.globals[name]
    [] OTHER -> <<"None">>

Declare(M, name, v) ==
  IF M.depth = 0 THEN [M EXCEPT !.globals = (name :> v) @@ @] ELSE [M EXCEPT !.locals = (name :> v) @@ @]

SetField(M, self, name, v) == [M EXCEPT !.heap[self[2]].fields[name] = v]

Assign(M, name, v) ==
  CASE name \in DOMAIN M.locals -> [M EXCEPT !.locals[name] = v]
    [] name \in DOMAIN Fields(M) -> SetField(M, M.locals["self"], name, v)
    [] OTHER -> [M EXCEPT !.globals[name] = v]

\* The names a block declares end with it, and uncover what they hid.
EndOfBlock(own, before, r) ==
  LET kept(old, new) == [n \in DOMAIN old |-> IF n \in own THEN old[n] ELSE new[n]]
  IN IF before.depth = 0 THEN [r EXCEPT !.m.globals = kept(before.globals, @)]
     ELSE [r EXCEPT !.m.locals = kept(before.locals, @)]

Block(body, M) ==
  LET r == Run("body", body, [M EXCEPT !.blocks = @ + 1])
  IN EndOfBlock({body[i].name : i \in {j \in 1..Len(body) : body[j].k = "Let"}}, M, [r EXCEPT !.m.blocks = M.blocks])

-----------------------------------------------------------------------------
(* Operators *)

Size == 3   \* numbers are counted modulo Size
Number(v) == v[1] \in {"Int", "Float"}
Same(a, b, M) == IF a[1] = "Ref" /\ b[1] = "Ref" THEN Object(M, a) = Object(M, b) ELSE a = b

Operate(op, a, b, M) ==
  CASE op \in {"/", "%"} /\ Number(a) /\ Number(b) /\ b[2] = 0 -> Stop(M)
    [] op \in {"+", "-", "*", "/", "%", "**"} /\ Number(a) /\ Number(b) ->
         Go(<<IF a[1] = b[1] THEN a[1] ELSE "Float", IF op = "+" THEN (a[2] + b[2]) % Size ELSE (a[2] * b[2]) % Size>>, M)
    [] op = "+" /\ a = VStr /\ b = VStr -> Go(VStr, M)
    [] op \in {"==", "!="} /\ (a[1] = b[1] \/ (Number(a) /\ Number(b))) /\ a[1] # "Closure" ->
         Go(VBool(Same(a, b, M) = (op = "==")), M)
    [] op \in {"<", ">", "<=", ">="} /\ Number(a) /\ Number(b) ->
         Go(VBool(IF op \in {"<", "<="} THEN a[2] < b[2] ELSE a[2] > b[2]), M)
    [] op \in {"<", ">", "<=", ">="} /\ a = VStr /\ b = VStr -> Go(VBool(op \in {"<=", ">="}), M)
    [] op \in {"and", "or"} /\ a[1] = "Bool" /\ b[1] = "Bool" ->
         Go(VBool(IF op = "and" THEN a[2] /\ b[2] ELSE a[2] \/ b[2]), M)
    [] OTHER -> Stuck(M)

Negate(op, a, M) ==
  CASE op = "-" /\ Number(a) -> Go(a, M)
    [] op = "not" /\ a[1] = "Bool" -> Go(VBool(~a[2]), M)
    [] OTHER -> Stuck(M)

-----------------------------------------------------------------------------
(* Functions.  Arguments are <<name, value>>, "_0" and on without a name.   *)

\* A call gives what it returned, or else its last value.
Returned(r, caller) ==
  CASE r.out = "return" -> [r EXCEPT !.out = "go", !.m.locals = caller.locals, !.m.depth = caller.depth]
    [] r.out \in {"break", "continue"} -> Stuck(caller)
    [] OTHER -> [r EXCEPT !.m.locals = caller.locals, !.m.depth = caller.depth]

Place(params, arg) ==
  {i \in 1..Len(params) : params[i][1] = arg \/ (arg \in {"_0", "_1"} /\ i = IF arg = "_0" THEN 1 ELSE 2)}

\* Parameters without an argument are declared from their defaults, in the function.
Entered(l, locals, bound, args, M) ==
  LET free == SelectSeq([i \in 1..Len(l.params) |-> i], LAMBDA i : i \notin bound)
      value(i) == args[CHOOSE j \in 1..Len(args) : i \in Place(l.params, args[j][1])][2]
      at(name) == CHOOSE i \in bound : l.params[i][1] = name
  IN Run("body", [j \in 1..Len(free) |-> Let(l.params[free[j]][1], NoType, l.defaults[free[j]])] \o l.body,
         [M EXCEPT !.depth = @ + 1,
                   !.locals = [n \in {l.params[i][1] : i \in bound} |-> value(at(n))] @@ locals])

Entering(l, locals, bound, args, M) ==
  CASE Cardinality(bound) # Len(args) \/ \E i \in 1..Len(l.params) : i \notin bound /\ l.defaults[i] = NoExpr -> Stuck(M)
    [] M.depth >= MaxDepth -> Stop(M)
    [] OTHER -> Returned(Entered(l, locals, bound, args, M), M)

\* A collector is a function that adds what it is given to a list.
Collector(list) == <<"Collector", list>>
Collected(list, v, M) == Go(VVoid, [M EXCEPT !.heap[list[2]].elems = Append(@, v)])

Apply(f, args, M) ==
  CASE f[1] = "Closure" -> Entering(f[2], f[3], UNION {Place(f[2].params, args[j][1]) : j \in 1..Len(args)}, args, M)
    [] f[1] = "Collector" -> IF Len(args) = 1 THEN Collected(f[2], args[1][2], M) ELSE Stuck(M)
    [] OTHER -> Stuck(M)

Call1(f, v, M) == Run("apply", <<f, << <<"_0", v>> >>>>, M)

-----------------------------------------------------------------------------
(* Classes *)

RECURSIVE Lineage(_, _)
Lineage(M, class) == \* a class and its ancestors, nearest first
  IF class \notin DOMAIN M.classes THEN <<>> ELSE <<class>> \o Lineage(M, M.classes[class].extends)

IsA(M, class, ancestor) == ancestor \in Range(Lineage(M, class))
AllFields(M, lineage) == FlattenSeq([i \in 1..Len(lineage) |-> M.classes[Reverse(lineage)[i]].fields])
Methods(M, lineage) == FlattenSeq([i \in 1..Len(lineage) |-> M.classes[lineage[i]].methods])

Constructed(class, fields, args, M) ==
  LET value(name) == args[CHOOSE j \in 1..Len(args) : args[j][1] = name \/ Len(args) = 1][2]
  IN IF /\ Len(args) = Len(fields)
        /\ \A i \in 1..Len(fields) : \E j \in 1..Len(args) : args[j][1] = fields[i][1] \/ (Len(args) = 1 /\ args[1][1] = "_0")
       THEN Alloc([kind |-> "Object", class |-> class, fields |-> [n \in {fields[i][1] : i \in 1..Len(fields)} |-> value(n)]], M)
       ELSE Stuck(M)

\* The nearest method of the name runs with the object as self.
Invoke(self, methods, args, M) ==
  IF methods = <<>> THEN Stuck(M) ELSE Run("apply", <<Closure(methods[1].value, "self" :> self), args>>, M)

-----------------------------------------------------------------------------
(* Members of the builtin types *)

\* f of each element in turn.
Visit(f, elems, M) ==
  FoldLeft(LAMBDA r, v : Then(r, LAMBDA vs, M1 : Then(Call1(f, v, M1), LAMBDA w, M2 : Go(Append(vs, w), M2))),
           Go(<<>>, M), elems)

SetElems(M, self, elems) == [M EXCEPT !.heap[self[2]].elems = elems]
True(vs) == SelectSeq([i \in 1..Len(vs) |-> i], LAMBDA i : vs[i] = VBool(TRUE))
At(elems, is) == [j \in 1..Len(is) |-> elems[is[j]]]
OrNil(vs) == IF vs = <<>> THEN VNil ELSE vs[1]

Iterated(self, name, elems, vs, M) ==
  CASE name = "each" -> Go(VVoid, M)
    [] name = "map" -> Alloc(ListObject(vs), M)
    [] \E i \in 1..Len(vs) : vs[i][1] # "Bool" -> Stuck(M)
    [] name = "filter" -> Alloc(ListObject(At(elems, True(vs))), M)
    [] name = "find" -> Go(OrNil(At(elems, True(vs))), M)
    [] name = "any" -> Go(VBool(True(vs) # <<>>), M)
    [] name = "all" -> Go(VBool(Len(True(vs)) = Len(vs)), M)
    [] name = "remove_first" ->
         Go(OrNil(At(elems, True(vs))), IF True(vs) = <<>> THEN M ELSE SetElems(M, self, RemoveAt(elems, True(vs)[1])))

CollectionMember(self, name, elems, arg, M) ==
  CASE name = "push" -> Go(VVoid, SetElems(M, self, Append(elems, arg)))
    [] name = "pop" -> IF elems = <<>> THEN Stop(M) ELSE Go(Last(elems), SetElems(M, self, Front(elems)))
    [] name = "remove" -> IF arg[1] # "Int" THEN Stuck(M) ELSE IF arg[2] >= Len(elems) THEN Stop(M)
                          ELSE Go(elems[arg[2] + 1], SetElems(M, self, RemoveAt(elems, arg[2] + 1)))
    [] name \in {"len", "count"} -> Go(VInt(Len(elems) % Size), M)
    [] name \in {"first", "min"} -> Go(OrNil(elems), M)
    [] name \in {"last", "max"} -> Go(OrNil(Reverse(elems)), M)
    [] name \in {"to_list", "sort", "unique"} -> Alloc(ListObject(elems), M)
    [] name = "contains" -> Go(VBool(\E i \in 1..Len(elems) : Same(elems[i], arg, M)), M)
    [] name = "random" -> IF elems = <<>> THEN Stop(M) ELSE Go(elems[1], M)
    [] name \in {"each", "map", "filter", "find", "any", "all", "remove_first"} ->
         Then(Visit(arg, elems, M), LAMBDA vs, M1 : Iterated(self, name, elems, vs, M1))
    [] OTHER -> Stuck(M)

SharedMember(self, name, elems, arg, M) ==
  CASE name \in {"acquire", "try_receive"} -> IF elems = <<>> THEN Stop(M) ELSE Go(elems[1], M)
    [] name = "receive" -> Go(OrNil(elems), IF elems = <<>> THEN M ELSE SetElems(M, self, Tail(elems)))
    [] name = "release" -> Go(VVoid, SetElems(M, self, <<arg>>))
    [] name \in {"send", "wait_send"} -> Go(VVoid, SetElems(M, self, Append(elems, arg)))
    [] OTHER -> Stuck(M)

StringMember(name, arg, M) ==
  CASE name = "len" -> Go(VInt(1), M)
    [] name \in {"contains", "starts_with", "ends_with"} /\ arg = VStr -> Go(VBool(TRUE), M)
    [] name \in {"trim", "to_upper", "to_lower"} -> Go(VStr, M)
    [] name = "split" /\ arg = VStr -> Alloc(ListObject(<<VStr, VStr>>), M)
    [] OTHER -> Stuck(M)

NumberMember(self, name, arg, M) ==
  CASE name \in {"is_even", "is_odd"} /\ self[1] = "Int" -> Go(VBool(self[2] = 0), M)
    [] name \in {"round", "floor", "ceil"} /\ self[1] = "Float" -> Go(VInt(self[2]), M)
    [] name \in {"min", "max"} /\ arg[1] = self[1] -> Go(arg, M)
    [] name = "abs" -> Go(self, M)
    [] OTHER -> Stuck(M)

Named_(methods, name) == SelectSeq(methods, LAMBDA m : m.name = name)
MethodsOf(self, name, M) == Named_(Methods(M, Lineage(M, Object(M, self).class)), name)

\* What each() of an object gives, as a new list.
Listed(self, each, M) ==
  Then(Alloc(ListObject(<<>>), M), LAMBDA list, M1 :
    Then(Invoke(self, each, << <<"_0", Collector(list)>> >>, M1), LAMBDA v, M2 : Go(list, M2)))

\* What an object has no field or method for is left to the elements it gives.
ObjectMember(self, name, args, arg, M) ==
  CASE name \in DOMAIN Object(M, self).fields -> Run("apply", <<Object(M, self).fields[name], args>>, M)
    [] MethodsOf(self, name, M) # <<>> \/ MethodsOf(self, "each", M) = <<>> -> Invoke(self, MethodsOf(self, name, M), args, M)
    [] name \in {"push", "pop", "remove", "remove_first"} -> Stuck(M)
    [] OTHER -> Then(Listed(self, MethodsOf(self, "each", M), M), LAMBDA list, M1 :
                  CollectionMember(list, name, Object(M1, list).elems, arg, M1))

HeapMember(self, name, args, arg, M) ==
  CASE Object(M, self).kind \in {"List", "Set"} -> CollectionMember(self, name, Object(M, self).elems, arg, M)
    [] Object(M, self).kind \in {"Mutex", "Channel"} -> SharedMember(self, name, Object(M, self).elems, arg, M)
    [] Object(M, self).kind = "Task" -> IF name = "is_ready" THEN Go(VBool(Object(M, self).ready), M) ELSE Go(VVoid, M)
    [] Object(M, self).kind = "Object" -> ObjectMember(self, name, args, arg, M)
    [] OTHER -> Stuck(M)

CallMember(self, name, args, M) ==
  LET arg == IF args = <<>> THEN <<"None">> ELSE args[1][2]
  IN CASE self[1] = "Ref" -> HeapMember(self, name, args, arg, M)
       [] self = VStr -> StringMember(name, arg, M)
       [] Number(self) -> NumberMember(self, name, arg, M)
       [] OTHER -> Stuck(M)

GetMember(self, name, M) ==
  IF IsObject(M, self, "Object") /\ name \in DOMAIN Object(M, self).fields THEN Go(Object(M, self).fields[name], M)
  ELSE Stuck(M)

\* A way out of nil is evaluated when it is needed.
WaysOut == {"or", "or_else", "or_throw"}
WayOut(v, name, e, M) ==
  CASE v # VNil -> Go(v, M)
    [] name = "or_throw" -> Then(Run("expr", e, M), LAMBDA w, M1 : Out("throw", w, M1))
    [] OTHER -> Run("expr", e, M)

-----------------------------------------------------------------------------
(* Calls *)

Operands(args) == [i \in 1..Len(args) |-> args[i][2]]
Named(args, vs) == [i \in 1..Len(args) |-> <<args[i][1], vs[i]>>]

\* What came of a task can be taken once; to ask for it again raises an error,
\* which says here where it was taken: in a block, or in none.
Consumed(where) == <<"Consumed", where>>

Taken(task, M) ==
  IF ~IsObject(M, task, "Task") THEN Stuck(M)
  ELSE IF Object(M, task).taken # "no" THEN Out("throw", Consumed(Object(M, task).taken), M)
  ELSE Out(Object(M, task).result[1], Object(M, task).result[2],
           [M EXCEPT !.heap[task[2]].ready = TRUE,
                     !.heap[task[2]].taken = IF M.blocks > 0 THEN "in a block" ELSE "in none"])

\* The results in a list, or that of the first, which ends the others.
ResolveAll(first, tasks, M) ==
  Then(FoldLeft(LAMBDA r, t : Then(r, LAMBDA vs, M1 : Then(Taken(t, M1), LAMBDA v, M2 : Go(Append(vs, v), M2))), Go(<<>>, M), tasks),
       LAMBDA vs, M1 : IF ~first THEN Alloc(ListObject(vs), M1) ELSE IF vs = <<>> THEN Stop(M1) ELSE Go(vs[1], M1))

Builtin(name, vs, M) ==
  CASE name = "len" /\ Len(vs) = 1 -> IF vs[1] = VStr THEN Go(VInt(1), M)
                      ELSE IF vs[1][1] = "Ref" /\ Object(M, vs[1]).kind \in {"List", "Set"} THEN Go(VInt(Len(Object(M, vs[1]).elems) % Size), M)
                      ELSE Stuck(M)
    [] name \in {"say", "log"} /\ Len(vs) = 1 /\ vs[1][1] \in {"Int", "Float", "Bool", "String"} -> Go(VVoid, M)
    [] name = "to_string" /\ Len(vs) = 1 /\ vs[1][1] \in {"Int", "Float", "Bool", "String"} -> Go(VStr, M)
    [] name = "random" -> Go(IF vs = <<>> THEN VBool(TRUE) ELSE vs[1], M)
    [] name \in {"resolve_all", "resolve_first"} /\ Len(vs) = 1 /\ IsObject(M, vs[1], "List") ->
         ResolveAll(name = "resolve_first", Object(M, vs[1]).elems, M)
    [] name = "Mutex" -> Alloc([kind |-> "Mutex", elems |-> vs], M)
    [] name = "Channel" -> Alloc([kind |-> "Channel", elems |-> <<>>], M)
    [] OTHER -> Stuck(M)

CallNamed(name, args, vs, M) ==
  CASE Value(M, name) # <<"None">> -> Run("apply", <<Value(M, name), Named(args, vs)>>, M)
    [] name \in DOMAIN M.classes -> Constructed(name, AllFields(M, Lineage(M, name)), Named(args, vs), M)
    [] OTHER -> Builtin(name, vs, M)

\* A method called on its class.
Static(methods, args, M) == IF methods = <<>> THEN Stuck(M) ELSE Run("apply", <<Closure(methods[1].value, [n \in {} |-> VVoid]), args>>, M)

Perform(f, args, M) ==
  CASE f.k = "Ident" -> Then(Run("exprs", Operands(args), M), LAMBDA vs, M1 : CallNamed(f.name, args, vs, M1))
    [] f.k = "Index" -> Alloc([kind |-> "Set", elems |-> <<>>], M)
    [] f.k = "Member" /\ f.object.k = "Ident" /\ f.object.name \in DOMAIN M.classes ->
         Then(Run("exprs", Operands(args), M), LAMBDA vs, M1 : Static(Named_(M1.classes[f.object.name].methods, f.field), Named(args, vs), M1))
    [] f.k = "Member" ->
         Then(Run("expr", f.object, M), LAMBDA self, M1 :
           IF f.field \in WaysOut THEN WayOut(self, f.field, args[1][2], M1)
           ELSE IF f.field = "responds_to" THEN Go(VBool(TRUE), M1)
           ELSE IF f.field = "is_a" THEN Go(VBool(IsObject(M1, self, "Object")), M1)
           ELSE Then(Run("exprs", Operands(args), M1), LAMBDA vs, M2 : CallMember(self, f.field, Named(args, vs), M2)))
    [] OTHER -> Then(Run("exprs", <<f>> \o Operands(args), M), LAMBDA vs, M1 : Run("apply", <<vs[1], Named(args, Tail(vs))>>, M1))

\* A task runs when it is created, and may be over only later.
Spawned(r) ==
  IF r.out \in {"go", "throw"}
    THEN Alloc([kind |-> "Task", result |-> <<r.out, r.v>>, ready |-> FALSE, taken |-> "no"], r.m) ELSE r

Unready(M) == {i \in 1..Len(M.heap) : M.heap[i].kind = "Task" /\ ~M.heap[i].ready}
Finished(tasks, M) ==
  [M EXCEPT !.heap = [i \in DOMAIN @ |-> IF i \in tasks THEN [@[i] EXCEPT !.ready = TRUE] ELSE @[i]]]

\* An error goes to the first arm for it, or further up.
Caught(arms, v, M) ==
  LET fits(p) == p.k = "Wildcard" \/ (IsObject(M, v, "Object") /\ IsA(M, Object(M, v).class, p.error_type))
      chosen == SelectSeq(arms, LAMBDA a : fits(a[1]))
  IN CASE chosen = <<>> -> Out("throw", v, M)
       [] chosen[1][1].k = "Wildcard" -> Run("expr", chosen[1][2], M)
       [] OTHER -> EndOfBlock({chosen[1][1].var}, M, Run("expr", chosen[1][2], Declare(M, chosen[1][1].var, v)))

Literal(e) ==
  CASE e.k = "Int" -> VInt(1)
    [] e.k = "Float" -> VFloat(1)
    [] e.k = "Str" -> VStr
    [] e.k = "Bool" -> VBool(e.value)
    [] e.k = "Nil" -> VNil

Matches(p, v) ==
  CASE p.k \in {"Wildcard", "Ident"} -> TRUE
    [] p.k = "Literal" -> v = Literal(p.expr)
    [] p.k = "EnumVariant" -> v = Variant(p.enum, p.variant)

Chosen(arms, v, M) ==
  LET fitting == SelectSeq(arms, LAMBDA a : Matches(a[1], v))
  IN CASE fitting = <<>> -> Stuck(M)
       [] fitting[1][1].k = "Ident" ->
            EndOfBlock({fitting[1][1].name}, M, Run("expr", fitting[1][2], Declare(M, fitting[1][1].name, v)))
       [] OTHER -> Run("expr", fitting[1][2], M)

-----------------------------------------------------------------------------
(* Elements *)

Pairs(vs) == [i \in 1..(Len(vs) \div 2) |-> <<vs[2 * i - 1], vs[2 * i]>>]

ReadIndex(object, index, M) ==
  CASE IsObject(M, object, "List") /\ index[1] = "Int" ->
         IF index[2] < Len(Object(M, object).elems) THEN Go(Object(M, object).elems[index[2] + 1], M) ELSE Stop(M)
    [] IsObject(M, object, "Map") ->
         LET found == SelectSeq(Object(M, object).entries, LAMBDA p : p[1] = index)
         IN Go(IF found = <<>> THEN VNil ELSE found[1][2], M)
    [] OTHER -> Stuck(M)

WriteIndex(object, index, v, M) ==
  CASE IsObject(M, object, "List") /\ index[1] = "Int" ->
         IF index[2] < Len(Object(M, object).elems) THEN Go(VVoid, [M EXCEPT !.heap[object[2]].elems[index[2] + 1] = v]) ELSE Stop(M)
    [] IsObject(M, object, "Map") ->
         Go(VVoid, [M EXCEPT !.heap[object[2]].entries = <<<<index, v>>>> \o SelectSeq(@, LAMBDA p : p[1] # index)])
    [] OTHER -> Stuck(M)

Elements(v, M) ==
  CASE IsObject(M, v, "List") \/ IsObject(M, v, "Set") -> Object(M, v).elems
    [] IsObject(M, v, "Object") /\ Object(M, v).class = "Range" -> <<VInt(1)>>
    [] OTHER -> <<>>

IsRange(v, M) == IsObject(M, v, "Object") /\ Object(M, v).class = "Range"
Iterable(v, M) == IsObject(M, v, "List") \/ IsObject(M, v, "Set") \/ IsRange(v, M)

\* A loop over an object goes over what its each() gives.
Traversed(v, M) ==
  IF IsObject(M, v, "Object") /\ ~IsRange(v, M) THEN Listed(v, MethodsOf(v, "each", M), M) ELSE Go(v, M)

-----------------------------------------------------------------------------
(* Statements *)

\* After a round of a loop: break ends it, continue goes on.
Round(r, Next(_)) ==
  CASE r.out \in {"go", "continue"} -> Next(r.m)
    [] r.out = "break" -> Go(VVoid, r.m)
    [] OTHER -> r

Loop(s, rounds, M) ==
  IF rounds = 0 THEN Stop(M)
  ELSE Then(Run("expr", s.cond, M), LAMBDA c, M1 :
         CASE c = VBool(FALSE) -> Go(VVoid, M1)
           [] c = VBool(TRUE) -> Round(Block(s.body, M1), LAMBDA M2 : Run("while", <<s, rounds - 1>>, M2))
           [] OTHER -> Stuck(M1))

Each(s, elems, M) ==
  IF elems = <<>> THEN Go(VVoid, M)
  ELSE Round(EndOfBlock({s.var}, M, Block(s.body, Declare(M, s.var, elems[1]))),
             LAMBDA M1 : Run("for", <<s, Tail(elems)>>, M1))

Branches(branches, else_body, M) ==
  IF branches = <<>> THEN Block(else_body, M)
  ELSE Then(Run("expr", branches[1][1], M), LAMBDA c, M1 :
         CASE c = VBool(TRUE) -> Block(branches[1][2], M1)
           [] c = VBool(FALSE) -> Run("stmt", If(Tail(branches), else_body), M1)
           [] OTHER -> Stuck(M1))

Store(target, v, M) ==
  CASE target.k = "Ident" -> Go(VVoid, Assign(M, target.name, v))
    [] target.k = "Member" ->
         Then(Run("expr", target.object, M), LAMBDA o, M1 :
           IF IsObject(M1, o, "Object") /\ target.field \in DOMAIN Object(M1, o).fields
             THEN Go(VVoid, SetField(M1, o, target.field, v)) ELSE Stuck(M1))
    [] target.k = "Index" ->
         Then(Run("exprs", <<target.object, target.index>>, M), LAMBDA vs, M1 : WriteIndex(vs[1], vs[2], v, M1))

Execute(s, M) ==
  CASE s.k \in {"Let", "Const"} -> Then(Run("expr", s.value, M), LAMBDA v, M1 : Go(VVoid, Declare(M1, s.name, v)))
    [] s.k = "Expr" -> Run("expr", s.expr, M)
    [] s.k = "Return" -> Then(Run("expr", s.expr, M), LAMBDA v, M1 : Out("return", v, M1))
    [] s.k = "If" -> Branches(s.branches, s.else_body, M)
    [] s.k = "While" -> Run("while", <<s, MaxRounds>>, M)
    [] s.k = "For" -> Then(Run("expr", s.iter, M), LAMBDA v, M1 : Then(Traversed(v, M1), LAMBDA w, M2 :
                        IF Iterable(w, M2) THEN Run("for", <<s, Elements(w, M2)>>, M2) ELSE Stuck(M2)))
    [] s.k = "Assignment" -> Then(Run("expr", s.value, M), LAMBDA v, M1 : Store(s.target, v, M1))
    [] s.k = "Break" -> Out("break", VVoid, M)
    [] s.k = "Continue" -> Out("continue", VVoid, M)
    [] s.k = "Class" -> Go(VVoid, [M EXCEPT !.classes = (s.name :> s) @@ @])
    [] s.k = "Enum" -> Go(VVoid, [M EXCEPT !.enums = (s.name :> DOMAIN s.variants) @@ @])
    [] OTHER -> Go(VVoid, M)

Compute(e, M) ==
  CASE e.k \in {"Int", "Float", "Str", "Bool", "Nil"} -> Go(Literal(e), M)
    [] e.k = "Ident" -> IF Value(M, e.name) = <<"None">> THEN Stuck(M) ELSE Go(Value(M, e.name), M)
    [] e.k = "Lambda" -> Go(Closure(e, M.locals), M)
    [] e.k \in {"Call", "BlockingCall"} -> Perform(e.func, e.args, M)
    [] e.k = "AsyncCall" -> Spawned(Perform(e.func, e.args, M))
    [] e.k = "DetachedCall" -> Go(VVoid, Perform(e.func, e.args, M).m)
    [] e.k = "Resolve" -> Then(Run("expr", e.expr, M), LAMBDA v, M1 : Taken(v, M1))
    [] e.k = "Propagate" -> Run("expr", e.expr, M)
    [] e.k = "Throw" -> Then(Run("expr", e.expr, M), LAMBDA v, M1 : Out("throw", v, M1))
    [] e.k \in {"ErrorOr", "ErrorOrElse"} ->
         LET r == Run("expr", e.expr, M)
         IN IF r.out = "throw" THEN Run("expr", IF e.k = "ErrorOr" THEN e.default ELSE e.handler, r.m) ELSE r
    [] e.k = "ErrorCatch" -> LET r == Run("expr", e.expr, M) IN IF r.out = "throw" THEN Caught(e.arms, r.v, r.m) ELSE r
    [] e.k = "BinaryOp" -> Then(Run("exprs", <<e.left, e.right>>, M), LAMBDA vs, M1 : Operate(e.op, vs[1], vs[2], M1))
    [] e.k = "UnaryOp" -> Then(Run("expr", e.operand, M), LAMBDA v, M1 : Negate(e.op, v, M1))
    [] e.k = "StringInterpolation" -> Then(Run("exprs", e.parts, M), LAMBDA vs, M1 : Go(VStr, M1))
    [] e.k = "ListLiteral" -> Then(Run("exprs", e.elems, M), LAMBDA vs, M1 : Alloc(ListObject(vs), M1))
    [] e.k = "Map" -> Then(Run("exprs", FlattenSeq(e.entries), M), LAMBDA vs, M1 :
                        Alloc([kind |-> "Map", entries |-> Pairs(vs)], M1))
    [] e.k = "Range" -> Then(Run("exprs", <<e.start, e.end>>, M), LAMBDA vs, M1 :
                          Alloc([kind |-> "Object", class |-> "Range", fields |-> ("start" :> vs[1]) @@ ("end" :> vs[2]) @@ ("inclusive" :> VBool(FALSE))], M1))
    [] e.k = "Index" -> Then(Run("exprs", <<e.object, e.index>>, M), LAMBDA vs, M1 : ReadIndex(vs[1], vs[2], M1))
    [] e.k = "Member" ->
         IF e.object.k = "Ident" /\ e.object.name \in DOMAIN M.enums THEN Go(Variant(e.object.name, e.field), M)
         ELSE Then(Run("expr", e.object, M), LAMBDA v, M1 : GetMember(v, e.field, M1))
    [] e.k = "Match" -> Then(Run("expr", e.scrutinee, M), LAMBDA v, M1 : Chosen(e.arms, v, M1))

Run(part, x, M) ==
  CASE part = "expr" -> Compute(x, M)
    [] part = "exprs" ->
         FoldLeft(LAMBDA r, e : Then(r, LAMBDA vs, M1 : Then(Run("expr", e, M1), LAMBDA v, M2 : Go(Append(vs, v), M2))),
                  Go(<<>>, M), x)
    [] part = "stmt" -> Execute(x, M)
    [] part = "body" -> FoldLeft(LAMBDA r, s : Then(r, LAMBDA v, M1 : Run("stmt", s, M1)), Go(VVoid, M), x)
    [] part = "apply" -> Apply(x[1], x[2], M)
    [] part = "while" -> Loop(x[1], x[2], M)
    [] part = "for" -> Each(x[1], x[2], M)

-----------------------------------------------------------------------------
(* What it is for a value to be of a type, seen to a depth. *)

RECURSIVE HasType(_, _, _, _)
HasType(v, t, depth, M) ==
  LET all(vs, u) == \A i \in 1..Len(vs) : HasType(vs[i], u, depth - 1, M)
      fields == AllFields(M, Lineage(M, Object(M, v).class))
  IN CASE depth = 0 \/ t[1] \in {"Error", "Never", "TypeVar"} -> TRUE
       [] t[1] \in {"Int", "Float", "String", "Bool", "Nil", "Void"} -> v[1] = t[1]
       [] t[1] = "Nullable" -> v = VNil \/ HasType(v, t[2], depth - 1, M)
       [] t[1] \in {"List", "Set"} -> IsObject(M, v, t[1]) /\ all(Object(M, v).elems, t[2])
       [] t[1] = "Map" ->
            /\ IsObject(M, v, "Map")
            /\ \A p \in Range(Object(M, v).entries) : HasType(p[1], t[2], depth - 1, M) /\ HasType(p[2], t[3], depth - 1, M)
       [] t[1] = "Task" -> IsObject(M, v, "Task") /\ (Object(M, v).result[1] = "go" => HasType(Object(M, v).result[2], t[2], depth - 1, M))
       [] t[1] = "Function" -> v[1] = "Closure" /\ Len(v[2].params) = Len(t[3])
       [] t[2] \in DOMAIN M.enums -> v[1] = "Variant" /\ v[2] = t[2] /\ v[3] \in M.enums[t[2]]
       [] t[2] \in {"Mutex", "Channel"} -> IsObject(M, v, t[2]) /\ all(Object(M, v).elems, t[3][1])
       [] OTHER ->
            /\ IsObject(M, v, "Object")
            /\ IsA(M, Object(M, v).class, t[2])
            /\ \A i \in 1..Len(fields) : HasType(Object(M, v).fields[fields[i][1]], fields[i][2], depth - 1, M)
=============================================================================
