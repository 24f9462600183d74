------------------------------ MODULE ModuleCode ------------------------------
(***************************************************************************)
(* What the bodies of a file become (fir/src/lower/mod.rs, stmt.rs,        *)
(* expr.rs, method.rs): a file is lowered on top of the tables of the code *)
(* it may call, its names and lambdas becoming numbers of their rows.      *)
(***************************************************************************)
EXTENDS Linker

-----------------------------------------------------------------------------
(* Lowering *)

Lowered(L, refs) == [L |-> L, refs |-> refs]
FnRef(id, means) == [k |-> "fn", id |-> id, means |-> means]
ClassRef(id, means) == [k |-> "class", id |-> id, means |-> means]

RECURSIVE lower_body(_, _, _, _)

\* A lambda is lifted to a function named after the next number; its body comes first.
lower_lambda(lambda_name, means, r) ==
  LET L == register_function(r.L, lambda_name, means, r.refs)
  IN [L |-> L, ref |-> FnRef(L.function_names[lambda_name], means)]

lower_expr(ref, scope, means, L) ==
  CASE ref.k = "fn" /\ ref.name \in DOMAIN L.function_names ->
         [L |-> L, ref |-> FnRef(L.function_names[ref.name], scope[ref.name])]
    [] ref.k = "class" /\ ref.class \in DOMAIN L.class_names ->
         [L |-> L, ref |-> ClassRef(L.class_names[ref.class], scope[<<ref.class>>])]
    [] ref.k = "lambda" ->
         lower_lambda(<<"__lambda", ToString(L.next_function)>>, means, lower_body(ref.body, scope, means, L))
    [] OTHER -> [L |-> [L EXCEPT !.failed = TRUE], ref |-> FnRef(0, <<>>)]

\* A body in order; "scope" is what its names mean, "means" what it is itself.
lower_body(body, scope, means, L) ==
  FoldLeft(LAMBDA r, i : LET e == lower_expr(body[i], scope, Append(means, ToString(i)), r.L)
                         IN Lowered(e.L, Append(r.refs, e.ref)),
           Lowered(L, <<>>), [i \in 1..Len(body) |-> i])

lower_function(name, body, scope, L) ==
  LET r == lower_body(body, scope, scope[name], L) IN register_function(r.L, name, scope[name], r.refs)

lower_methods(class, methods, scope, L) ==
  FoldLeft(LAMBDA acc, m : lower_function(<<class, m.name>>, m.body, scope, acc), L, methods)

\* A class copies the default methods of its traits it has no method for.
copy_default(class, trait, method, scope, L) ==
  LET name == <<class, method>>
      id == L.function_names[<<trait, method>>]
  IN IF name \in DOMAIN L.function_names \/ id >= Len(L.functions) THEN L
     ELSE register_function(L, name, scope[name], L.functions[id + 1].refs)

lower_class(s, scope, L) ==
  LET known == [L EXCEPT !.classes = Append(@, [id |-> L.class_names[s.name], name |-> s.name, means |-> scope[<<s.name>>]])]
      inherited == {n \in DOMAIN L.function_names : n[1] \in s.includes}
  IN FoldLeft(LAMBDA acc, n : copy_default(s.name, n[1], n[2], scope, acc),
              lower_methods(s.name, s.methods, scope, known), SetToSeq(inherited))

\* Functions, default methods and classes have their numbers before any is lowered.
first_pass(L, s) ==
  LET pre(acc, name) == [acc EXCEPT !.function_names = (name :> acc.next_function) @@ @, !.next_function = @ + 1]
  IN CASE s.k = "def" -> pre(L, <<s.name>>)
       [] s.k = "trait" -> FoldLeft(LAMBDA acc, m : pre(acc, <<s.name, m.name>>), L, s.methods)
       [] s.k = "class" -> [L EXCEPT !.class_names = (s.name :> L.next_class) @@ @, !.next_class = @ + 1]
       [] OTHER -> L

\* Mutation of lower_top_level_stmt: a private function is left out.
LowerPublic(L, s, scope) ==
  CASE s.k = "def" /\ s.pub -> lower_function(<<s.name>>, s.body, scope, L)
    [] s.k = "trait" -> lower_methods(s.name, s.methods, scope, L)
    [] s.k = "class" -> lower_class(s, scope, L)
    [] OTHER -> L

lower_top_level_stmt(L, s, scope) ==
  CASE s.k = "def" -> lower_function(<<s.name>>, s.body, scope, L)
    [] s.k = "trait" -> lower_methods(s.name, s.methods, scope, L)
    [] s.k = "class" -> lower_class(s, scope, L)
    [] OTHER -> L

lower_module(body, scope, L) ==
  FoldLeft(LAMBDA acc, s : lower_top_level_stmt(acc, s, scope), FoldLeft(first_pass, L, body), body)

-----------------------------------------------------------------------------
(* The names of a body, its lambdas included. *)

RECURSIVE Mentioned(_)
Mentioned(body) ==
  UNION {CASE r.k = "fn" -> {r.name} [] r.k = "class" -> {<<r.class>>} [] r.k = "lambda" -> Mentioned(r.body) [] OTHER -> {}
         : r \in Range(body)}
=============================================================================
