----------------------------- MODULE ModuleChecker -----------------------------
(***************************************************************************)
(* The passes over a module: the signatures of its functions are declared  *)
(* first, then which of them suspend is found out, then the return types   *)
(* left out are inferred from the bodies, and then every statement is      *)
(* checked in order.                                                       *)
(***************************************************************************)
EXTENDS TypeChecker

IsFunctionDef(s) == s.k = "Let" /\ s.value.k = "Lambda"

\* Signatures.  A parameter without a type needs a context, and waits for it.
pre_register(body, T) ==
  LET signature(l, U) ==
        LET free(t) == replace_custom_with_typevar(t, TypeParameters(l, U), l.constraints)
        IN throwing([i \in 1..Len(l.params) |-> l.params[i][1]], [i \in 1..Len(l.params) |-> free(l.params[i][2])],
                    l.throws, free(l.ret_type))
      typed(s) == IsFunctionDef(s) /\ \A i \in 1..Len(s.value.params) : s.value.params[i][2] # TInferred
  IN FoldLeft(LAMBDA U, s : set_var_type(U, s.name, signature(s.value, U)), T, SelectSeq(body, typed))

-----------------------------------------------------------------------------
(* Suspension *)

\* What is evaluated as part of x, an expression or a statement.
Inside(x) ==
  CASE x.k = "Let" -> <<x.value>>
    [] x.k \in {"Return", "Expr", "Propagate", "Throw"} -> <<x.expr>>
    [] x.k = "If" -> FlattenSeq([i \in 1..Len(x.branches) |-> <<x.branches[i][1]>> \o x.branches[i][2]]) \o x.else_body
    [] x.k = "While" -> <<x.cond>> \o x.body
    [] x.k = "For" -> <<x.iter>> \o x.body
    [] x.k = "Assignment" -> <<x.target, x.value>>
    [] x.k = "Call" -> <<x.func>> \o Exprs(x.args)
    [] x.k = "Member" -> <<x.object>>
    [] x.k = "BinaryOp" -> <<x.left, x.right>>
    [] x.k = "UnaryOp" -> <<x.operand>>
    [] x.k = "ListLiteral" -> x.elems
    [] x.k = "Index" -> <<x.object, x.index>>
    [] x.k = "Match" -> <<x.scrutinee>> \o Exprs(x.arms)
    [] x.k = "ErrorOr" -> <<x.expr, x.default>>
    [] x.k = "ErrorOrElse" -> <<x.expr, x.handler>>
    [] x.k = "ErrorCatch" -> <<x.expr>> \o Exprs(x.arms)
    [] x.k = "StringInterpolation" -> x.parts
    [] x.k = "Map" -> FlattenSeq(x.entries)
    [] x.k = "Lambda" -> x.body
    [] x.k = "Range" -> <<x.start, x.end>>
    [] OTHER -> <<>>

expr_refers_to_suspendable_function(e, T) ==
  LET f == Lookup(T.variables, e.name) IN e.k = "Ident" /\ IsKind(f, "Function") /\ Suspendable(f)

RECURSIVE is_suspendable(_, _)
is_suspendable(x, T) ==
  \/ x.k \in {"AsyncCall", "BlockingCall", "DetachedCall", "Resolve"}
  \/ x.k = "Call" /\ expr_refers_to_suspendable_function(x.func, T)
  \/ \E i \in 1..Len(Inside(x)) : is_suspendable(Inside(x)[i], T)

\* A function that calls one that suspends, suspends.
RECURSIVE infer_suspendable_functions(_, _)
infer_suspendable_functions(body, T) ==
  LET found == {s \in Range(body) : /\ IsFunctionDef(s) /\ is_suspendable(s.value, T)
                                    /\ IsKind(Lookup(T.variables, s.name), "Function")
                                    /\ ~Suspendable(T.variables[s.name])}
  IN IF found = {} THEN T
     ELSE infer_suspendable_functions(body,
            [T EXCEPT !.variables = [n \in {s.name : s \in found} |-> [T.variables[n] EXCEPT ![6] = TRUE]] @@ @])

-----------------------------------------------------------------------------
(* Return types that are left out *)

Unknown(name, T) == LET f == Lookup(T.variables, name) IN IsKind(f, "Function") /\ Ret(f) = TInferred

\* What fails is forgotten, not so what it leaves behind.
infer_round(fns, T) ==
  FoldLeft(LAMBDA U, s : [Check("stmt", s, U).env EXCEPT !.failed = FALSE],
           [T EXCEPT !.nil_promotions = [v \in {} |-> TNil]], fns)

\* The bodies are checked again and again, unless nothing came out of it.
RECURSIVE infer_rounds(_, _, _)
infer_rounds(fns, rounds, T) ==
  IF rounds = 0 \/ (rounds <= Len(fns) /\ \A i \in 1..Len(fns) : Unknown(fns[i].name, T)) THEN T
  ELSE infer_rounds(fns, rounds - 1, infer_round(fns, T))

\* Mutation of infer_return_types: the bodies are looked at once.
InferOnce(body, T) ==
  LET fns == SelectSeq(body, LAMBDA s : IsFunctionDef(s) /\ Unknown(s.name, T))
  IN [infer_rounds(fns, 1, T) EXCEPT !.nil_promotions = T.nil_promotions]

infer_return_types(body, T) ==
  LET fns == SelectSeq(body, LAMBDA s : IsFunctionDef(s) /\ Unknown(s.name, T))
  IN [infer_rounds(fns, Len(fns) + 1, T) EXCEPT !.nil_promotions = T.nil_promotions]

-----------------------------------------------------------------------------

check_module_all(body, T) ==
  check_body(body, infer_return_types(body, infer_suspendable_functions(body, pre_register(body, T)))).env
=============================================================================
