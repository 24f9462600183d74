------------------------------- MODULE TypeRules -------------------------------
(***************************************************************************)
(* The rules that need only types: what the operators accept, how a        *)
(* parameter's type is matched with an argument's, which patterns fit and  *)
(* when they are exhaustive.  A rule gives a type, or NoType to refuse.    *)
(***************************************************************************)
EXTENDS Members, Syntax

Numeric == {TInt, TFloat}

-----------------------------------------------------------------------------
(* Operators *)

Arithmetic(op, lt, rt) ==
  CASE op = "+" /\ lt = TString /\ rt = TString -> TString
    [] lt = TInt /\ rt = TInt -> TInt
    [] {lt, rt} \subseteq Numeric -> TFloat
    [] OTHER -> NoType

\* There is no equality at run time for the containers and the wrappers.
Equality(types, lt, rt) ==
  IF /\ ~IsKind(lt, "Function") /\ ~IsKind(rt, "Function")
     /\ \/ {lt, rt} = Numeric
        \/ /\ lt = rt
           /\ IsKind(lt, "Custom") => lt[2] = "Type" \/ type_includes_protocol(types, lt, "Eq")
           /\ lt[1] \notin {"List", "Set", "Map", "Task", "Nullable"}
    THEN TBool ELSE NoType

Ordering(types, lt, rt) ==
  IF \/ {lt, rt} \subseteq Numeric
     \/ lt = TString /\ rt = TString
     \/ IsKind(lt, "Custom") /\ IsKind(rt, "Custom") /\ lt[2] = rt[2] /\ type_includes_protocol(types, lt, "Ord")
    THEN TBool ELSE NoType

Binary(types, op, lt, rt) ==
  CASE TError \in {lt, rt} -> TError
    [] op \in {"+", "-", "*", "/", "%", "**"} -> Arithmetic(op, lt, rt)
    [] op \in {"==", "!="} -> Equality(types, lt, rt)
    [] op \in {"<", ">", "<=", ">="} -> Ordering(types, lt, rt)
    [] op \in {"and", "or"} -> IF lt = TBool /\ rt = TBool THEN TBool ELSE NoType

Unary(op, t) ==
  CASE t = TError -> TError
    [] op = "-" -> IF t \in Numeric THEN t ELSE NoType
    [] op = "not" -> IF t = TBool THEN TBool ELSE NoType

\* Reading under an index: a map may not have the key.
Indexed(obj, idx) ==
  CASE TError \in {obj, idx} -> TError
    [] obj[1] = "Map" -> IF idx = obj[2] THEN Nullable(obj[3]) ELSE NoType
    [] obj[1] = "List" -> IF idx = TInt THEN obj[2] ELSE NoType
    [] OTHER -> NoType

\* Writing under an index takes exactly the type of the elements.
IndexAssigned(obj, idx, value) ==
  CASE TError \in {obj, idx} -> TError
    [] obj[1] = "List" -> IF idx = TInt /\ obj[2] = value THEN value ELSE NoType
    [] obj[1] = "Map" -> IF idx = obj[2] /\ obj[3] = value THEN value ELSE NoType
    [] OTHER -> NoType

\* Mutation of fits: a value that may be nil is taken for one that is not.
FitsNullable(classes, value, slot) ==
  value = slot \/ is_nullable_compatible(slot, value) \/ is_subtype_compatible(classes, value, slot)
  \/ value = Nullable(slot)

\* An assignment widens to nullable and to an ancestor, no more.
fits(classes, value, slot) ==
  value = slot \/ is_nullable_compatible(slot, value) \/ is_subtype_compatible(classes, value, slot)

\* A returned value also fits when it is an empty list.
fits_return(classes, value, ret_type) ==
  fits(classes, value, ret_type) \/ (value = ListOf(TNil) /\ IsKind(ret_type, "List"))

-----------------------------------------------------------------------------
(* Arguments *)

NoBindings == [v \in {} |-> TNil]
Unified(b) == [ok |-> TRUE, bindings |-> b]
NotUnified == [ok |-> FALSE, bindings |-> NoBindings]

Bind(var, t, b) ==
  CASE var \in DOMAIN b -> IF b[var] = t THEN Unified(b) ELSE NotUnified
    [] type_contains_var(t, var) -> NotUnified
    [] OTHER -> Unified((var :> t) @@ b)

\* Match the type of a parameter with the type of an argument: type variables on
\* either side are bound, an ancestor class accepts a descendant unless an
\* invariant container is around it, and what a function throws is not compared.
RECURSIVE unify_inner(_, _, _, _, _)
unify_inner(classes, expected, actual, b, invariant) ==
  LET all(es, as, b0, inv) ==
        FoldLeft(LAMBDA u, i : IF u.ok THEN unify_inner(classes, es[i], as[i], u.bindings, inv) ELSE u,
                 Unified(b0), [i \in 1..Len(es) |-> i])
      same(kind) == IsKind(expected, kind) /\ IsKind(actual, kind)
  IN CASE same("TypeVar") /\ expected[2] = actual[2] -> Unified(b)
       [] IsKind(expected, "TypeVar") -> Bind(expected[2], actual, b)
       [] IsKind(actual, "TypeVar") -> Bind(actual[2], expected, b)
       [] same("List") /\ actual[2] = TNil -> Unified(b)
       [] \E kind \in {"List", "Set", "Map", "Task"} : same(kind) -> all(Tail(expected), Tail(actual), b, TRUE)
       [] same("Nullable") -> unify_inner(classes, expected[2], actual[2], b, invariant)
       [] same("Custom") ->
            IF expected[2] # actual[2]
              THEN IF ~invariant /\ is_subtype_of(classes, actual[2], expected[2]) THEN Unified(b) ELSE NotUnified
            ELSE IF Len(expected[3]) # Len(actual[3]) THEN NotUnified
            ELSE all(expected[3], actual[3], b, invariant)
       [] same("Function") ->
            IF Len(Params(expected)) # Len(Params(actual)) THEN NotUnified
            ELSE all(Append(Params(expected), Ret(expected)), Append(Params(actual), Ret(actual)), b, invariant)
       [] OTHER -> IF expected = actual THEN Unified(b) ELSE NotUnified

unify_type_with_env(classes, expected, actual, b) == unify_inner(classes, expected, actual, b, FALSE)

\* Without the classes: only the same class fits.
unify_type(expected, actual) == unify_inner([c \in {} |-> {}], expected, actual, NoBindings, FALSE)

type_includes_parametric_trait(classes, t, trait, args) ==
  /\ IsKind(t, "Custom")
  /\ t[2] \in DOMAIN classes
  /\ <<trait, args>> \in classes[t[2]].parametric

\* A constraint is <<"Extends", class>> or <<"Includes", trait, args>>.
validate_constraint(classes, types, actual, c) ==
  IF c[1] = "Extends"
    THEN (IsKind(actual, "Custom") /\ actual[2] = c[2]) \/ is_error_subtype(classes, actual, Class(c[2]))
    ELSE /\ type_includes_protocol(types, actual, c[2])
         /\ c[3] # <<>> => type_includes_parametric_trait(classes, actual, c[2], c[3])

\* The constrained variables of the parameters; those inside a class's type
\* arguments are not looked for.
RECURSIVE constrained_vars(_)
constrained_vars(t) ==
  CASE t[1] = "TypeVar" -> IF t[3] = {} THEN {} ELSE {t}
    [] t[1] \in {"List", "Set", "Task", "Nullable"} -> constrained_vars(t[2])
    [] t[1] = "Map" -> constrained_vars(t[2]) \cup constrained_vars(t[3])
    [] t[1] = "Function" -> UNION {constrained_vars(p) : p \in Range(Params(t)) \cup {Ret(t)}}
    [] OTHER -> {}

check_typevar_constraints(classes, types, params, b) ==
  \A p \in Range(params) : \A v \in constrained_vars(p) :
    v[2] \in DOMAIN b => \A c \in v[3] : validate_constraint(classes, types, b[v[2]], c)

-----------------------------------------------------------------------------
(* Type parameters.  An unknown class name in a parameter's type is one.    *)

is_known_type_name(T, name) ==
  name \in DOMAIN T.classes \cup DOMAIN T.traits \cup DOMAIN T.enums \cup {"Self"}

collect_unknown_type_names(T, t) ==
  {u[2] : u \in {u \in collect_types(t) : IsKind(u, "Custom") /\ u[3] = <<>> /\ ~is_known_type_name(T, u[2])}}

replace_custom_with_typevar(t, names, constraints) ==
  map_type(t, [leaf \in {"Custom"} \X names |->
                 TypeVar(leaf[2], IF leaf[2] \in DOMAIN constraints THEN constraints[leaf[2]] ELSE {})])

-----------------------------------------------------------------------------
(* Match *)

LiteralType(e) ==
  CASE e.k = "Int" -> TInt
    [] e.k = "Float" -> TFloat
    [] e.k = "Str" -> TString
    [] e.k = "Bool" -> TBool
    [] e.k = "Nil" -> TNil
    [] OTHER -> NoType

IsNilPattern(p) == p.k = "Literal" /\ p.expr.k = "Nil"
IsCatchall(p) == p.k \in {"Wildcard", "Ident"}
NotNil(t) == IF IsKind(t, "Nullable") THEN t[2] ELSE t

check_match_pattern(enums, p, t) ==
  CASE IsCatchall(p) -> TRUE
    [] p.k = "Literal" -> /\ LiteralType(p.expr) # NoType
                          /\ LiteralType(p.expr) = t \/ is_nullable_compatible(t, LiteralType(p.expr))
    [] p.k = "EnumVariant" ->
         /\ p.enum \in DOMAIN enums
         /\ p.variant \in DOMAIN enums[p.enum].variants
         /\ Len(p.bindings) <= Len(enums[p.enum].variants[p.variant])
         /\ NotNil(t) = Class(p.enum)

exhaustive(enums, patterns, t) ==
  LET covers(b) == \E p \in patterns : p.k = "Literal" /\ p.expr = BoolLit(b)
  IN \/ \E p \in patterns : IsCatchall(p)
     \/ /\ IsKind(t, "Nullable") => \E p \in patterns : IsNilPattern(p)
        /\ \/ NotNil(t) = TBool /\ covers(TRUE) /\ covers(FALSE)
           \/ /\ IsKind(NotNil(t), "Custom")
              /\ NotNil(t)[2] \in DOMAIN enums
              /\ DOMAIN enums[NotNil(t)[2]].variants \subseteq {p.variant : p \in {q \in patterns : q.k = "EnumVariant"}}

\* The type of a match: of its first arm that ends, whatever relation the later
\* ones have to it, as long as there is one.
Joined(classes, types) ==
  LET ending == SelectSeq(types, LAMBDA t : t \notin {TNever, TError})
  IN CASE ending = <<>> -> TVoid
       [] \A i \in 1..Len(ending) :
            \/ ending[i] = ending[1]
            \/ is_subtype_compatible(classes, ending[i], ending[1])
            \/ is_subtype_compatible(classes, ending[1], ending[i]) -> ending[1]
       [] OTHER -> NoType

RECURSIVE is_const_expr(_)
is_const_expr(e) ==
  CASE e.k \in {"Int", "Float", "Str", "Bool", "Nil"} -> TRUE
    [] e.k = "UnaryOp" -> is_const_expr(e.operand)
    [] e.k = "BinaryOp" -> is_const_expr(e.left) /\ is_const_expr(e.right)
    [] e.k = "ListLiteral" -> \A i \in 1..Len(e.elems) : is_const_expr(e.elems[i])
    [] e.k = "StringInterpolation" -> \A i \in 1..Len(e.parts) : is_const_expr(e.parts[i])
    [] OTHER -> FALSE
=============================================================================
