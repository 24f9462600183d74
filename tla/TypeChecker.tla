------------------------------ MODULE TypeChecker ------------------------------
(***************************************************************************)
(* The checker's walk over expressions and statements.  A rule takes a     *)
(* program part and the checker T and gives the part's type and the        *)
(* checker afterwards.                                                     *)
(*                                                                         *)
(* A refusal sets T.failed and ends the walk (the dispatcher at the end    *)
(* passes it on): recovery after a first error is left out, a program with *)
(* an error does not run.  An environment is the tables as seen from the   *)
(* innermost scope: leaving a scope puts the parent's back.                *)
(***************************************************************************)
EXTENDS ClassRules

\* All rules call each other through Check.
RECURSIVE Check(_, _, _)

Checked(t, T) == [type |-> t, env |-> T]
Reject(T) == Checked(TError, [T EXCEPT !.failed = TRUE])
Given(t, T) == IF t = NoType THEN Reject(T) ELSE Checked(t, T)

TypesOf(T) == T.classes @@ T.enums

register_builtins ==
  [variables |-> builtin_variables, classes |-> builtin_classes, traits |-> builtin_traits, enums |-> builtin_enums,
   loop_depth |-> 0, expected_return_type |-> NoType, current_function |-> "", throws_type |-> NoType,
   is_main |-> FALSE, expected_type |-> NoType, const_names |-> {}, consumed_tasks |-> {}, task_bindings |-> {},
   last_call_suspendable |-> FALSE, default_params |-> [f \in {} |-> {}], nil_promotions |-> [v \in {} |-> TNil],
   failed |-> FALSE]

set_var_type(T, name, t) == [T EXCEPT !.variables = (name :> t) @@ @]

-----------------------------------------------------------------------------
(* Scopes *)

\* A block: promotions, defaults and the tasks it created outlive it, what it
\* consumed does not.
with_child_scope(T, inner) ==
  Checked(inner.type,
          [T EXCEPT !.nil_promotions = inner.env.nil_promotions,
                    !.default_params = inner.env.default_params,
                    !.last_call_suspendable = inner.env.last_call_suspendable,
                    !.task_bindings = @ \cup inner.env.task_bindings,
                    !.failed = inner.env.failed])

\* A function or an arm has a checker of its own, which starts without promotions.
child_checker(T) == [T EXCEPT !.nil_promotions = [v \in {} |-> TNil], !.last_call_suspendable = FALSE]

restore_from_child(T, child) == Checked(child.type, [T EXCEPT !.failed = child.env.failed])

check_all(es, T) ==
  FoldLeft(LAMBDA acc, e : LET r == Check("expr", e, acc.env)
                           IN [types |-> Append(acc.types, r.type), env |-> r.env],
           [types |-> <<>>, env |-> T], es)

check_body(body, T) == FoldLeft(LAMBDA acc, s : Check("stmt", s, acc.env), Checked(TVoid, T), body)

-----------------------------------------------------------------------------
(* Names and values *)

check_ident(name, T) ==
  LET t == Lookup(T.variables, name)
  IN Given(IF t = ListOf(TNil) /\ name \in DOMAIN T.nil_promotions THEN T.nil_promotions[name] ELSE t, T)

check_list_literal(elems, T) ==
  LET r == check_all(elems, T)
  IN CASE elems = <<>> -> Checked(IF IsKind(T.expected_type, "List") THEN T.expected_type ELSE ListOf(TNil), T)
       [] TError \in Range(r.types) -> Checked(TError, r.env)
       [] OTHER -> Given(IF Range(r.types) = {r.types[1]} THEN ListOf(r.types[1]) ELSE NoType, r.env)

check_map_literal(entries, T) ==
  LET r == check_all(FlattenSeq(entries), T)
      at(parity) == {r.types[i] : i \in {j \in 1..Len(r.types) : j % 2 = parity}}
  IN CASE entries = <<>> -> Checked(MapOf(TError, TError), T)
       [] Cardinality(at(1)) = 1 /\ Cardinality(at(0)) = 1 -> Checked(MapOf(r.types[1], r.types[2]), r.env)
       [] OTHER -> Reject(r.env)

check_range(e, T) ==
  LET r == check_all(<<e.start, e.end>>, T)
  IN Given(IF r.types = <<TInt, TInt>> THEN Class("Range") ELSE NoType, r.env)

\* Only a known class that is not Printable is refused.
check_interpolation(parts, T) ==
  LET r == check_all(parts, T)
      printable(t) == (IsKind(t, "Custom") /\ t[2] \in DOMAIN T.classes) => "Printable" \in T.classes[t[2]].includes
  IN Given(IF \A t \in Range(r.types) : printable(t) THEN TString ELSE NoType, r.env)

check_binary(e, T) ==
  LET r == check_all(<<e.left, e.right>>, T)
  IN Given(Binary(TypesOf(T), e.op, r.types[1], r.types[2]), r.env)

check_unary(e, T) == LET r == Check("expr", e.operand, T) IN Given(Unary(e.op, r.type), r.env)

check_index(e, T) ==
  LET r == check_all(<<e.object, e.index>>, T) IN Given(Indexed(r.types[1], r.types[2]), r.env)

-----------------------------------------------------------------------------
(* Members *)

StaticMembers == ("File" :> check_file_static_member) @@ ("TcpListener" :> check_tcp_listener_static_member)
                 @@ ("TcpStream" :> check_tcp_stream_static_member)

MemberOf(r, builtin, field) ==
  CASE r.type = TError -> r
    [] builtin.handled ->
         Given(IF r.type[1] \in {"List", "Set"} => check_collection_constraint(TypesOf(r.env), field, r.type[2])
                 THEN Lookup(builtin.table, field) ELSE NoType, r.env)
    [] IsKind(r.type, "Custom") -> Given(ClassMember(r.env, r.type, r.type[2], field), r.env)
    [] OTHER -> Reject(r.env)

OfValue(r, field) == MemberOf(r, check_builtin_member(r.type), field)

check_member_inner(e, T) ==
  LET name == IF e.object.k = "Ident" THEN e.object.name ELSE ""
  IN CASE name \in DOMAIN StaticMembers -> Given(Lookup(StaticMembers[name], e.field), T)
       [] name \in DOMAIN T.enums ->
            Given(IF e.field \in DOMAIN T.enums[name].variants THEN Class(name) ELSE NoType, T)
       [] OTHER -> OfValue(Check("expr", e.object, T), e.field)

\* Introspection answers when nothing else does, on an object that checks.
OrIntrospection(r, e, T) ==
  IF r.env.failed /\ e.field \in DOMAIN check_introspection_member
    THEN Given(check_introspection_member[e.field], Check("expr", e.object, T).env)
    ELSE r

check_member(e, T) == OrIntrospection(check_member_inner(e, T), e, T)

-----------------------------------------------------------------------------
(* Functions *)

RECURSIVE statements_of(_)
\* The statements of a body and of the blocks in it, in order.
statements_of(body) ==
  FlattenSeq([i \in 1..Len(body) |->
    LET s == body[i]
    IN <<s>> \o (CASE s.k = "If" -> FlattenSeq([j \in 1..Len(s.branches) |-> statements_of(s.branches[j][2])])
                                    \o statements_of(s.else_body)
                   [] s.k \in {"While", "For"} -> statements_of(s.body)
                   [] OTHER -> <<>>)])

IsEmptyList(e) == e.k = "ListLiteral" /\ e.elems = <<>>

\* A guess at the type of a pushed value, through the last let of each name.
RECURSIVE try_resolve_expr_type(_, _, _)
try_resolve_expr_type(T, e, lets) ==
  CASE e.k \in {"Int", "Float", "Str", "Bool"} -> LiteralType(e)
    [] e.k = "Ident" /\ e.name \in DOMAIN T.variables -> T.variables[e.name]
    [] e.k = "Ident" /\ \E i \in 1..Len(lets) : lets[i].name = e.name ->
         try_resolve_expr_type(T, Last(SelectSeq(lets, LAMBDA l : l.name = e.name)).value, lets)
    [] e.k = "Call" /\ e.func.k = "Ident" ->
         LET f == Lookup(T.variables, e.func.name)
         IN IF IsKind(f, "Function") /\ Ret(f) # TInferred THEN Ret(f) ELSE NoType
    [] OTHER -> NoType

IsPushTo(s, vars) ==
  /\ s.k = "Expr" /\ s.expr.k = "Call" /\ Len(s.expr.args) = 1
  /\ s.expr.func.k = "Member" /\ s.expr.func.field = "push"
  /\ s.expr.func.object.k = "Ident" /\ s.expr.func.object.name \in vars

\* A variable that starts as an empty list has the type of the first value the
\* body pushes to it, from its first use on.
prescan_nil_list_promotions(T, body) ==
  LET all == statements_of(body)
      lets == SelectSeq(all, LAMBDA s : s.k = "Let")
      nil_list_vars == {s.name : s \in {l \in Range(lets) : IsEmptyList(l.value)}}
      others == SelectSeq(lets, LAMBDA l : ~IsEmptyList(l.value))
      pushes(v) == SelectSeq(all, LAMBDA s : IsPushTo(s, {v}))
      pushed(v) == IF pushes(v) = <<>> THEN NoType ELSE try_resolve_expr_type(T, pushes(v)[1].expr.args[1][2], others)
      known == {v \in nil_list_vars \ DOMAIN T.nil_promotions : pushed(v) \notin {NoType, TError, TNil}}
  IN [T EXCEPT !.nil_promotions = @ @@ [v \in known |-> ListOf(pushed(v))]]

mark_task_ident_consumed(e, T) ==
  IF e.k = "Ident" /\ e.name \in T.task_bindings
    THEN [T EXCEPT !.consumed_tasks = @ \cup {e.name}] ELSE T

AcceptsReturn(T, value, ret_type) ==
  \/ ret_type \in {TVoid, TInferred}
  \/ value \in {TNever, TError}
  \/ fits_return(T.classes, value, ret_type)

\* The statements of a body; a return at the top of it and the last value must
\* fit, and what is returned is the caller's to resolve.
check_lambda_body_inner(body, ret_type, T) ==
  LET step(acc, s) ==
        LET r == Check("expr", s.expr, acc.env)
        IN IF s.k # "Return" THEN Check("stmt", s, acc.env)
           ELSE IF ~AcceptsReturn(r.env, r.type, ret_type) THEN Reject(r.env)
           ELSE Checked(r.type, mark_task_ident_consumed(s.expr, r.env))
      end == FoldLeft(step, Checked(TVoid, T), body)
      env == IF body # <<>> /\ Last(body).k = "Expr" THEN mark_task_ident_consumed(Last(body).expr, end.env) ELSE end.env
  IN IF body = <<>> \/ AcceptsReturn(env, end.type, ret_type) THEN Checked(end.type, env) ELSE Reject(env)

check_lambda_body(body, ret_type, T) ==
  check_lambda_body_inner(body, ret_type, prescan_nil_list_promotions(T, body))

\* Inside the body a constrained type parameter is a class with what its
\* constraints promise.
VirtualClass(T, constraints) ==
  LET parents == {c[2] : c \in {d \in constraints : d[1] = "Extends"}}
      traits == {c[2] : c \in {d \in constraints : d[1] = "Includes"}}
      parent == IF parents = {} THEN "" ELSE CHOOSE p \in parents : TRUE
      includes == traits \cup (IF parent = "" THEN {} ELSE T.classes[parent].includes)
  IN ClassInfo(<<>>,
               FoldSet(LAMBDA t, methods : T.traits[t].methods @@ methods,
                       IF parent = "" THEN NoMethods ELSE T.classes[parent].methods, traits),
               parent,
               IF "Ord" \in includes THEN includes \cup {"Eq"} ELSE includes)

TypeParameters(l, T) ==
  IF l.generics # NoType THEN Range(l.generics)
  ELSE UNION {collect_unknown_type_names(T, l.params[i][2]) : i \in 1..Len(l.params)}

\* Every task bound so far in the function, and around it, is resolved or handed on.
TasksConsumed(body, T) == body # <<>> => T.task_bindings \subseteq T.consumed_tasks

\* The checker for the body: parameters are variables, type parameters classes.
lambda_scope(l, T) ==
  LET declared == IF T.current_function = "main" /\ l.ret_type = TInferred THEN TInt ELSE l.ret_type
      names == {l.params[i][1] : i \in 1..Len(l.params)}
  IN [child_checker(T) EXCEPT
        !.throws_type = l.throws,
        !.is_main = T.current_function = "main",
        !.expected_return_type = IF declared \in {TVoid, TInferred} THEN @ ELSE declared,
        !.classes = [v \in DOMAIN l.constraints |-> VirtualClass(T, l.constraints[v])] @@ @,
        !.variables = [n \in names |-> Field(l.params, n)] @@ @]

\* main returns an exit code unless it says otherwise.
lambda_type(l, body, T) ==
  LET ret == CASE l.ret_type # TInferred -> l.ret_type
               [] T.current_function = "main" -> TInt
               [] OTHER -> body
      free(t) == replace_custom_with_typevar(t, TypeParameters(l, T), l.constraints)
  IN throwing([i \in 1..Len(l.params) |-> l.params[i][1]], [i \in 1..Len(l.params) |-> free(l.params[i][2])],
              l.throws, free(ret))

lambda_checked(l, body, T) ==
  IF TasksConsumed(l.body, body.env) THEN restore_from_child(T, Checked(lambda_type(l, body.type, T), body.env)) ELSE Reject(T)

check_function(l, T) == lambda_checked(l, check_lambda_body(l.body, l.ret_type, lambda_scope(l, T)), T)

\* Defaults are of the type of their parameter, and no parameter is without one.
check_defaults(l, T) ==
  LET defaulted == SelectSeq([i \in 1..Len(l.params) |-> i], LAMBDA i : l.defaults[i] # NoExpr)
      r == check_all([j \in 1..Len(defaulted) |-> l.defaults[defaulted[j]]], T)
  IN Given(IF \A j \in 1..Len(r.types) : types_compatible_with_env(T.classes, l.params[defaulted[j]][2], r.types[j])
             THEN TVoid ELSE NoType, r.env)

check_lambda(l, T) ==
  IF /\ \A c \in UNION Range(l.constraints) : c[2] \in (IF c[1] = "Extends" THEN DOMAIN T.classes ELSE DOMAIN T.traits)
     /\ \A i \in 1..Len(l.params) : l.params[i][2] # TInferred
    THEN check_function(l, check_defaults(l, T).env)
    ELSE Reject(T)

\* What the lambda leaves to be inferred comes from the function type expected.
check_lambda_with_expected(l, expected, T) ==
  LET inferred_params == \E i \in 1..Len(l.params) : l.params[i][2] = TInferred
      param(i) == IF l.params[i][2] = TInferred THEN Params(expected)[i] ELSE l.params[i][2]
      resolved == [l EXCEPT !.params = [i \in 1..Len(@) |-> <<@[i][1], param(i)>>],
                            !.ret_type = IF @ # TInferred \/ IsKind(Ret(expected), "TypeVar") THEN @ ELSE Ret(expected),
                            !.throws = IF @ = NoType THEN Throws(expected) ELSE @]
  IN CASE ~inferred_params /\ l.ret_type # TInferred -> Check("expr", l, T)
       [] ~IsKind(expected, "Function") -> IF inferred_params THEN Reject(T) ELSE Check("expr", l, T)
       [] Len(l.params) # Len(Params(expected)) -> Reject(T)
       [] OTHER -> Check("expr", resolved, T)

check_argument(e, expected, T) ==
  IF e.k = "Lambda" THEN check_lambda_with_expected(e, expected, T) ELSE Check("expr", e, T)

-----------------------------------------------------------------------------
(* Calls.  An argument is <<name, expression>>, named "_0", "_1", ... when  *)
(* the call gives none.                                                    *)

Position == [n \in {"_0", "_1", "_2"} |-> CASE n = "_0" -> 1 [] n = "_1" -> 2 [] n = "_2" -> 3]
ArgNames(args) == {args[i][1] : i \in 1..Len(args)}
Exprs(args) == [i \in 1..Len(args) |-> args[i][2]]

\* Defaults are kept by function name, a method's by <<class, method>>.
DefaultsOf(func_, T) ==
  LET object == Check("expr", func_.object, T).type
      key == CASE func_.k = "Ident" -> <<"", func_.name>>
               [] func_.k = "Member" -> IF IsKind(object, "Custom") THEN <<object[2], func_.field>> ELSE <<>>
               [] OTHER -> <<>>
  IN IF key \in DOMAIN T.default_params THEN T.default_params[key] ELSE {}

\* The parameter an argument is for; 0 when there is none.
ParamIndex(names, arg) ==
  LET i == IF arg \in DOMAIN Position /\ arg \notin Range(names) THEN Position[arg]
           ELSE IF arg \in Range(names) THEN CHOOSE i \in 1..Len(names) : names[i] = arg ELSE 0
  IN IF i <= Len(names) THEN i ELSE 0

\* More than one parameter: arguments have names.
Labelled(names, args) == Len(names) # 1 => ArgNames(args) \cap DOMAIN Position \subseteq Range(names)

Arity(f, func_, args, T) ==
  \/ Len(Params(f)) = Len(args)
  \/ /\ ArgNames(args) \subseteq Range(Names(f))
     /\ Range(Names(f)) \ ArgNames(args) \subseteq DefaultsOf(func_, T)
     /\ DefaultsOf(func_, T) # {}

\* One argument: its type is expected, inferred for a lambda, and unified.
Passed(acc, e, r, u) ==
  LET after == [r.env EXCEPT !.expected_type = acc.env.expected_type]
  IN IF r.type = TError THEN [acc EXCEPT !.env = after, !.error = TRUE]
     ELSE [acc EXCEPT !.env = [mark_task_ident_consumed(e, after) EXCEPT !.failed = @ \/ ~u.ok], !.bindings = u.bindings]

Unify(acc, e, param, r) == Passed(acc, e, r, unify_type_with_env(r.env.classes, param, r.type, acc.bindings))

Pass(acc, e, param, wanted) ==
  Unify(acc, e, param, check_argument(e, wanted, [acc.env EXCEPT !.expected_type = wanted]))

check_arg(f, acc, arg) ==
  LET i == ParamIndex(Names(f), arg[1])
  IN IF acc.env.failed \/ i = 0 THEN [acc EXCEPT !.env.failed = TRUE]
     ELSE Pass(acc, arg[2], Params(f)[i], substitute_typevars(Params(f)[i], acc.bindings))

\* A plain call neither suspends nor throws.
AllowedPlain(f) == ~Suspendable(f) /\ Throws(f) = NoType

\* The arguments in turn, then what they bound.
Applied(f, end) ==
  CASE end.error -> Checked(TError, end.env)
    [] check_typevar_constraints(end.env.classes, TypesOf(end.env), Params(f), end.bindings) ->
         Checked(substitute_typevars(Ret(f), end.bindings), end.env)
    [] OTHER -> Reject(end.env)

check_arguments(f, args, T) ==
  Applied(f, FoldLeft(LAMBDA acc, arg : check_arg(f, acc, arg),
                      [env |-> T, bindings |-> NoBindings, error |-> FALSE], args))

check_user_function_call(func_, args, bypass, T) ==
  LET f == Check("expr", func_, T)
  IN CASE f.type = TError -> f
       [] ~IsKind(f.type, "Function") -> Reject(f.env)
       [] ~bypass /\ ~AllowedPlain(f.type) -> Reject(f.env)
       [] ~Labelled(Names(f.type), args) \/ ~Arity(f.type, func_, args, f.env) -> Reject(f.env)
       [] OTHER -> check_arguments(f.type, args, [f.env EXCEPT !.last_call_suspendable = Suspendable(f.type)])

\* len, to_string, log and say take one value of some types.
check_overloaded_builtin(args, accepts(_), ret, T) ==
  LET r == Check("expr", args[1][2], T)
  IN IF Len(args) # 1 THEN Reject(T)
     ELSE IF r.type = TError THEN Checked(IF ret = TVoid THEN TVoid ELSE TError, r.env)
     ELSE Given(IF accepts(r.type) THEN ret ELSE NoType, r.env)

check_len_call(args, T) ==
  check_overloaded_builtin(args, LAMBDA t : t = TString \/ t[1] \in {"List", "Set"}, TInt, T)
check_print_call(args, T) ==
  check_overloaded_builtin(args, LAMBDA t : t \in {TInt, TFloat, TBool, TString}, TVoid, T)
check_to_string_call(args, T) ==
  check_overloaded_builtin(args, LAMBDA t : t \in {TInt, TFloat, TBool, TString}, TString, T)

check_mutex_constructor(args, T) ==
  LET r == Check("expr", args[1][2], T)
  IN IF Len(args) # 1 THEN Reject(T)
     ELSE IF r.type = TError THEN r
     ELSE Checked(Custom("Mutex", <<r.type>>), r.env)

\* The element type comes from the annotation alone.
check_channel_constructor(name, args, T) ==
  LET r == check_all(Exprs(args), T)
  IN Given(IF /\ Len(args) <= 1
              /\ Range(r.types) \subseteq {TInt, TError}
              /\ IsKind(T.expected_type, "Custom") /\ T.expected_type[3] # <<>>
             THEN Custom(name, <<T.expected_type[3][1]>>) ELSE NoType, r.env)

\* random is typed by what is expected of it, then by its bounds.
check_random_numeric(args, t, T) ==
  LET bounds == SelectSeq(args, LAMBDA a : a[1] \in {"max", "min"})
      r == check_all(Exprs(bounds), T)
  IN Given(IF Range(r.types) \subseteq {t} /\ "max" \in ArgNames(args) THEN t ELSE NoType, r.env)

check_random_call(args, T) ==
  LET bounds == SelectSeq(args, LAMBDA a : a[1] \in {"max", "min"})
      sample == Check("expr", bounds[1][2], T)
  IN CASE T.expected_type \in Numeric -> check_random_numeric(args, T.expected_type, T)
       [] args = <<>> -> Checked(TBool, T)
       [] T.expected_type = TBool \/ bounds = <<>> -> Reject(T)
       [] sample.type \in Numeric -> check_random_numeric(args, sample.type, sample.env)
       [] OTHER -> Reject(sample.env)

check_resolve_builtin(args, in_list, T) ==
  LET r == Check("expr", args[1][2], T)
      tasks == IsKind(r.type, "List") /\ IsKind(r.type[2], "Task")
  IN IF Len(args) # 1 THEN Reject(T)
     ELSE IF r.type = TError THEN r
     ELSE Given(IF ~tasks THEN NoType ELSE IF in_list THEN ListOf(r.type[2][2]) ELSE r.type[2][2], r.env)

RECURSIVE resolve_type_from_expr(_, _)
resolve_type_from_expr(e, T) ==
  LET primitive == ("Int" :> TInt) @@ ("Float" :> TFloat) @@ ("Bool" :> TBool) @@ ("String" :> TString)
  IN CASE e.k = "Ident" -> IF e.name \in DOMAIN primitive THEN primitive[e.name]
                           ELSE IF e.name \in DOMAIN TypesOf(T) THEN Class(e.name) ELSE NoType
       [] e.k = "Index" /\ e.object.k = "Ident" /\ e.object.name \in {"List", "Set"} ->
            LET inner == resolve_type_from_expr(e.index, T)
            IN IF inner = NoType THEN NoType ELSE <<e.object.name, inner>>
       [] OTHER -> NoType

check_set_constructor(func_, args, T) ==
  LET t == resolve_type_from_expr(func_.index, T)
  IN Given(IF args = <<>> /\ t # NoType /\ type_is_hashable(TypesOf(T), t) THEN SetOf(t) ELSE NoType, T)

\* C.from(...) picks the overload its arguments fit, and looks at them again for
\* it; the result is a C.
FromMethods(class) ==
  IF "from" \in DOMAIN class.overloads THEN class.overloads["from"]
  ELSE IF "from" \in DOMAIN class.methods THEN <<class.methods["from"]>> ELSE <<>>

FromFits(m, args, types, Unifies(_, _)) ==
  /\ Len(Params(m)) = Len(args) /\ ArgNames(args) \subseteq Range(Names(m))
  /\ \A j \in 1..Len(args) : Unifies(Params(m)[CHOOSE i \in 1..Len(Names(m)) : Names(m)[i] = args[j][1]], types[j])

FromApplied(m, target, args, bypass, r) ==
  Given(IF /\ Throws(m) # NoType => bypass
           /\ FromFits(m, args, r.types, LAMBDA p, t : unify_type_with_env(r.env.classes, p, t, NoBindings).ok)
          THEN target ELSE NoType, r.env)

FromPicked(methods, matching, target, args, bypass, r) ==
  CASE TError \in Range(r.types) -> Checked(TError, r.env)
    [] Len(matching) = 1 -> FromApplied(matching[1], target, args, bypass, check_all(Exprs(args), r.env))
    [] Len(methods) = 1 -> FromApplied(methods[1], target, args, bypass, check_all(Exprs(args), r.env))
    [] OTHER -> Reject(r.env)

FromCall(methods, target, args, bypass, r) ==
  FromPicked(methods, SelectSeq(methods, LAMBDA m : FromFits(m, args, r.types, LAMBDA p, t : unify_type(p, t).ok)),
             target, args, bypass, r)

check_from_call(func_, args, bypass, T) ==
  FromCall(FromMethods(T.classes[func_.object.name]), resolve_type_from_expr(func_.object, T), args, bypass,
           check_all(Exprs(args), T))

check_call_inner(func_, args, bypass, T) ==
  LET name == IF func_.k = "Ident" THEN func_.name ELSE ""
      object == IF func_.k \in {"Member", "Index"} /\ func_.object.k = "Ident" THEN func_.object.name ELSE ""
  IN CASE func_.k = "Index" /\ object = "Set" -> check_set_constructor(func_, args, T)
       [] name = "len" -> check_len_call(args, T)
       [] name = "to_string" -> check_to_string_call(args, T)
       [] name \in {"log", "say"} -> check_print_call(args, T)
       [] name = "random" -> check_random_call(args, T)
       [] name \in {"resolve_all", "resolve_first"} -> check_resolve_builtin(args, name = "resolve_all", T)
       [] name = "Mutex" -> check_mutex_constructor(args, T)
       [] name \in {"Channel", "MultiSend", "MultiReceive"} -> check_channel_constructor(name, args, T)
       [] func_.k = "Member" /\ func_.field = "from" /\ object \in DOMAIN T.classes
            /\ "From" \in T.classes[object].includes -> check_from_call(func_, args, bypass, T)
       [] OTHER -> check_user_function_call(func_, args, bypass, T)

\* A call once its receiver is known; bypass: it may throw or suspend.
Called(func_, args, bypass, T) == Check("call", [func |-> func_, args |-> args, bypass |-> bypass], T)

\* nil gives way to a value of the same type, or to an error the function declares.
check_nullable_way_out(field, args, obj, T) ==
  LET r == Check("expr", args[1][2], T)
  IN CASE field \notin {"or", "or_else", "or_throw"} \/ Len(args) # 1 -> Reject(T)
       [] field = "or_throw" ->
            Given(IF T.throws_type # NoType /\ is_error_subtype(T.classes, r.type, T.throws_type)
                    THEN obj[2] ELSE NoType, r.env)
       [] r.type = TError -> r
       [] OTHER -> Given(IF r.type = obj[2] THEN obj[2] ELSE NoType, r.env)

\* The first push to an empty list decides its type, in the scope of the push and
\* as a promotion for the scopes around it.
check_promoting_push(object, args, T) ==
  LET r == Check("expr", args[1][2], T)
      promoted == ListOf(r.type)
  IN IF Len(args) # 1 THEN Reject(T)
     ELSE IF r.type = TError \/ object.k # "Ident" THEN Checked(TVoid, r.env)
     ELSE Checked(TVoid, [set_var_type(r.env, object.name, promoted)
                            EXCEPT !.nil_promotions = (object.name :> promoted) @@ @])

check_is_a_call(args, T) ==
  Given(IF /\ Len(args) = 1 /\ args[1][2].k = "Ident"
           /\ args[1][2].name \in DOMAIN T.classes \cup {"Int", "Float", "String", "Bool", "Nil"}
          THEN TBool ELSE NoType, T)

check_responds_to_call(args, T) ==
  LET r == Check("expr", args[1][2], T)
  IN IF Len(args) # 1 THEN Reject(T) ELSE Given(IF r.type \in {TString, TError} THEN TBool ELSE NoType, r.env)

check_call(func_, args, T) ==
  LET r == Check("expr", func_.object, T)
      obj == r.type
      fn == func(<<"_0">>, <<obj[2]>>, TBool)
  IN CASE func_.k # "Member" -> Called(func_, args, FALSE, T)
       [] func_.field = "is_a" -> IF obj = TError THEN r ELSE check_is_a_call(args, r.env)
       [] func_.field = "responds_to" -> IF obj = TError THEN r ELSE check_responds_to_call(args, r.env)
       [] obj = TError -> r
       [] IsKind(obj, "Nullable") -> check_nullable_way_out(func_.field, args, obj, r.env)
       [] func_.field = "contains" /\ obj[1] \in {"List", "Set"} /\ ArgNames(args) = {"f"} ->
            LET f == check_argument(args[1][2], fn, r.env) IN Checked(IF f.type = TError THEN TError ELSE TBool, f.env)
       [] func_.field = "push" /\ obj = ListOf(TNil) -> check_promoting_push(func_.object, args, r.env)
       [] OTHER -> Called(func_, args, FALSE, r.env)

check_async_call(e, T) ==
  LET r == Called(e.func, e.args, TRUE, T) IN Checked(Task(r.type), r.env)

\* Only a callee that suspends can be blocked on.
check_blocking_call(e, T) ==
  LET r == Called(e.func, e.args, TRUE, [T EXCEPT !.last_call_suspendable = FALSE])
  IN IF r.env.last_call_suspendable THEN r ELSE Reject(r.env)

\* resolve without ! is refused: any task may have been cancelled.
check_resolve(e, T) == LET r == Check("expr", e.expr, T) IN IF r.type = TError THEN r ELSE Reject(r.env)

check_detached_call(e, T) == Checked(TVoid, Called(e.func, e.args, TRUE, T).env)

-----------------------------------------------------------------------------
(* Errors *)

\* Mutation of mark_task_consumed: a task may be resolved again.
NotConsumed(e, T) ==
  IF e.k = "Ident" /\ IsKind(Lookup(T.variables, e.name), "Task") THEN [T EXCEPT !.consumed_tasks = @ \cup {e.name}] ELSE T

\* Resolving a task takes it; a second time is refused.
mark_task_consumed(e, T) ==
  IF e.k # "Ident" \/ ~IsKind(Lookup(T.variables, e.name), "Task") THEN T
  ELSE [T EXCEPT !.failed = @ \/ e.name \in T.consumed_tasks, !.consumed_tasks = @ \cup {e.name}]

resolve_func_type(func_, T) ==
  CASE func_.k = "Ident" /\ func_.name \in {"len", "to_string", "log", "say", "random"} -> Checked(TVoid, T)
    [] func_.k = "Ident" /\ func_.name \in {"resolve_all", "resolve_first"} ->
         Checked(Function(<<"tasks">>, <<ListOf(Task(TInt))>>, TVoid, Class("CancelledError"), TRUE), T)
    [] func_.k = "Ident" -> Given(Lookup(T.variables, func_.name), T)
    [] OTHER -> Check("expr", func_, T)

ThrownBy(f) == IF IsKind(f, "Function") THEN Throws(f) ELSE NoType

MayPropagate(T, error) ==
  \/ error = Class("CancelledError") \/ T.is_main
  \/ T.throws_type # NoType /\ is_error_subtype(T.classes, error, T.throws_type)

check_propagate(inner, T) ==
  LET task == Check("expr", inner.expr, T)
      f == resolve_func_type(inner.func, T)
  IN CASE inner.k = "Resolve" ->
            IF IsKind(task.type, "Task") THEN Checked(task.type[2], mark_task_consumed(inner.expr, task.env))
            ELSE IF task.type = TError THEN task ELSE Reject(task.env)
       [] inner.k = "Call" /\ ThrownBy(f.type) # NoType /\ MayPropagate(T, ThrownBy(f.type)) ->
            Called(inner.func, inner.args, TRUE, f.env)
       [] OTHER -> Reject(T)

check_throwing_call_expr(e, T) ==
  LET task == Check("expr", e.expr, T)
      f == resolve_func_type(e.func, T)
  IN CASE e.k = "Resolve" ->
            IF IsKind(task.type, "Task") THEN Checked(task.type[2], mark_task_ident_consumed(e.expr, task.env))
            ELSE IF task.type = TError THEN task ELSE Reject(task.env)
       [] e.k = "Call" /\ ThrownBy(f.type) # NoType -> Called(e.func, e.args, TRUE, f.env)
       [] OTHER -> Reject(T)

check_error_recovery(e, fallback, T) ==
  LET r == Check("throwing", e, T)
      f == Check("expr", fallback, r.env)
  IN IF TError \in {r.type, f.type} THEN Checked(TError, f.env)
     ELSE Given(IF r.type = f.type THEN r.type ELSE NoType, f.env)

\* The arms are of errors the call may throw (a task may throw any) and give what
\* the call gives.
check_error_catch(e, T) ==
  LET thrown == IF e.expr.k = "Call" THEN ThrownBy(resolve_func_type(e.expr.func, T).type) ELSE NoType
      r == Check("throwing", e.expr, T)
      arm(acc, a) ==
        LET p == a[1]
            sub == set_var_type(child_checker(acc.env), p.var, Class(p.error_type))
            value == IF p.k = "Typed" THEN restore_from_child(acc.env, Check("expr", a[2], sub))
                     ELSE Check("expr", a[2], acc.env)
        IN IF p.k = "Typed" => /\ p.error_type \in DOMAIN T.classes
                               /\ thrown # NoType => is_error_subtype(T.classes, Class(p.error_type), thrown)
             THEN [types |-> Append(acc.types, value.type), env |-> value.env]
             ELSE [acc EXCEPT !.env.failed = TRUE]
      arms == FoldLeft(arm, [types |-> <<>>, env |-> r.env], e.arms)
      ending == Range(arms.types) \ {TNever, TError}
  IN CASE e.arms = <<>> \/ Cardinality(ending) > 1 -> Reject(arms.env)
       [] r.type = TError -> Checked(IF ending = {} THEN r.type ELSE CHOOSE t \in ending : TRUE, arms.env)
       [] OTHER -> Given(IF ending \subseteq {r.type} THEN r.type ELSE NoType, arms.env)

check_throw(value, T) ==
  LET r == Check("expr", value, T)
  IN Given(IF T.throws_type # NoType /\ is_error_subtype(T.classes, r.type, T.throws_type) THEN TNever ELSE NoType, r.env)

-----------------------------------------------------------------------------
(* Match *)

\* A variable pattern after a nil arm binds what is not nil.
check_arm(pattern, value, t, nil_seen, T) ==
  LET fields == T.enums[pattern.enum].variants[pattern.variant]
      bound == {i \in 1..Len(pattern.bindings) : Field(fields, pattern.bindings[i][1]) # NoType}
      name(i) == pattern.bindings[i][2]
      sub == CASE pattern.k = "Ident" ->
                    set_var_type(child_checker(T), pattern.name, IF nil_seen THEN NotNil(t) ELSE t)
               [] pattern.k = "EnumVariant" ->
                    [child_checker(T) EXCEPT
                       !.variables = [n \in {name(i) : i \in bound} |->
                                        Field(fields, pattern.bindings[CHOOSE i \in bound : name(i) = n][1])] @@ @]
  IN IF pattern.k = "Ident" \/ (pattern.k = "EnumVariant" /\ pattern.bindings # <<>>)
       THEN restore_from_child(T, Check("expr", value, sub))
       ELSE Check("expr", value, T)

check_match_expr(e, T) ==
  LET s == Check("expr", e.scrutinee, T)
      arm(acc, i) ==
        LET p == e.arms[i][1]
            nil_seen == \E j \in 1..(i - 1) : IsNilPattern(e.arms[j][1])
            r == check_arm(p, e.arms[i][2], s.type, nil_seen, acc.env)
        IN IF ~acc.env.failed /\ check_match_pattern(T.enums, p, s.type)
             THEN [types |-> Append(acc.types, r.type), env |-> r.env]
             ELSE [acc EXCEPT !.env.failed = TRUE]
      arms == FoldLeft(arm, [types |-> <<>>, env |-> s.env], [i \in 1..Len(e.arms) |-> i])
  IN IF s.type = TError THEN s
     ELSE Given(IF /\ e.arms # <<>>
                   /\ exhaustive(T.enums, {e.arms[i][1] : i \in 1..Len(e.arms)}, s.type)
                  THEN Joined(arms.env.classes, arms.types) ELSE NoType, arms.env)


-----------------------------------------------------------------------------
(* Statements *)

scope(body, T) == with_child_scope(T, check_body(body, T))

\* The type a name gets from its annotation and its value; NoType to refuse.
Annotated(classes, ann, t) ==
  CASE ann = NoType -> t
    [] t = ListOf(TNil) /\ IsKind(ann, "List") -> ann
    [] t = MapOf(TError, TError) /\ IsKind(ann, "Map") -> ann
    [] IsKind(ann, "Nullable") -> IF t \in {ann, ann[2], TNil} THEN ann ELSE NoType
    [] OTHER -> IF types_compatible_with_env(classes, ann, t) THEN t ELSE NoType

\* A failure leaves current_function and expected_type as they were set for the value.
check_let_stmt(s, T) ==
  LET is_lambda == s.value.k = "Lambda"
      inside == [T EXCEPT !.current_function = IF is_lambda THEN s.name ELSE @, !.expected_type = s.type_ann]
      r == IF is_lambda THEN check_lambda_with_expected(s.value, s.type_ann, inside) ELSE Check("expr", s.value, inside)
      registered == Lookup(r.env.variables, s.name)
      suspends == is_lambda /\ IsKind(r.type, "Function") /\ IsKind(registered, "Function") /\ Suspendable(registered)
      t == Annotated(T.classes, s.type_ann, IF suspends THEN [r.type EXCEPT ![6] = TRUE] ELSE r.type)
      defaulted == {s.value.params[i][1] : i \in {j \in 1..Len(s.value.params) : s.value.defaults[j] # NoExpr}}
      restored == [r.env EXCEPT !.current_function = T.current_function, !.expected_type = T.expected_type]
      bound == set_var_type(restored, s.name, t)
  IN CASE s.type_ann # NoType /\ ~validate_collection_eq_constraint(TypesOf(T), s.type_ann) -> Reject(inside)
       [] r.env.failed -> Checked(TError, r.env)
       [] r.type = TError -> Checked(TError, set_var_type(restored, s.name, TError))
       [] t = NoType -> Reject(restored)
       [] is_lambda /\ defaulted # {} -> Checked(t, [bound EXCEPT !.default_params = (<<"", s.name>> :> defaulted) @@ @])
       [] IsKind(t, "Task") -> Checked(t, [bound EXCEPT !.task_bindings = @ \cup {s.name}])
       [] OTHER -> Checked(t, bound)

check_return_stmt(e, T) ==
  LET r == Check("expr", e, [T EXCEPT !.expected_type = T.expected_return_type])
      env == [r.env EXCEPT !.expected_type = T.expected_type]
  IN IF r.type = TError THEN Checked(TError, env)
     ELSE Given(IF T.expected_return_type = NoType \/ fits_return(T.classes, r.type, T.expected_return_type)
                  THEN r.type ELSE NoType, mark_task_ident_consumed(e, env))

Condition(e, T) == LET r == Check("expr", e, T) IN Given(IF r.type \in {TBool, TError} THEN r.type ELSE NoType, r.env)

check_if_stmt(s, T) ==
  scope(s.else_body, FoldLeft(LAMBDA U, b : scope(b[2], Condition(b[1], U).env).env, T, s.branches))

check_while_stmt(s, T) ==
  LET c == Condition(s.cond, T)
  IN with_child_scope(c.env, check_body(s.body, [c.env EXCEPT !.loop_depth = @ + 1]))

ElementType(classes, t) ==
  LET class == classes[t[2]]
  IN CASE t[1] \in {"List", "Set"} -> t[2]
       [] t = TError -> TError
       [] IsKind(t, "Custom") /\ t[2] \in DOMAIN classes /\ "Iterable" \in class.includes ->
            get_iterable_element_type(class.methods)
       [] IsKind(t, "Custom") /\ t[2] \in DOMAIN classes /\ "Iterator" \in class.includes ->
            get_iterator_element_type(class)
       [] OTHER -> NoType

check_for_stmt(s, T) ==
  LET r == Check("expr", s.iter, T)
      elem == ElementType(T.classes, r.type)
      inner == [set_var_type(r.env, s.var, elem) EXCEPT !.loop_depth = @ + 1]
  IN IF elem = NoType THEN Reject(r.env) ELSE with_child_scope(r.env, check_body(s.body, inner))

\* A name may be widened to; a field only to nullable, and only if it is of the
\* class itself; an element not at all.
check_assignment_stmt(s, T) ==
  LET v == Check("expr", s.value, T)
      slot == Lookup(T.variables, s.target.name)
      under == check_all(<<s.target.object, s.target.index>>, v.env)
      obj == Check("expr", s.target.object, v.env)
      field == Field(T.classes[obj.type[2]].fields, s.target.field)
  IN CASE v.type = TError -> v
       [] s.target.k = "Ident" ->
            IF slot = TError /\ s.target.name \notin T.const_names THEN Checked(TError, v.env)
            ELSE Given(IF slot # NoType /\ s.target.name \notin T.const_names /\ fits(T.classes, v.type, slot)
                         THEN slot ELSE NoType, v.env)
       [] s.target.k = "Index" -> Given(IndexAssigned(under.types[1], under.types[2], v.type), under.env)
       [] s.target.k = "Member" /\ obj.type = TError -> obj
       [] s.target.k = "Member" ->
            Given(IF /\ IsKind(obj.type, "Custom") /\ obj.type[2] \in DOMAIN T.classes
                     /\ field # NoType
                     /\ v.type = field \/ is_nullable_compatible(field, v.type)
                    THEN field ELSE NoType, obj.env)
       [] OTHER -> Reject(v.env)

check_jump(T) == Given(IF T.loop_depth > 0 THEN TVoid ELSE NoType, T)

check_const_stmt(s, T) ==
  LET r == Check("expr", s.value, T)
      t == IF s.type_ann = NoType THEN r.type ELSE s.type_ann
  IN IF is_const_expr(s.value) /\ types_compatible_with_env(T.classes, t, r.type)
       THEN Checked(TVoid, [set_var_type(r.env, s.name, t) EXCEPT !.const_names = @ \cup {s.name}])
       ELSE Reject(r.env)

\* A method without a body is required of the classes that include the trait.
check_trait_stmt(s, T) ==
  LET r == check_all([i \in 1..Len(s.methods) |-> s.methods[i].value], T)
      last(m) == r.types[CHOOSE i \in 1..Len(s.methods) : s.methods[i].name = m]
      info == TraitInfo([m \in {s.methods[i].name : i \in 1..Len(s.methods)} |-> last(m)],
                        {s.methods[i].name : i \in {j \in 1..Len(s.methods) : s.methods[j].value.body = <<>>}},
                        s.generics)
  IN Checked(TVoid, [r.env EXCEPT !.traits = (s.name :> info) @@ @])

\* The methods of an enum are not looked at: nothing can call them.
check_enum_stmt(s, T) ==
  IF \A inc \in Range(s.includes) :
       /\ inc[1] \in DOMAIN T.traits
       /\ T.traits[inc[1]].generics # <<>> => Len(inc[2]) = Len(T.traits[inc[1]].generics)
    THEN Checked(TVoid, [T EXCEPT !.enums = (s.name :> EnumInfo(s.variants, {inc[1] : inc \in Range(s.includes)})) @@ @])
    ELSE Reject(T)

-----------------------------------------------------------------------------
(* Classes *)

\* A second method of a name is an overload, in a class that includes a generic
\* trait more than once, and an error in any other.
check_class_methods(s, class_type, overloads_allowed, sub) ==
  LET add(acc, m) ==
        LET r == Check("expr", substitute_self_in_lambda(m.value, class_type), acc.env)
            before == IF m.name \in DOMAIN acc.overloads THEN acc.overloads[m.name]
                      ELSE IF m.name \in DOMAIN acc.methods THEN <<acc.methods[m.name]>> ELSE <<>>
        IN CASE before = <<>> -> [acc EXCEPT !.methods = (m.name :> r.type) @@ @, !.env = r.env]
             [] m.name \in DOMAIN acc.methods /\ ~overloads_allowed -> [acc EXCEPT !.env = Reject(r.env).env]
             [] OTHER -> [methods |-> Restrict(acc.methods, DOMAIN acc.methods \ {m.name}),
                          overloads |-> (m.name :> Append(before, r.type)) @@ acc.overloads,
                          env |-> r.env]
  IN FoldLeft(add, [methods |-> NoMethods, overloads |-> [m \in {} |-> <<>>], env |-> sub], s.methods)

constructed(s, T) == set_var_type(T, s.name, class_constructor(T.classes, s.name, s.fields, s.generics, s.extends))

\* While its methods are checked the class is known by name and constructor only,
\* its fields are variables, and those of its ancestors hide them.
known_by_name(s, T) ==
  LET empty == [ClassInfo(<<>>, NoMethods, s.extends, {}) EXCEPT !.generics = s.generics]
  IN constructed(s, [T EXCEPT !.classes = (s.name :> empty) @@ @])

method_scope(s, T) ==
  LET ancestors == walk_ancestors(T.classes, s.name)
      fields == s.fields \o FlattenSeq([i \in 1..Len(ancestors) |-> T.classes[ancestors[i]].fields])
  IN FoldLeft(LAMBDA U, f : set_var_type(U, f[1], f[2]), child_checker(T), fields)

method_defaults(s) ==
  LET defaulted(v) == {v.params[i][1] : i \in {j \in 1..Len(v.params) : v.defaults[j] # NoExpr}}
      some == {i \in 1..Len(s.methods) : defaulted(s.methods[i].value) # {}}
  IN [key \in {<<s.name, s.methods[i].name>> : i \in some} |->
        defaulted(s.methods[CHOOSE i \in some : s.methods[i].name = key[2]].value)]

class_declared(s, T) ==
  IF /\ s.extends # "" => s.extends \in DOMAIN T.classes
     /\ validate_circular_inheritance(T.classes, s.name, {s.name})
     /\ detect_field_shadowing(T.classes, s.name, s.fields)
    THEN Checked(TVoid, constructed(s, T))
    ELSE Reject(T)

class_validated(s, class, T) ==
  IF ~class.ok THEN Reject(T)
  ELSE class_declared(s, [T EXCEPT !.classes =
                            (s.name :> [class EXCEPT !.methods = inject_auto_derive(@, class.includes)]) @@ @])

class_included(s, m, T) ==
  LET known == [T.classes[s.name] EXCEPT !.fields = s.fields, !.methods = m.methods, !.overloads = m.overloads]
  IN class_validated(s, validate_trait_inclusions(T, known, ClassType(s.name, s.generics), s.includes), T)

class_methods_checked(s, m, T) ==
  IF m.env.failed \/ Cardinality({f[1] : f \in Range(s.fields)}) # Len(s.fields) THEN Reject(T)
  ELSE class_included(s, m, [T EXCEPT !.default_params = method_defaults(s) @@ @])

\* Methods may be overloaded when a generic trait is included more than once.
check_class(s, T) ==
  LET times(trait) == Cardinality({i \in 1..Len(s.includes) : s.includes[i][1] = trait /\ s.includes[i][2] # <<>>})
  IN class_methods_checked(s, check_class_methods(s, ClassType(s.name, s.generics),
                                                  \E inc \in Range(s.includes) : times(inc[1]) > 1, method_scope(s, T)), T)

check_class_stmt(s, T) == check_class(s, known_by_name(s, T))

-----------------------------------------------------------------------------

check_expr(e, T) ==
  CASE e.k \in {"Int", "Float", "Str", "Bool", "Nil"} -> Checked(LiteralType(e), T)
    [] e.k = "Ident" -> check_ident(e.name, T)
    [] e.k = "Lambda" -> check_lambda(e, T)
    [] e.k = "Call" -> check_call(e.func, e.args, T)
    [] e.k = "BinaryOp" -> check_binary(e, T)
    [] e.k = "UnaryOp" -> check_unary(e, T)
    [] e.k = "Member" -> check_member(e, T)
    [] e.k = "ListLiteral" -> check_list_literal(e.elems, T)
    [] e.k = "Index" -> check_index(e, T)
    [] e.k = "Match" -> check_match_expr(e, T)
    [] e.k = "AsyncCall" -> check_async_call(e, T)
    [] e.k = "BlockingCall" -> check_blocking_call(e, T)
    [] e.k = "DetachedCall" -> check_detached_call(e, T)
    [] e.k = "Resolve" -> check_resolve(e, T)
    [] e.k = "Propagate" -> check_propagate(e.expr, T)
    [] e.k = "Throw" -> check_throw(e.expr, T)
    [] e.k = "ErrorOr" -> check_error_recovery(e.expr, e.default, T)
    [] e.k = "ErrorOrElse" -> check_error_recovery(e.expr, e.handler, T)
    [] e.k = "ErrorCatch" -> check_error_catch(e, T)
    [] e.k = "StringInterpolation" -> check_interpolation(e.parts, T)
    [] e.k = "Map" -> check_map_literal(e.entries, T)
    [] e.k = "Range" -> check_range(e, T)

check_stmt(s, T) ==
  CASE s.k = "Let" -> check_let_stmt(s, T)
    [] s.k = "Class" -> check_class_stmt(s, T)
    [] s.k = "Trait" -> check_trait_stmt(s, T)
    [] s.k = "Return" -> check_return_stmt(s.expr, T)
    [] s.k = "Expr" -> Check("expr", s.expr, T)
    [] s.k = "If" -> check_if_stmt(s, T)
    [] s.k = "While" -> check_while_stmt(s, T)
    [] s.k = "For" -> check_for_stmt(s, T)
    [] s.k = "Assignment" -> check_assignment_stmt(s, T)
    [] s.k \in {"Break", "Continue"} -> check_jump(T)
    [] s.k = "Enum" -> check_enum_stmt(s, T)
    [] s.k = "Const" -> check_const_stmt(s, T)

Check(part, x, T) ==
  CASE T.failed -> Checked(TError, T)
    [] part = "expr" -> check_expr(x, T)
    [] part = "call" -> check_call_inner(x.func, x.args, x.bypass, T)
    [] part = "throwing" -> check_throwing_call_expr(x, T)
    [] part = "stmt" -> check_stmt(x, T)
=============================================================================
