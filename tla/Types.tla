-------------------------------- MODULE Types --------------------------------
(***************************************************************************)
(* The types of the language, the relations between them that the checker  *)
(* decides by, and the scope chain they are looked up in.                  *)
(***************************************************************************)
EXTENDS Integers, SequencesExt

-----------------------------------------------------------------------------
(* Terms.  A type is a tuple that starts with its constructor.             *)

TInt == <<"Int">>
TFloat == <<"Float">>
TBool == <<"Bool">>
TString == <<"String">>
TNil == <<"Nil">>
TVoid == <<"Void">>
TNever == <<"Never">>
TInferred == <<"Inferred">>
TError == <<"Error">>   \* error recovery: agrees with everything
NoType == <<"None">>    \* Option::None

ListOf(t) == <<"List", t>>
SetOf(t) == <<"Set", t>>
MapOf(k, v) == <<"Map", k, v>>
Nullable(t) == <<"Nullable", t>>
Task(t) == <<"Task", t>>
Custom(name, args) == <<"Custom", name, args>>
Class(name) == Custom(name, <<>>)
TypeVar(name, constraints) == <<"TypeVar", name, constraints>>
Function(names, params, ret, throws, suspendable) ==
  <<"Function", names, params, ret, throws, suspendable>>

IsKind(t, kind) == t[1] = kind
Names(f) == f[2]
Params(f) == f[3]
Ret(f) == f[4]
Throws(f) == f[5]
Suspendable(f) == f[6]

func(names, params, ret) == Function(names, params, ret, NoType, FALSE)
throwing(names, params, throws, ret) == Function(names, params, ret, throws, FALSE)

SeqMap(s, Op(_)) == [i \in 1..Len(s) |-> Op(s[i])]

\* Rebuild a type, replacing its leaves: replaced maps <<"TypeVar", name>> and
\* <<"Custom", name>> to types.
RECURSIVE map_type(_, _)
map_type(t, replaced) ==
  LET all(ts) == [i \in 1..Len(ts) |-> map_type(ts[i], replaced)] IN
  CASE IsKind(t, "TypeVar") -> IF <<"TypeVar", t[2]>> \in DOMAIN replaced THEN replaced[<<"TypeVar", t[2]>>] ELSE t
    [] IsKind(t, "Custom") -> IF t[3] = <<>> /\ <<"Custom", t[2]>> \in DOMAIN replaced THEN replaced[<<"Custom", t[2]>>]
                              ELSE Custom(t[2], all(t[3]))
    [] t[1] \in {"List", "Set", "Nullable", "Task", "Map"} -> <<t[1]>> \o all(Tail(t))
    [] IsKind(t, "Function") -> Function(Names(t), all(Params(t)), map_type(Ret(t), replaced),
                                         IF Throws(t) = NoType THEN NoType ELSE map_type(Throws(t), replaced),
                                         Suspendable(t))
    [] OTHER -> t

substitute_typevars(t, binding) ==
  map_type(t, [leaf \in {"TypeVar"} \X DOMAIN binding |-> binding[leaf[2]]])

RECURSIVE collect_types(_)
collect_types(t) ==
  {t} \cup
  CASE t[1] \in {"List", "Set", "Nullable", "Task"} -> collect_types(t[2])
    [] t[1] = "Map" -> collect_types(t[2]) \cup collect_types(t[3])
    [] t[1] = "Custom" -> UNION {collect_types(t[3][i]) : i \in 1..Len(t[3])}
    [] t[1] = "Function" -> UNION {collect_types(Params(t)[i]) : i \in 1..Len(Params(t))}
                            \cup collect_types(Ret(t))
                            \cup (IF Throws(t) = NoType THEN {} ELSE collect_types(Throws(t)))
    [] OTHER -> {}

any_type(t, Test(_)) == \E u \in collect_types(t) : Test(u)

type_contains_var(t, var) == any_type(t, LAMBDA u : u[1] = "TypeVar" /\ u[2] = var)

-----------------------------------------------------------------------------
(* What is declared: classes, traits and enums. *)

\* fields: <<name, type>> in order; extends is "" without a parent; generics: type
\* parameters; parametric: <<trait, type arguments>>; overloads: method -> its types.
ClassInfo(fields, methods, extends, includes) ==
  [ok |-> TRUE, fields |-> fields, methods |-> methods, extends |-> extends, includes |-> includes,
   generics |-> <<>>, parametric |-> {}, overloads |-> [m \in {} |-> <<>>]]

TraitInfo(methods, required, generics) == [methods |-> methods, required |-> required, generics |-> generics]

\* variants: name -> fields.
EnumInfo(variants, includes) == [variants |-> variants, includes |-> includes]

Field(fields, name) == LET i == {j \in 1..Len(fields) : fields[j][1] = name}
                       IN IF i = {} THEN NoType ELSE fields[CHOOSE j \in i : TRUE][2]

Lookup(table, name) == IF name \in DOMAIN table THEN table[name] ELSE NoType

-----------------------------------------------------------------------------
(* Relations *)

\* The ancestors of a class, nearest first; a cycle ends the walk.
RECURSIVE Ancestors(_, _, _)
Ancestors(classes, name, visited) ==
  IF name \notin DOMAIN classes THEN <<>>
  ELSE LET parent == classes[name].extends
       IN IF parent = "" \/ parent \in visited THEN <<>>
          ELSE <<parent>> \o Ancestors(classes, parent, visited \cup {parent})

walk_ancestors(classes, name) ==
  SelectSeq(Ancestors(classes, name, {name}), LAMBDA c : c \in DOMAIN classes)

\* The parent is compared before it is looked up, and before the cycle test.
is_subtype_of(classes, child, ancestor) ==
  \/ \E i \in 1..Len(Ancestors(classes, child, {child})) : Ancestors(classes, child, {child})[i] = ancestor
  \/ /\ child \in DOMAIN classes
     /\ \E c \in {child} \cup Range(Ancestors(classes, child, {child})) :
          c \in DOMAIN classes /\ classes[c].extends = ancestor

is_error_subtype(classes, child, parent) ==
  \/ child = parent
  \/ IsKind(child, "Custom") /\ IsKind(parent, "Custom") /\ is_subtype_of(classes, child[2], parent[2])

is_nullable_compatible(expected, actual) ==
  IsKind(expected, "Nullable") /\ actual \in {expected[2], TNil}

is_subtype_compatible(classes, actual, expected) ==
  \/ /\ IsKind(actual, "Custom")
     /\ IsKind(expected, "Custom")
     /\ actual[2] # expected[2]
     /\ is_subtype_of(classes, actual[2], expected[2])
  \/ /\ IsKind(actual, "Function")
     /\ IsKind(expected, "Function")
     /\ Tail(Tail(actual)) = Tail(Tail(expected))

\* Containers are invariant; parameter names do not matter.
types_compatible_with_env(classes, a, b) ==
  IF IsKind(a, "Function") /\ IsKind(b, "Function")
    THEN Params(a) = Params(b) /\ Ret(a) = Ret(b) /\ Throws(a) = Throws(b)
  ELSE IF IsKind(a, "Custom") /\ IsKind(b, "Custom") /\ a[2] # b[2]
    THEN a[3] = <<>> /\ b[3] = <<>> /\ is_subtype_of(classes, b[2], a[2])
  ELSE a = b

\* Eq, Ord and Printable: built in for primitives, declared for classes and
\* enums, by element for lists and sets.  Ord brings Eq.
RECURSIVE type_includes_protocol(_, _, _)
type_includes_protocol(types, t, protocol) ==
  LET wanted == IF protocol = "Eq" THEN {"Eq", "Ord"} ELSE {protocol} IN
  CASE t[1] \in {"Int", "Float", "String", "Bool", "Error"} -> TRUE
    [] t[1] = "Nil" -> protocol \in {"Printable", "Eq"}
    [] t[1] = "Custom" -> t[2] \in DOMAIN types /\ types[t[2]].includes \cap wanted # {}
    [] t[1] \in {"List", "Set"} -> type_includes_protocol(types, t[2], protocol)
    [] OTHER -> FALSE

type_is_hashable(types, t) ==
  \/ t[1] \in {"Int", "Float", "String", "Bool", "Nil", "Error"}
  \/ t[1] = "Custom" /\ type_includes_protocol(types, t, "Eq")

validate_collection_eq_constraint(types, t) ==
  t[1] \in {"Set", "Map"} => type_is_hashable(types, t[2])
=============================================================================
