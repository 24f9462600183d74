------------------------------- MODULE ClassRules -------------------------------
(***************************************************************************)
(* What the declaration of a class must satisfy once its methods have      *)
(* types: the traits it includes are implemented or derived, its ancestors *)
(* form a chain, and its constructor takes the inherited fields first.     *)
(* A verdict is the class, or NoClass to refuse it.                        *)
(***************************************************************************)
EXTENDS TypeRules

NoClass == [ok |-> FALSE]

substitute_self(t, class_type) == map_type(t, <<"Custom", "Self">> :> class_type)

substitute_self_in_lambda(l, class_type) ==
  [l EXCEPT !.params = [i \in 1..Len(@) |-> <<@[i][1], substitute_self(@[i][2], class_type)>>],
            !.ret_type = substitute_self(@, class_type),
            !.throws = IF @ = NoType THEN @ ELSE substitute_self(@, class_type)]

ClassType(name, generics) == Custom(name, [i \in 1..Len(generics) |-> TypeVar(generics[i], {})])

\* The constructor: the fields of the ancestors, the farthest first, then its own.
class_constructor(classes, name, fields, generics, extends) ==
  LET inherited == IF extends = "" THEN <<>>
                   ELSE FlattenSeq([i \in 1..Len(walk_ancestors(classes, name)) |->
                                      classes[Reverse(walk_ancestors(classes, name))[i]].fields])
      all == inherited \o fields
  IN func([i \in 1..Len(all) |-> all[i][1]], [i \in 1..Len(all) |-> all[i][2]], ClassType(name, generics))

\* A cycle through any class is refused, one that does not pass the class as well.
RECURSIVE validate_circular_inheritance(_, _, _)
validate_circular_inheritance(classes, name, visited) ==
  LET parent == IF name \in DOMAIN classes THEN classes[name].extends ELSE ""
  IN parent = "" \/ (parent \notin visited /\ validate_circular_inheritance(classes, parent, visited \cup {parent}))

detect_field_shadowing(classes, name, fields) ==
  \A c \in Range(walk_ancestors(classes, name)) : \A f \in Range(fields) : Field(classes[c].fields, f[1]) = NoType

-----------------------------------------------------------------------------
(* Traits *)

\* get_iterable_element_type_from_class: what each() hands to its callback.
get_iterable_element_type(methods) ==
  LET each == Lookup(methods, "each")
      f == Params(each)[1]
  IN IF /\ IsKind(each, "Function") /\ Len(Params(each)) = 1 /\ Ret(each) = TVoid
        /\ IsKind(f, "Function") /\ Len(Params(f)) = 1 /\ Ret(f) = TVoid
       THEN Params(f)[1] ELSE NoType

get_iterator_element_type(info) ==
  LET of_trait == {p \in info.parametric : p[1] = "Iterator" /\ Len(p[2]) = 1}
      next == Lookup(info.methods, "next")
  IN CASE of_trait # {} -> (CHOOSE p \in of_trait : TRUE)[2][1]
       [] IsKind(next, "Function") /\ IsKind(Ret(next), "Nullable") -> Ret(next)[2]
       [] OTHER -> NoType

\* A class written with Iterable needs less than a loop over it: any each() whose
\* first parameter is a function of something.
IncludedElement(methods) ==
  LET each == Lookup(methods, "each")
      f == Params(each)[1]
  IN IF IsKind(each, "Function") /\ Params(each) # <<>> /\ IsKind(f, "Function") /\ Params(f) # <<>>
       THEN Params(f)[1] ELSE NoType

\* The class's own methods win over the vocabulary.
inject_iterable_vocabulary(methods, elem) == methods @@ iterable_vocabulary_methods(elem)

\* eq, cmp and to_string are derived when every field has the protocol.
try_auto_derive_method(trait, class_type) ==
  CASE trait = "Eq" -> "eq" :> func(<<"other">>, <<class_type>>, TBool)
    [] trait = "Ord" -> "cmp" :> func(<<"other">>, <<class_type>>, Class("Ordering"))
    [] trait = "Printable" -> "to_string" :> func(<<>>, <<>>, TString)
    [] OTHER -> NoMethods

check_auto_derive(types, fields, trait) == \A f \in Range(fields) : type_includes_protocol(types, f[2], trait)

inject_auto_derive(methods, includes) ==
  IF "Printable" \in includes THEN methods @@ ("debug" :> func(<<>>, <<>>, TString)) ELSE methods

\* The type the trait asks of a method, for the class and the type arguments.
Required(trait, method, class_type, args) ==
  substitute_typevars(substitute_self(trait.methods[method], class_type),
                      [v \in Range(trait.generics) |-> args[CHOOSE i \in 1..Len(args) : trait.generics[i] = v]])

\* What the class has under the name of a method.
candidates(class, m) ==
  IF m \in DOMAIN class.overloads THEN Range(class.overloads[m])
  ELSE IF m \in DOMAIN class.methods THEN {class.methods[m]} ELSE {}

\* With what is missing derived, if it can be.  An inclusion repeated with other
\* arguments is satisfied by overloads alone.
Derived(T, class, name, missing, derived, repeated) ==
  CASE missing = {} \/ repeated -> class
    [] missing \subseteq DOMAIN derived /\ check_auto_derive(T.classes @@ T.enums, class.fields, name) ->
         [class EXCEPT !.methods = derived @@ @]
    [] OTHER -> NoClass

\* One inclusion: an overload that does not fit counts as missing, a method that
\* does not fit is an error.
Included(T, class, class_type, inclusion, repeated) ==
  LET trait == T.traits[inclusion[1]]
      fitting(m) == \E t \in candidates(class, m) : unify_type(Required(trait, m, class_type, inclusion[2]), t).ok
  IN IF /\ inclusion[1] \in DOMAIN T.traits
        /\ trait.generics # <<>> => Len(inclusion[2]) = Len(trait.generics)
        /\ \A m \in trait.required : m \in DOMAIN class.methods \ DOMAIN class.overloads => fitting(m)
       THEN Derived(T, class, inclusion[1], {m \in trait.required : ~fitting(m)},
                    try_auto_derive_method(inclusion[1], class_type), repeated)
       ELSE NoClass

\* Ord brings Eq; Iterable takes no arguments, its element type is that of each().
validate_trait_inclusions(T, class, class_type, includes) ==
  LET named == {inc[1] : inc \in Range(includes)}
      withEq == IF "Ord" \in named /\ "Eq" \notin named THEN Append(includes, <<"Eq", <<>>>>) ELSE includes
      repeated(i) == \E j \in 1..(i - 1) : withEq[j][1] = withEq[i][1]
      inclusion(inc) == IF inc[1] = "Iterable" THEN <<"Iterable", <<IncludedElement(class.methods)>>>> ELSE inc
      included(c, i) == IF ~c.ok \/ withEq[i][1] \in {"DynamicReceiver", "FieldAccessible"} THEN c
                        ELSE Included(T, c, class_type, inclusion(withEq[i]), repeated(i))
      start == [class EXCEPT !.includes = {inc[1] : inc \in Range(withEq)},
                             !.parametric = {inc \in Range(includes) : inc[2] # <<>>},
                             !.methods = IF "Iterable" \notin named THEN @
                                         ELSE inject_iterable_vocabulary(@, IncludedElement(@))]
  IN IF "Iterable" \in named /\ (IncludedElement(class.methods) = NoType \/ \E inc \in start.parametric : inc[1] = "Iterable")
       THEN NoClass
       ELSE FoldLeft(included, start, [i \in 1..Len(withEq) |-> i])

-----------------------------------------------------------------------------
(* Members *)

\* A field or a method of a class or of its nearest ancestor that has it, with the
\* type arguments of the receiver.
Constrained(types, class, method) ==
  LET elem == get_iterable_element_type(class.methods)
  IN ("Iterable" \in class.includes /\ elem # NoType) => check_collection_constraint(types, method, elem)

\* Overloads: the one the expected type picks, or NoType.
resolve_overloaded_method(expected, overloads) ==
  LET matching == {i \in 1..Len(overloads) : unify_type(expected, Ret(overloads[i])).ok}
  IN CASE Len(overloads) = 1 -> overloads[1]
       [] expected # NoType /\ Cardinality(matching) = 1 -> overloads[CHOOSE i \in matching : TRUE]
       [] OTHER -> NoType

\* into() of a class whose target includes From of it.
resolve_into_via_from_reverse(classes, source, expected) ==
  IF /\ expected # NoType /\ IsKind(expected, "Custom") /\ expected[2] \in DOMAIN classes
     /\ <<"From", <<source>>>> \in classes[expected[2]].parametric
    THEN func(<<>>, <<>>, expected) ELSE NoType

RECURSIVE ClassMember(_, _, _, _)
ClassMember(T, receiver, name, field) ==
  LET class == T.classes[name]
      own == Field(class.fields, field)
      args == receiver[3]
      bound == {i \in 1..Len(class.generics) : i <= Len(args)}
      here(t) == substitute_typevars(t, [v \in {class.generics[i] : i \in bound} |->
                                           args[CHOOSE i \in bound : class.generics[i] = v]])
      reverse == resolve_into_via_from_reverse(T.classes, receiver, T.expected_type)
  IN CASE name \notin DOMAIN T.classes -> NoType
       [] own # NoType -> here(own)
       [] field \in DOMAIN class.methods ->
            IF Constrained(T.classes @@ T.enums, class, field) THEN here(class.methods[field]) ELSE NoType
       [] field \in DOMAIN class.overloads -> resolve_overloaded_method(T.expected_type, class.overloads[field])
       [] field = "into" /\ "Into" \notin class.includes /\ reverse # NoType -> reverse
       [] class.extends = "" -> NoType
       [] OTHER -> ClassMember(T, receiver, class.extends, field)
=============================================================================
