-------------------------------- MODULE Linker --------------------------------
(***************************************************************************)
(* FIR modules and how they are put together (fir/src/module.rs,           *)
(* fir/src/lower/mod.rs): functions and classes are rows of two tables,    *)
(* known by their numbers, which change as the code of several modules is  *)
(* merged. ModuleCode says how the rows come about.                        *)
(*                                                                         *)
(* A source reference is a call, a construction or a lambda; statements    *)
(* and types are left out. Every row and every reference carries what it   *)
(* stands for in the source, which the code does not have.                 *)
(***************************************************************************)
EXTENDS Integers, Sequences, FiniteSets, TLC, SequencesExt, Functions

CONSTANT
  Sentinel  \* from this number on, a class is a builtin one (builtin_errors.rs:36)

ASSUME SentinelNat == Sentinel \in Nat

\* Source references, by name: <<f>> is a function, <<C, m>> a method of a class.
Calling(name) == [k |-> "fn", name |-> name]
Constructing(class) == [k |-> "class", class |-> class]
Lambda(body) == [k |-> "lambda", body |-> body]
Unsupported == [k |-> "unsupported"]

\* Top-level statements that leave code.
Def(name, pub, body) == [k |-> "def", name |-> name, pub |-> pub, body |-> body]
Class(name, pub, includes, methods) ==
  [k |-> "class", name |-> name, pub |-> pub, includes |-> includes, methods |-> methods]
Trait(name, pub, methods) == [k |-> "trait", name |-> name, pub |-> pub, methods |-> methods]

\* Numbers of the builtin classes, which are the same everywhere.
BuiltinClasses == {"CancelledError"}
BuiltinId(c) == Sentinel

NoFunction == [name |-> <<>>, means |-> <<>>, refs |-> <<>>]

\* A lowerer: the tables, what names stand for and the next numbers.
Lowerer ==
  [functions |-> <<>>, classes |-> <<>>,
   function_names |-> [f \in {} |-> 0], class_names |-> [c \in BuiltinClasses |-> BuiltinId(c)],
   next_function |-> 0, next_class |-> 0, failed |-> FALSE]

\* Of two functions the values of the first hide those of the second.
Over(new, old) == [n \in DOMAIN new \cup DOMAIN old |-> IF n \in DOMAIN new THEN new[n] ELSE old[n]]

-----------------------------------------------------------------------------
(* Tables *)

\* A function goes to the row of its number; rows skipped are placeholders.
add_function(functions, id, f) ==
  LET grown == functions \o [i \in 1..(id + 1 - Len(functions)) |-> NoFunction]
  IN [grown EXCEPT ![id + 1] = f]

FunctionNamed(functions, name) == {i - 1 : i \in {j \in 1..Len(functions) : functions[j].name = name}}
ClassNamed(classes, name) == {c.id : c \in {d \in Range(classes) : d.name = name}}

\* Mutation of register_function: the next number is not counted on.
RegisterUncounted(L, name, means, refs) ==
  LET id == IF name \in DOMAIN L.function_names THEN L.function_names[name] ELSE L.next_function
  IN [L EXCEPT !.functions = add_function(@, id, [name |-> name, means |-> means, refs |-> refs]),
               !.function_names = (name :> id) @@ @]

\* A name that has a number keeps it.
register_function(L, name, means, refs) ==
  IF name \in DOMAIN L.function_names
    THEN [L EXCEPT !.functions = add_function(@, L.function_names[name], [name |-> name, means |-> means, refs |-> refs])]
    ELSE [L EXCEPT !.functions = add_function(@, L.next_function, [name |-> name, means |-> means, refs |-> refs]),
                   !.function_names = (name :> L.next_function) @@ @,
                   !.next_function = @ + 1]

-----------------------------------------------------------------------------
(* Merging *)

export_cache(L) ==
  [functions |-> L.functions, classes |-> L.classes, function_names |-> L.function_names, class_names |-> L.class_names]

\* Mutation of KnownFunctions: nothing is known already.
NothingKnown(L, cache) == {}

\* Rows the lowerer has already, by name; a placeholder has none.
KnownFunctions(L, cache) ==
  {i \in 1..Len(cache.functions) : cache.functions[i].name # <<>> /\ FunctionNamed(L.functions, cache.functions[i].name) # {}}
KnownClasses(L, cache) == {i \in 1..Len(cache.classes) : ClassNamed(L.classes, cache.classes[i].name) # {}}

\* How many of the first rows are not known.
NewRows(rows, known) == Cardinality((1..rows) \ known)

\* What a number of the cache becomes: the row of the same name, or the next free row.
func_remap(L, cache, known) ==
  [old \in 0..(Len(cache.functions) - 1) |->
     IF old + 1 \in known THEN Max(FunctionNamed(L.functions, cache.functions[old + 1].name))
     ELSE Len(L.functions) + NewRows(old, known)]

class_remap(L, cache, known) ==
  LET row(old) == CHOOSE i \in 1..Len(cache.classes) : cache.classes[i].id = old
  IN [old \in {c.id : c \in Range(cache.classes)} |->
        IF row(old) \in known THEN Max(ClassNamed(L.classes, cache.classes[row(old)].name))
        ELSE Len(L.classes) + NewRows(row(old) - 1, known)]

resolve_func(fr, offset, old) == IF old \in DOMAIN fr THEN fr[old] ELSE old + offset
resolve_class(cr, offset, old) ==
  IF old >= Sentinel THEN old ELSE IF old \in DOMAIN cr THEN cr[old] ELSE old + offset

remap_stmts_with(refs, fr, cr, fo, co) ==
  [i \in 1..Len(refs) |->
    [refs[i] EXCEPT !.id = IF refs[i].k = "fn" THEN resolve_func(fr, fo, @) ELSE resolve_class(cr, co, @)]]

\* The rows that are not known, in order.
NewRow(rows, known) ==
  [k \in 1..NewRows(rows, known) |-> CHOOSE i \in (1..rows) \ known : NewRows(i, known) = k]

\* They are added behind those of the lowerer, and names that stand for nothing yet are learned.
Merged(L, cache, known, known_classes, fr, cr) ==
  LET fo == Len(L.functions)
      co == Len(L.classes)
      new == NewRow(Len(cache.functions), known)
      new_class == NewRow(Len(cache.classes), known_classes)
      moved(f) == [f EXCEPT !.refs = remap_stmts_with(@, fr, cr, fo, co)]
      moved_class(c) == [c EXCEPT !.id = resolve_class(cr, co, @)]
      functions == L.functions \o [k \in DOMAIN new |-> moved(cache.functions[new[k]])]
      classes == L.classes \o [k \in DOMAIN new_class |-> moved_class(cache.classes[new_class[k]])]
  IN [L EXCEPT
       !.functions = functions,
       !.classes = classes,
       !.function_names = Over(@, [n \in DOMAIN cache.function_names |-> resolve_func(fr, fo, cache.function_names[n])]),
       !.class_names = Over(@, [n \in DOMAIN cache.class_names |-> resolve_class(cr, co, cache.class_names[n])]),
       !.next_function = Max({@, Len(functions)}),
       !.next_class = Max({@, Len(classes)})]

merge_imported(L, cache) ==
  LET known == KnownFunctions(L, cache)
      known_classes == KnownClasses(L, cache)
  IN Merged(L, cache, known, known_classes, func_remap(L, cache, known), class_remap(L, cache, known_classes))

\* A new lowerer with all the code of some caches.
merge_all(caches) ==
  LET merged[i \in 0..Len(caches)] == IF i = 0 THEN Lowerer ELSE merge_imported(merged[i - 1], caches[i])
  IN merged[Len(caches)]
=============================================================================
