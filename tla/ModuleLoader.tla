----------------------------- MODULE ModuleLoader -----------------------------
(***************************************************************************)
(* How a program of several files is put together (module_loader.rs, the   *)
(* imports of typechecker.rs, the driver in main.rs): a module that is     *)
(* imported is read, checked and lowered on top of everything loaded       *)
(* before it, and its exports and its code are cached. At the end the      *)
(* driver merges all the cached code, in no particular order, and lowers   *)
(* the main file on top of it.                                             *)
(*                                                                         *)
(* load_module is recursive: "stack" holds the checkers of the modules     *)
(* that wait for one they import. What a name stands for is the module it  *)
(* was written in and its name there; types are left out.                  *)
(***************************************************************************)
EXTENDS Linker

CONSTANTS Programs,         \* sets of files: a function from paths to files
          Main,             \* the path of the file to compile
          NamesIn(_),       \* the names a body uses
          Lower(_, _, _)    \* a body with its scope, lowered on top of a lowerer

\* The main file was read before its first import is looked at.
ASSUME ProgramsReadable ==
  \A prog \in Programs :
    /\ Main \in DOMAIN prog /\ prog[Main].lexes
    /\ \A p \in DOMAIN prog : prog[p].body \in Seq(Range(prog[p].body))

VARIABLES
  program,       \* the files
  stack,         \* checkers under way, the main file's first
  cache,         \* ModuleLoader.cache: exports by path
  fir_cache,     \* ModuleLoader.fir_cache: code by path
  in_progress,   \* ModuleLoader.in_progress
  result,        \* "pending", "rejected", "unlowered" or "linked"
  fir_module     \* the code of the program, once it is linked

vars == <<program, stack, cache, fir_cache, in_progress, result, fir_module>>

All == {}        \* an import without a list of names
Use(path, names, pub) == [k |-> "use", path |-> path, names |-> names, pub |-> pub]
File(lexes, body) == [lexes |-> lexes, body |-> body]

-----------------------------------------------------------------------------
(* Names: a scope gives the meaning of a function <<f>>, a class or trait   *)
(* <<C>> and a method <<C, m>>.                                             *)

NoScope == [n \in {} |-> <<>>]

Builtins == [n \in {<<c>> : c \in BuiltinClasses} |-> <<"std">> \o n]

Methods(s) == {m.name : m \in Range(s.methods)}
Members(scope, name) == {n \in DOMAIN scope : n[1] = name}

\* What a class or a trait declares; a class has the default methods of its traits.
Declared(path, s, scope) ==
  LET inherited == IF s.k = "class" THEN {n[2] : n \in {d \in DOMAIN scope : d[1] \in s.includes /\ Len(d) = 2}} ELSE {}
  IN [n \in {<<s.name>>} \cup {<<s.name, m>> : m \in Methods(s) \cup inherited} |-> <<path>> \o n]

BodiesOf(s) == IF s.k = "def" THEN <<s.body>> ELSE [i \in 1..Len(s.methods) |-> s.methods[i].body]
BodyNames(s) == UNION {NamesIn(b) : b \in Range(BodiesOf(s))}
NamesOf(s) == BodyNames(s) \cup IF s.k = "class" THEN {<<t>> : t \in s.includes} ELSE {}

\* Functions are known before the first statement is checked.
Checker(path, body) ==
  LET own == {s \in Range(body) : s.k = "def"}
  IN [path |-> path, body |-> body, next |-> 1, failed |-> FALSE,
      scope |-> Over([n \in {<<s.name>> : s \in own} |-> <<path>> \o n], Builtins)]

-----------------------------------------------------------------------------
(* Imports and exports *)

\* Mutation of exported: private items are exported too.
ExportedAll(s, scope, loaded) ==
  CASE s.k = "use" -> NoScope
    [] OTHER -> [n \in Members(scope, s.name) |-> scope[n]]

\* What one statement adds to the exports; names of "pub use" are taken from the
\* checker's scope, a whole module from the cache.
exported(s, scope, loaded) ==
  IF ~s.pub THEN NoScope
  ELSE IF s.k # "use" THEN [n \in Members(scope, s.name) |-> scope[n]]
  ELSE IF s.names = All THEN loaded[s.path]
  ELSE [n \in UNION {Members(scope, name) : name \in s.names} |-> scope[n]]

\* Of two statements that export a name the later one counts.
extract_exports(body, scope, loaded) ==
  LET by(i) == exported(body[i], scope, loaded)
  IN [n \in UNION {DOMAIN by(i) : i \in 1..Len(body)} |->
        LET last == CHOOSE i \in 1..Len(body) :
                      n \in DOMAIN by(i) /\ \A j \in (i + 1)..Len(body) : n \notin DOMAIN by(j)
        IN by(last)[n]]

inject_export(exports, names) == [n \in UNION {Members(exports, name) : name \in names} |-> exports[n]]

\* The statement done, its names in scope; a name that is not exported is an error.
apply_imports(c, exports) ==
  LET use == c.body[c.next]
      taken == IF use.names = All THEN exports ELSE inject_export(exports, use.names)
  IN [c EXCEPT !.next = @ + 1,
               !.scope = Over(taken, @),
               !.failed = @ \/ \E name \in use.names : Members(exports, name) = {}]

Failed(c) == [c EXCEPT !.next = @ + 1, !.failed = TRUE]

\* The file is there and can be lexed and parsed.
Readable(prog, p) == p \in DOMAIN prog /\ prog[p].lexes

-----------------------------------------------------------------------------

Init ==
  /\ program \in Programs
  /\ stack = <<Checker(Main, program[Main].body)>>
  /\ cache = [p \in {} |-> NoScope]
  /\ fir_cache = [p \in {} |-> export_cache(Lowerer)]
  /\ in_progress = {}
  /\ result = "pending"
  /\ fir_module = export_cache(Lowerer)

top == stack[Len(stack)]
WithTop(c) == [stack EXCEPT ![Len(stack)] = c]

AtUse(path) ==
  /\ stack # <<>>
  /\ top.next <= Len(top.body)
  /\ top.body[top.next].k = "use"
  /\ path = top.body[top.next].path

\* The module was loaded before.
UseCached(path) ==
  /\ AtUse(path)
  /\ path \in DOMAIN cache
  /\ stack' = WithTop(apply_imports(top, cache[path]))
  /\ UNCHANGED <<program, cache, fir_cache, in_progress, result, fir_module>>

\* Mutation of Circular: only a module that imports itself is found.
CircularSelf(path) == path = top.path

\* The module is being loaded: it imports itself, or one that imports it.
Circular(path) == path \in in_progress

\* A circular import, a file that does not exist or one that cannot be read.
UseFails(path) ==
  /\ AtUse(path)
  /\ path \notin DOMAIN cache
  /\ Circular(path) \/ ~Readable(program, path)
  /\ stack' = WithTop(Failed(top))
  /\ UNCHANGED <<program, cache, fir_cache, in_progress, result, fir_module>>

\* A new module: a checker of its own, which shares the loader.
UseLoads(path) ==
  /\ AtUse(path)
  /\ path \notin DOMAIN cache
  /\ ~Circular(path)
  /\ Readable(program, path)
  /\ in_progress' = in_progress \cup {path}
  /\ stack' = Append(stack, Checker(path, program[path].body))
  /\ UNCHANGED <<program, cache, fir_cache, result, fir_module>>

\* Any other statement: its names must be known.
CheckStatement ==
  /\ stack # <<>>
  /\ top.next <= Len(top.body)
  /\ LET s == top.body[top.next]
         known == IF s.k = "def" THEN [n \in {<<s.name>>} |-> <<top.path>> \o n] ELSE Declared(top.path, s, top.scope)
         scope == Over(known, top.scope)
     IN /\ s.k # "use"
        /\ stack' = WithTop([top EXCEPT !.next = @ + 1, !.scope = scope, !.failed = @ \/ ~(NamesOf(s) \subseteq DOMAIN scope)])
  /\ UNCHANGED <<program, cache, fir_cache, in_progress, result, fir_module>>

Finished == stack # <<>> /\ top.next > Len(top.body)
Importer(c) == [SubSeq(stack, 1, Len(stack) - 1) EXCEPT ![Len(stack) - 1] = c]

\* An error in the module is one of the import, and nothing is cached.
LoadFails ==
  /\ Finished
  /\ Len(stack) > 1
  /\ top.failed
  /\ in_progress' = in_progress \ {top.path}
  /\ stack' = Importer(Failed(stack[Len(stack) - 1]))
  /\ UNCHANGED <<program, cache, fir_cache, result, fir_module>>

\* Mutation of lower_on: a module is lowered on top of nothing.
lower_alone(caches, path, scope) ==
  Lower(program[path].body, scope, IF path = Main THEN merge_all(caches) ELSE Lowerer)

\* A file lowered on top of the code of everything loaded before, in the order a
\* hash map gives it.
lower_on(caches, path, scope) ==
  Lower(program[path].body, scope, merge_all(caches))

Orders == SetToSeqs({fir_cache[p] : p \in DOMAIN fir_cache})

\* The exports are cached, and the code too if it can be lowered.
LoadEnds ==
  /\ Finished
  /\ Len(stack) > 1
  /\ ~top.failed
  /\ in_progress' = in_progress \ {top.path}
  /\ LET exports == extract_exports(top.body, top.scope, cache)
     IN /\ cache' = [p \in DOMAIN cache \cup {top.path} |-> IF p = top.path THEN exports ELSE cache[p]]
        /\ stack' = Importer(apply_imports(stack[Len(stack) - 1], exports))
  /\ \E order \in Orders :
       LET L == lower_on(order, top.path, top.scope)
       IN fir_cache' = IF L.failed THEN fir_cache ELSE Over(fir_cache, [p \in {top.path} |-> export_cache(L)])
  /\ UNCHANGED <<program, result, fir_module>>

\* The main file has errors.
Reject ==
  /\ Finished
  /\ Len(stack) = 1
  /\ top.failed
  /\ stack' = <<>>
  /\ result' = "rejected"
  /\ UNCHANGED <<program, cache, fir_cache, in_progress, fir_module>>

\* The main file is lowered on top of all the code of its imports.
Link ==
  /\ Finished
  /\ Len(stack) = 1
  /\ ~top.failed
  /\ stack' = <<>>
  /\ fir_cache' = [p \in {} |-> export_cache(Lowerer)]
  /\ \E order \in Orders :
       LET L == lower_on(order, Main, top.scope)
       IN /\ result' = IF L.failed THEN "unlowered" ELSE "linked"
          /\ fir_module' = IF L.failed THEN fir_module ELSE export_cache(L)
  /\ UNCHANGED <<program, cache, in_progress>>

\* What a file imports, and what the files of a program do.
Targets(prog, p) == {s.path : s \in {u \in Range(prog[p].body) : u.k = "use"}}
Paths(prog) == UNION {Targets(prog, p) : p \in DOMAIN prog}

Next ==
  \/ \E path \in Paths(program) : UseCached(path) \/ UseFails(path) \/ UseLoads(path)
  \/ CheckStatement \/ LoadFails \/ LoadEnds \/ Reject \/ Link

Spec == Init /\ [][Next]_vars

-----------------------------------------------------------------------------
(* Properties *)

Tables == {fir_module} \cup {fir_cache[p] : p \in DOMAIN fir_cache}
Rows(t) == {f \in Range(t.functions) : f.name # <<>>}

Denotes(t, r) ==
  IF r.k = "fn" THEN r.id < Len(t.functions) /\ t.functions[r.id + 1].means = r.means
  ELSE IF r.id >= Sentinel THEN \E c \in BuiltinClasses : r.id = BuiltinId(c) /\ r.means = Builtins[<<c>>]
  ELSE r.id < Len(t.classes) /\ t.classes[r.id + 1].means = r.means

\* In all code that is cached and in the program, a number stands for the function or
\* class its name stood for where it was written, however often the code was moved
\* and in whatever order caches were merged (fir/src/lower/mod.rs:520 merge_imported).
LinksMeant == \A t \in Tables : \A f \in Rows(t) : \A r \in Range(f.refs) : Denotes(t, r)

\* No module is loaded while it is being loaded; a module is marked as in progress
\* exactly while it is, whatever failed before (module_loader.rs:113-170).
NoReentry ==
  /\ \A i, j \in 2..Len(stack) : i # j => stack[i].path # stack[j].path
  /\ in_progress = {stack[i].path : i \in 2..Len(stack)}
=============================================================================
