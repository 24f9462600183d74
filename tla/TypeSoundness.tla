---------------------------- MODULE TypeSoundness ----------------------------
(***************************************************************************)
(* What the checker promises, against what programs do: a module is        *)
(* checked as a whole and run, then the program goes on one statement at a *)
(* time, as the last pass over a module takes them, and every statement    *)
(* the checker accepts is executed.                                        *)
(***************************************************************************)
EXTENDS ModuleChecker, Evaluation

CONSTANTS Modules,     \* bodies of statements to start from, the orders of one program
          Pool,        \* by step, the statements to go on with
          Seen         \* how deep a value is looked into

VARIABLES
  T,         \* the checker
  M,         \* the machine
  steps,     \* statements so far, after the module
  outcome    \* of the last statement

vars == <<T, M, steps, outcome>>

\* The builtin classes, as far as they can be constructed.
Booted == [Machine EXCEPT !.classes = [c \in DOMAIN builtin_classes |->
             ClassStmt(c, builtin_classes[c].fields, <<>>, builtin_classes[c].extends, <<>>)]]

Started(env, r) ==
  /\ T = env
  /\ M = r.m
  /\ outcome = r.out
  /\ steps = 0

Init == \E body \in Modules : Started(check_module_all(body, register_builtins), Run("body", body, Booted))

Executed(r) ==
  /\ M' = r.m
  /\ outcome' = IF r.out = "throw" /\ r.v = Consumed("in a block") THEN "again" ELSE r.out

\* Any of the tasks may be over by then.
Accepted(s, r) ==
  /\ ~r.env.failed
  /\ T' = r.env
  /\ \E done \in SUBSET Unready(M) : Executed(Run("stmt", s, Finished(done, M)))

\* The next statement of the program, if the checker takes it.
Statement ==
  /\ outcome = "go"
  /\ steps < Len(Pool)
  /\ steps' = steps + 1
  /\ \E s \in Pool[steps + 1] : Accepted(s, Check("stmt", s, T))

Next == Statement

Spec == Init /\ [][Next]_vars

-----------------------------------------------------------------------------

\* A program the checker accepts does nothing that has no meaning: no operation
\* meets a value it is not for, no call lacks an argument, no match lacks an arm,
\* and no error leaves the program that no function declared, that of a task
\* resolved twice included, unless its first time was in a branch or a loop.
Sound == outcome \in {"go", "stop", "again"}

\* structured.mdx: task handles are single-consumer, resolving one twice does not
\* compile.
ResolvedOnce == outcome # "again"

\* The order of a module's functions does not matter: what they are is found
\* from the signatures and from one another.
OrderIndependent ==
  steps = 0 => \A body \in Modules : check_module_all(body, register_builtins).variables = T.variables

\* A variable holds what its type says, whatever was assigned, pushed or stored
\* through another name since it was declared; one whose declaration raised was
\* not declared.
ValuesHaveTypes ==
  \A n \in DOMAIN M.globals :
    (n \in DOMAIN T.variables /\ outcome # "again") => HasType(M.globals[n], check_ident(n, T).type, Seen, M)
=============================================================================
