--------------------------- MODULE AsterSemantics ---------------------------
(***************************************************************************)
(* What a function body means, for the statements and expressions that     *)
(* decide control flow: an interpreter over the syntax tree, given the     *)
(* outcomes of the calls and branches it will meet.  Lowering is compared  *)
(* with it.                                                                *)
(***************************************************************************)
EXTENDS Integers, SequencesExt

-----------------------------------------------------------------------------
(* Syntax.  A call, branch or loop carries an id by which its effect is    *)
(* known; values and names are left out.                                   *)

Val == [k |-> "val"]
Call(id, args) == [k |-> "call", id |-> id, args |-> args, throws |-> FALSE]
Throwing(id, args) == [k |-> "call", id |-> id, args |-> args, throws |-> TRUE]
And(id, left, right) == [k |-> "and", id |-> id, left |-> left, right |-> right]
Propagate(e) == [k |-> "propagate", inner |-> e]
ErrorOr(e, default) == [k |-> "or", inner |-> e, default |-> default]
ErrorOrElse(e, body) == [k |-> "or_else", inner |-> e, handler |-> body]
ErrorCatch(e, arms) == [k |-> "catch", inner |-> e, arms |-> arms]
Arm(pattern, body) == [pattern |-> pattern, body |-> body]
Throw(t) == [k |-> "throw", tag |-> t]
Match(id, scrutinee, arms) == [k |-> "match", id |-> id, scrutinee |-> scrutinee, arms |-> arms]

Let(includes, e) == [k |-> "let", includes |-> includes, value |-> e]
ExprStmt(e) == [k |-> "expr", value |-> e]
Return(e) == [k |-> "return", value |-> e]
Branch(id, cond, then) == [id |-> id, cond |-> cond, then |-> then]
If(id, cond, then, elifs, else) ==
  [k |-> "if", id |-> id, cond |-> cond, then |-> then, elifs |-> elifs, else |-> else]
While(id, cond, body) == [k |-> "while", id |-> id, cond |-> cond, body |-> body]
For(id, iter, body) == [k |-> "for", id |-> id, iter |-> iter, body |-> body]
ForIterator(id, iter, body) == [k |-> "iter", id |-> id, iter |-> iter, body |-> body]
Break == [k |-> "break"]
Continue == [k |-> "continue"]

\* The error classes: "AppError" with a subclass, and one of its own.
Tags == {"AppError", "NetError", "IOError"}
Extends(t, class) == t = class \/ (t = "NetError" /\ class = "AppError")

-----------------------------------------------------------------------------
(* Meaning.  A state: outcomes still to come, what was seen, the resources *)
(* open in order of creation, how many there were, what close and drop do  *)
(* about errors (see Lowering), and how control stands:                    *)
(* "go", "failed" after a call that threw, until what is around the call   *)
(* deals with it, "error" on its way out, or a jump.                       *)

Begin(outs, cleanup) ==
  [outs |-> outs, seen |-> <<>>, open |-> <<>>, made |-> 0, cleanup |-> cleanup, st |-> "go", err |-> "none"]

See(s, event) == [s EXCEPT !.seen = Append(@, event)]

\* The next outcome is used up by what happens under id.
Take(s, kind, id) ==
  IF s.outs = <<>> THEN [s EXCEPT !.st = "short"]
  ELSE See([s EXCEPT !.outs = Tail(@)], <<kind, id, Head(s.outs)>>)

Chosen(s, t) == t.st # "short" /\ Head(s.outs) = "yes"

\* A recovery inside a cleanup method takes its default when the call it guards
\* fails there, whatever has happened to the function that is being left.
Cleanup(s, method, inst) ==
  CASE s.cleanup = "guards" -> <<method, inst, "value">>
    [] s.cleanup = "recovers" -> <<method, inst, "default">>
    [] OTHER -> <<method, inst>>

\* Everything opened after the first `depth` is closed and dropped, last first.
CleanTo(s, depth) ==
  LET events(r) == (IF "Close" \in r.includes THEN <<Cleanup(s, "close", r.inst)>> ELSE <<>>)
                   \o (IF "Drop" \in r.includes THEN <<Cleanup(s, "drop", r.inst)>> ELSE <<>>)
      n == Len(s.open)
  IN [s EXCEPT !.seen = @ \o FlattenSeq([i \in 1..(n - depth) |-> events(s.open[n + 1 - i])]),
               !.open = SubSeq(@, 1, depth)]

\* What runs as part of what; defined after them.
RECURSIVE Run(_, _, _)

EvalAll(es, s) == IF es = <<>> THEN s ELSE Run("exprs", Tail(es), Run("expr", Head(es), s))

\* A handler runs when, and only when, the expression it guards has failed.
Recover(s, handled) == IF s.st = "failed" THEN handled ELSE s
Go(s) == [s EXCEPT !.st = "go"]

EvalCall(e, s) ==
  LET a == Run("exprs", e.args, s)
      c == Take(a, "call", e.id)
  IN IF a.st # "go" THEN a
     ELSE IF c.st = "go" /\ Head(a.outs) # "ok" THEN [c EXCEPT !.st = "failed", !.err = Head(a.outs)]
     ELSE c

EvalCatch(arms, s) ==
  LET matching == {i \in 1..Len(arms) : arms[i].pattern = "_" \/ Extends(s.err, arms[i].pattern)}
  IN IF matching = {} THEN [s EXCEPT !.st = "error"]
     ELSE Run("expr", arms[CHOOSE i \in matching : \A j \in matching : i <= j].body, Go(s))

EvalArms(e, s) ==
  LET t == Take(s, "branch", e.id)
  IN IF Len(e.arms) = 1 THEN Run("expr", e.arms[1], s)
     ELSE IF Chosen(s, t) THEN Run("expr", e.arms[1], t)
     ELSE IF t.st = "go" THEN Run("arms", [e EXCEPT !.arms = Tail(@)], t)
     ELSE t

EvalMatch(e, s) ==
  LET scrutinee == Run("expr", e.scrutinee, s)
  IN IF scrutinee.st = "go" THEN Run("arms", e, scrutinee) ELSE scrutinee

Eval(e, s) ==
  IF s.st # "go" THEN s
  ELSE CASE e.k = "val" -> s
         [] e.k = "call" -> EvalCall(e, s)
         [] e.k = "and" -> LET l == Run("expr", e.left, s)
                               t == Take(l, "branch", e.id)
                           IN IF l.st = "go" THEN IF Chosen(l, t) THEN Run("expr", e.right, t) ELSE t ELSE l
         [] e.k = "propagate" -> LET t == Run("expr", e.inner, s) IN Recover(t, [t EXCEPT !.st = "error"])
         [] e.k = "or" -> LET t == Run("expr", e.inner, s) IN Recover(t, Run("expr", e.default, Go(t)))
         [] e.k = "or_else" -> LET t == Run("expr", e.inner, s) IN Recover(t, Run("block", e.handler, Go(t)))
         [] e.k = "catch" -> LET t == Run("expr", e.inner, s) IN Recover(t, EvalCatch(e.arms, t))
         [] e.k = "throw" -> [See(s, <<"throw", e.tag>>) EXCEPT !.st = "error", !.err = e.tag]
         [] e.k = "match" -> EvalMatch(e, s)

\* A loop's iterations; what its body opened is cleaned before each next one.
Loop(l, s) ==
  LET c == IF l.k = "while" THEN Run("expr", l.cond, s) ELSE s
      t == Take(c, "branch", l.id)
      b == Run("block", l.body, t)
      clean == CleanTo(b, Len(s.open))
  IN IF c.st # "go" THEN c
     ELSE IF ~Chosen(c, t) THEN t
     ELSE IF b.st \in {"go", "continue"} THEN Run("loop", l, Go(clean))
     ELSE IF b.st = "break" THEN Go(clean)
     ELSE b

Exec(x, s) ==
  CASE x.k = "expr" -> Run("expr", x.value, s)
    [] x.k = "let" ->
         LET t == Run("expr", x.value, s)
             n == t.made + 1
         IN IF t.st # "go" \/ x.includes = {} THEN t
            ELSE See([t EXCEPT !.made = n, !.open = Append(@, [inst |-> n, includes |-> x.includes])], <<"let", n>>)
    [] x.k = "return" -> LET t == Run("expr", x.value, s) IN IF t.st = "go" THEN [t EXCEPT !.st = "return"] ELSE t
    [] x.k = "if" ->
         LET c == Run("expr", x.cond, s)
             t == Take(c, "branch", x.id)
         IN IF c.st # "go" THEN c
            ELSE IF Chosen(c, t) THEN Run("block", x.then, t)
            ELSE IF t.st # "go" THEN t
            ELSE IF x.elifs = <<>> THEN Run("block", x.else, t)
            ELSE Run("stmt", [x EXCEPT !.cond = Head(x.elifs).cond, !.id = Head(x.elifs).id,
                                !.then = Head(x.elifs).then, !.elifs = Tail(@)], t)
    [] x.k = "while" -> Run("loop", x, s)
    [] x.k \in {"for", "iter"} -> LET t == Run("expr", x.iter, s) IN IF t.st = "go" THEN Run("loop", x, t) ELSE t
    [] x.k \in {"break", "continue"} -> [s EXCEPT !.st = x.k]

ExecBlock(stmts, s) ==
  IF stmts = <<>> \/ s.st # "go" THEN s ELSE Run("block", Tail(stmts), Run("stmt", Head(stmts), s))

Run(part, x, s) ==
  CASE part = "expr" -> Eval(x, s)
    [] part = "exprs" -> EvalAll(x, s)
    [] part = "arms" -> EvalArms(x, s)
    [] part = "stmt" -> Exec(x, s)
    [] part = "block" -> ExecBlock(x, s)
    [] part = "loop" -> Loop(x, s)

\* A function: whatever way it is left, its resources are cleaned and its task
\* scope closed, before the caller gets the value or the error.  Main aborts.
RunFunction(p, outs) ==
  LET s == ExecBlock(p.top \o p.body, See(Begin(outs, p.cleanup), <<"aster_async_scope_enter">>))
      t == See(CleanTo(s, 0), <<"aster_async_scope_exit">>)
  IN IF s.st = "short" THEN Append(s.seen, <<"short">>)
     ELSE IF s.st # "error" THEN Append(t.seen, <<"return", "ok">>)
     ELSE IF p.kind = "main" THEN Append(t.seen, <<"aster_panic">>)
     ELSE Append(t.seen, <<"return", s.err>>)
=============================================================================
