------------------------------ MODULE Lowering ------------------------------
(***************************************************************************)
(* From the statements of a function body to the flat control flow the     *)
(* code generator emits: where `!`, .or, .or_else, .catch and throw leave  *)
(* the function, and where Close and Drop locals are cleaned up.           *)
(*                                                                         *)
(* An FIR expression is reduced to the calls its evaluation makes, in      *)
(* order; values, types and Safepoints are left out.  A statement becomes  *)
(* a sequence of operations, which the second half of the module executes  *)
(* the way translate.rs lays out its blocks.  AsterSemantics says what     *)
(* the source means.                                                       *)
(***************************************************************************)
EXTENDS AsterSemantics

CONSTANT Programs   \* the functions to compile: [kind, top, body, void, cleanup]

VARIABLES
  prog,     \* the function being run
  code,     \* the operations still to execute, innermost first
  locals,   \* LocalId -> the resource it holds, 0 before its Let has run
  flag, tag,  \* ERROR_FLAG and ERROR_TYPE_TAG
  made,     \* resources acquired so far
  outs,     \* outcomes of calls and branches so far
  trace,    \* what the program was seen to do
  disturbed,  \* history: a cleanup method changed an error on its way, or left one
  pc        \* "run", then "done"

vars == <<prog, code, locals, flag, tag, made, outs, trace, disturbed, pc>>

-----------------------------------------------------------------------------
(* The lowerer: FIR operations, and the state it threads through           *)

CallOp(id, throws) == [op |-> "call", id |-> id, throws |-> throws]
LetOp(local, cleanup) == [op |-> "let", local |-> local, cleanup |-> cleanup]
IfOp(test, then, else) == [op |-> "if", test |-> test, then |-> then, else |-> else]
WhileOp(cond, test, body) == [op |-> "while", cond |-> cond, test |-> test, body |-> body]
CleanOp(method, local) == [op |-> "clean", method |-> method, local |-> local]
RuntimeOp(name) == [op |-> name]
SetTypedOp(t) == [op |-> "aster_error_set_typed", tag |-> t]

\* What an If or While looks at: a value of the program, the error flag
\* (aster_error_check clears it), or the type tag of the error.
ValueTest(id) == [on |-> "value", id |-> id]
ErrorTest == [on |-> "error"]
TagTest(tags) == [on |-> "tag", tags |-> tags]

\* ScopeState and pending_stmts: next_local, cleanup_locals with what each
\* includes, cleanup_scope_stack, and the statements hoisted so far.
ScopeState(kind) == [next |-> 1, cleanup |-> <<>>, loops |-> <<>>, pending |-> <<>>, kind |-> kind]

Hoist(L, ops) == [L EXCEPT !.pending = @ \o ops]
Lowered(ops, L) == [ops |-> ops, L |-> L]

\* The cleanup calls of the locals declared since a point: last declared
\* first, close before drop.
emit_cleanup_calls_since(L, since) ==
  FlattenSeq([i \in 1..(Len(L.cleanup) - since) |->
    LET c == L.cleanup[Len(L.cleanup) + 1 - i] IN
      (IF "Close" \in c.includes THEN <<CleanOp("close", c.local)>> ELSE <<>>)
      \o (IF "Drop" \in c.includes THEN <<CleanOp("drop", c.local)>> ELSE <<>>)])

emit_scope_exit == <<RuntimeOp("aster_async_scope_exit")>>

\* Leaving the function on an error: everything is cleaned, then main aborts
\* and any other function returns to a caller that looks at the flag.
error_exit_stmts(L, rearm) ==
  emit_cleanup_calls_since(L, 0) \o emit_scope_exit
  \o (IF L.kind = "main" THEN <<RuntimeOp("aster_panic")>>
      ELSE (IF rearm THEN <<RuntimeOp("aster_error_set")>> ELSE <<>>) \o <<RuntimeOp("return")>>)

\* The type tags an arm matches: its class and the classes below it.
collect_subclass_tags(class) == {t \in Tags : Extends(t, class)}

\* The functions that call each other, by name; defined after them.
RECURSIVE Lower(_, _, _)

\* Arguments in order: what they hoist stays in order, what they leave follows.
lower_exprs(es, L) ==
  IF es = <<>> THEN Lowered(<<>>, L)
  ELSE LET first == Lower("expr", Head(es), L)
           rest == Lower("exprs", Tail(es), first.L)
       IN Lowered(first.ops \o rest.ops, rest.L)

lower_call_expr(e, L) ==
  LET args == Lower("exprs", e.args, L)
  IN Lowered(args.ops \o <<CallOp(e.id, e.throws)>>, args.L)

\* && and ||: the right side is evaluated on one branch only, but what it
\* hoists comes before both.
lower_binop_expr(e, L) ==
  LET left == Lower("expr", e.left, L)
      right == Lower("expr", e.right, left.L)
  IN Lowered(left.ops \o <<IfOp(ValueTest(e.id), right.ops, <<>>)>>, right.L)

\* e!: the call, then the check that leaves the function.
lower_propagate_expr(e, L) ==
  LET inner == Lower("expr", e.inner, L)
      L2 == [inner.L EXCEPT !.next = @ + 1]
  IN Lowered(<<>>, Hoist(L2, inner.ops \o <<IfOp(ErrorTest, error_exit_stmts(L2, TRUE), <<>>)>>))

\* e!.or(default): both are lowered before the check is emitted.
lower_error_or_expr(e, L) ==
  LET inner == Lower("expr", e.inner, L)
      default == Lower("expr", e.default, inner.L)
      L2 == [default.L EXCEPT !.next = @ + 1]
  IN Lowered(<<>>, Hoist(L2, inner.ops \o <<IfOp(ErrorTest, default.ops, <<>>)>>))

\* e!.or_else(-> body): the same, with the lambda's body in place.
lower_error_or_else_expr(e, L) ==
  LET inner == Lower("expr", e.inner, L)
      handler == Lower("inline_body", e.handler, inner.L)
      L2 == [handler.L EXCEPT !.next = @ + 1]
  IN Lowered(<<>>, Hoist(L2, inner.ops \o <<IfOp(ErrorTest, handler.ops, <<>>)>>))

\* An arm keeps what it hoists for itself.
lower_arm_body(e, L) ==
  LET body == Lower("expr", e, [L EXCEPT !.pending = <<>>])
  IN Lowered(body.L.pending \o body.ops, [body.L EXCEPT !.pending = L.pending])

\* The typed arms as an if chain on the tag, over the wildcard or a re-raise.
lower_catch_arms(arms, L) ==
  LET typed == SelectSeq(arms, LAMBDA a : a.pattern # "_")
      wild == SelectSeq(arms, LAMBDA a : a.pattern = "_")
  IN IF typed # <<>>
       THEN LET rest == Lower("catch_arms", Tail(typed) \o wild, L)
                arm == lower_arm_body(Head(typed).body, [rest.L EXCEPT !.next = @ + 1])
            IN Lowered(<<IfOp(TagTest(collect_subclass_tags(Head(typed).pattern)), arm.ops, rest.ops)>>, arm.L)
     ELSE IF wild # <<>> THEN lower_arm_body(wild[1].body, L)
     ELSE Lowered(<<RuntimeOp("aster_error_set")>>, L)

lower_error_catch_expr(e, L) ==
  LET inner == Lower("expr", e.inner, L)
      arms == Lower("catch_arms", e.arms, [inner.L EXCEPT !.next = @ + 3])
  IN Lowered(<<>>, Hoist(arms.L, inner.ops \o <<IfOp(ErrorTest, arms.ops, <<>>)>>))

lower_throw_expr(e, L) ==
  Lowered(<<>>, Hoist(L, <<SetTypedOp(e.tag)>> \o error_exit_stmts(L, FALSE)))

\* match: nested ifs over the arms, whose bodies hoist in front of all of them.
build_match_chain(id, arms, L) ==
  IF arms = <<>> THEN Lowered(<<RuntimeOp("aster_panic")>>, L)
  ELSE LET body == Lower("expr", Head(arms), [L EXCEPT !.next = @ + 1])
       IN IF Len(arms) = 1 THEN body
          ELSE LET rest == Lower("match_chain", [id |-> id, arms |-> Tail(arms)], body.L)
               IN Lowered(<<IfOp(ValueTest(id), body.ops, rest.ops)>>, rest.L)

lower_match(e, L) ==
  LET scrutinee == Lower("expr", e.scrutinee, L)
      chain == build_match_chain(e.id, e.arms,
                 Hoist([scrutinee.L EXCEPT !.next = @ + 2], scrutinee.ops))
  IN Lowered(<<>>, Hoist(chain.L, chain.ops))

lower_expr(e, L) ==
  CASE e.k = "val" -> Lowered(<<>>, L)
    [] e.k = "call" -> lower_call_expr(e, L)
    [] e.k = "and" -> lower_binop_expr(e, L)
    [] e.k = "propagate" -> lower_propagate_expr(e, L)
    [] e.k = "or" -> lower_error_or_expr(e, L)
    [] e.k = "or_else" -> lower_error_or_else_expr(e, L)
    [] e.k = "catch" -> lower_error_catch_expr(e, L)
    [] e.k = "throw" -> lower_throw_expr(e, L)
    [] e.k = "match" -> lower_match(e, L)

\* A lambda without parameters, inlined: its last expression is its value.
lower_inline_body(body, L) ==
  IF Len(body) = 1 /\ body[1].k \in {"expr", "return"} THEN Lower("expr", body[1].value, L)
  ELSE IF body = <<>> THEN Lowered(<<>>, L)
  ELSE LET first == Lower("stmt_inner", Head(body), L)
       IN Lower("inline_body", Tail(body), Hoist(first.L, first.ops))

\* let x = e: a local whose class includes Close or Drop is remembered.
lower_let(s, L) ==
  LET value == Lower("expr", s.value, L)
      local == value.L.next
      L2 == [value.L EXCEPT !.next = @ + 1]
  IN Lowered(value.ops \o <<LetOp(local, s.includes)>>,
             IF s.includes = {} THEN L2
             ELSE [L2 EXCEPT !.cleanup = Append(@, [local |-> local, includes |-> s.includes])])

\* return e: cleanup and scope exit are hoisted, and e is evaluated after them.
lower_return(s, L) ==
  LET value == Lower("expr", s.value, L)
  IN Lowered(value.ops \o <<RuntimeOp("return")>>,
             Hoist(value.L, emit_cleanup_calls_since(value.L, 0) \o emit_scope_exit))

\* break and continue clean what the loop body has declared so far.
lower_jump(s, L) ==
  Lowered(<<RuntimeOp(s.k)>>, Hoist(L, emit_cleanup_calls_since(L, Last(L.loops))))

\* Mutation of lower_loop_body: its locals stay on the function's list.
LoopNotTruncated(body, L) ==
  LET start == Len(L.cleanup)
      b == Lower("body", body, [L EXCEPT !.loops = Append(@, start)])
  IN Lowered(b.ops \o b.L.pending \o emit_cleanup_calls_since(b.L, start),
             [b.L EXCEPT !.loops = Front(@), !.pending = <<>>])

\* A loop body cleans its own locals at its end and takes them off the list.
lower_loop_body(body, L) ==
  LET start == Len(L.cleanup)
      b == Lower("body", body, [L EXCEPT !.loops = Append(@, start)])
  IN Lowered(b.ops \o b.L.pending \o emit_cleanup_calls_since(b.L, start),
             [b.L EXCEPT !.loops = Front(@), !.pending = <<>>, !.cleanup = SubSeq(@, 1, start)])

lower_while(s, L) ==
  LET cond == Lower("expr", s.cond, L)
      body == lower_loop_body(s.body, cond.L)
  IN Lowered(<<WhileOp(cond.ops, ValueTest(s.id), body.ops)>>, body.L)

\* for over a list or set: the iterable is evaluated once, then counted through.
lower_for_loop(s, L) ==
  LET iter == Lower("expr", s.iter, L)
      body == lower_loop_body(s.body, [iter.L EXCEPT !.next = @ + 4])
  IN Lowered(iter.ops \o <<WhileOp(<<>>, ValueTest(s.id), body.ops)>>, body.L)

\* for over an Iterator: an endless loop that leaves when next() is nil.
lower_iterator_for_loop(s, L) ==
  LET iter == Lower("expr", s.iter, L)
      body == lower_loop_body(s.body, [iter.L EXCEPT !.next = @ + 3])
      next == <<IfOp(ValueTest(s.id), <<>>, <<RuntimeOp("break")>>)>>
  IN Lowered(iter.ops \o <<WhileOp(<<>>, [on |-> "true"], next \o body.ops)>>, body.L)

\* Mutation of lower_if: the condition's statements are left to the first
\* statement of the branch.
IfPendingLeaks(s, L) ==
  LET cond == Lower("expr", s.cond, L)
      then == Lower("body", s.then, cond.L)
      else == Lower("body", s.else, then.L)
  IN Lowered(cond.ops \o <<IfOp(ValueTest(s.id), then.ops, else.ops)>>, else.L)

\* The condition's statements come before the if; an elif is an if in else.
\* What the condition of an elif hoists comes before the whole chain.
lower_if(s, L) ==
  LET cond == Lower("expr", s.cond, L)
      then == Lower("body", s.then, [cond.L EXCEPT !.pending = <<>>])
      else == IF s.elifs = <<>> THEN Lower("body", s.else, then.L)
              ELSE Lower("if", [s EXCEPT !.cond = Head(s.elifs).cond, !.id = Head(s.elifs).id,
                                      !.then = Head(s.elifs).then, !.elifs = Tail(@)], then.L)
  IN Lowered(cond.ops \o <<IfOp(ValueTest(s.id), then.ops, else.ops)>>,
             [else.L EXCEPT !.pending = cond.L.pending \o @])

lower_stmt_inner(s, L) ==
  CASE s.k = "let" -> lower_let(s, L)
    [] s.k = "expr" -> Lower("expr", s.value, L)
    [] s.k = "return" -> lower_return(s, L)
    [] s.k = "if" -> Lower("if", s, L)
    [] s.k = "while" -> lower_while(s, L)
    [] s.k = "for" -> lower_for_loop(s, L)
    [] s.k = "iter" -> lower_iterator_for_loop(s, L)
    [] s.k \in {"break", "continue"} -> lower_jump(s, L)

\* Each statement after what its expressions hoisted.
lower_body(stmts, L) ==
  IF stmts = <<>> THEN Lowered(<<>>, L)
  ELSE LET first == Lower("stmt_inner", Head(stmts), L)
           rest == Lower("body", Tail(stmts), [first.L EXCEPT !.pending = <<>>])
       IN Lowered(first.L.pending \o first.ops \o rest.ops, rest.L)

Lower(part, x, L) ==
  CASE part = "expr" -> lower_expr(x, L)
    [] part = "exprs" -> lower_exprs(x, L)
    [] part = "catch_arms" -> lower_catch_arms(x, L)
    [] part = "match_chain" -> build_match_chain(x.id, x.arms, L)
    [] part = "inline_body" -> lower_inline_body(x, L)
    [] part = "stmt_inner" -> lower_stmt_inner(x, L)
    [] part = "body" -> lower_body(x, L)
    [] part = "if" -> lower_if(x, L)

\* The end of a body: a trailing expression that is the value comes after the
\* cleanup.  Lambdas have no cleanup here.
finalize_function_body(p, b, last) ==
  LET cleanup == (IF p.kind = "lambda" THEN <<>> ELSE emit_cleanup_calls_since(b.L, 0)) \o emit_scope_exit
  IN b.ops \o cleanup \o last \o <<RuntimeOp("return")>>

\* Top-level statements run in every function, before its own.
lower_function(p) ==
  LET top == lower_body(p.top, ScopeState(p.kind))
      hasValue == ~p.void /\ p.body # <<>> /\ Last(p.body).k = "expr"
      stmts == IF hasValue THEN Front(p.body) ELSE p.body
      b == lower_body(stmts, top.L)
      last == IF hasValue THEN lower_expr(Last(p.body).value, b.L) ELSE Lowered(<<>>, b.L)
  IN <<RuntimeOp("aster_async_scope_enter")>> \o top.ops
     \o finalize_function_body(p, Lowered(b.ops \o last.L.pending, last.L), last.ops)

-----------------------------------------------------------------------------
(* Execution, as translate.rs lays out the blocks.                         *)

CONSTANT MaxOutcomes   \* free choices in a run; later calls succeed, branches end

Init ==
  /\ prog \in Programs
  /\ code = lower_function(prog)
  /\ locals = [l \in {} |-> 0]
  /\ flag = FALSE
  /\ tag = "none"
  /\ made = 0
  /\ outs = <<>>
  /\ trace = <<>>
  /\ disturbed = FALSE
  /\ pc = "run"

At(op) == pc = "run" /\ Head(code).op = op
Note(event) == trace' = Append(trace, event)
Goto(ops) == code' = ops \o Tail(code)

\* Where break and continue go: past, or to, the loop's own operation.
AfterLoop(c) ==
  LET i == CHOOSE j \in 1..Len(c) : c[j].op = "latch" /\ \A h \in 1..(j - 1) : c[h].op # "latch"
  IN [exit |-> SubSeq(c, i + 1, Len(c)), latch |-> SubSeq(c, i, Len(c))]

\* A call of the program: it returns, or throws and returns.
ExecCall ==
  /\ At("call")
  /\ \E o \in IF Head(code).throws /\ Len(outs) < MaxOutcomes THEN {"ok"} \cup Tags ELSE {"ok"} :
       /\ outs' = Append(outs, o)
       /\ Note(<<"call", Head(code).id, o>>)
       /\ flag' = (flag \/ o # "ok")
       /\ tag' = IF o = "ok" THEN tag ELSE o
  /\ Goto(<<>>)
  /\ UNCHANGED <<prog, locals, made, disturbed, pc>>

ExecLet ==
  /\ At("let")
  /\ LET resource == Head(code).cleanup # {} IN
       /\ made' = IF resource THEN made + 1 ELSE made
       /\ locals' = (Head(code).local :> (IF resource THEN made + 1 ELSE 0)) @@ locals
       /\ trace' = IF resource THEN Append(trace, <<"let", made + 1>>) ELSE trace
  /\ Goto(<<>>)
  /\ UNCHANGED <<prog, flag, tag, outs, disturbed, pc>>

\* A close or drop call on whatever the local holds: a function of the program,
\* which shares the flag and the tag.  prog.cleanup says what its body does about
\* errors: nothing; recover from a call that succeeds, or from one that fails; or
\* close itself throws.  Nobody checks the flag after it.
Cleaned ==
  LET local == Head(code).local
  IN <<Head(code).method, IF local \in DOMAIN locals THEN locals[local] ELSE 0>>

\* An error has left a statement and is on its way to the caller: its flag is set,
\* or, after `!`, is going to be set again.
ErrorOnItsWay == flag \/ \E i \in 1..Len(code) : code[i].op = "aster_error_set"

ExecCleanup ==
  /\ At("clean")
  /\ \/ /\ prog.cleanup = "plain"
        /\ Note(Cleaned)
        /\ UNCHANGED <<flag, tag, disturbed>>
     \/ /\ prog.cleanup = "guards"
        /\ Note(Append(Cleaned, IF flag THEN "default" ELSE "value"))
        /\ flag' = FALSE
        /\ disturbed' = (disturbed \/ flag)
        /\ UNCHANGED tag
     \/ /\ prog.cleanup = "recovers"
        /\ Note(Append(Cleaned, "default"))
        /\ flag' = FALSE
        /\ tag' = "CleanupError"
        /\ disturbed' = (disturbed \/ ErrorOnItsWay)
     \/ /\ prog.cleanup = "fails"
        /\ Note(Cleaned)
        /\ flag' = (flag \/ Head(code).method = "close")
        /\ tag' = IF Head(code).method = "close" THEN "CleanupError" ELSE tag
        /\ disturbed' = (disturbed \/ Head(code).method = "close")
  /\ Goto(<<>>)
  /\ UNCHANGED <<prog, locals, made, outs, pc>>

Outcomes == IF Len(outs) < MaxOutcomes THEN {"yes", "no"} ELSE {"no"}

\* If on a value of the program.
ExecIf ==
  /\ At("if")
  /\ Head(code).test.on = "value"
  /\ \E o \in Outcomes :
       /\ outs' = Append(outs, o)
       /\ Note(<<"branch", Head(code).test.id, o>>)
       /\ Goto(IF o = "yes" THEN Head(code).then ELSE Head(code).else)
  /\ UNCHANGED <<prog, locals, flag, tag, made, disturbed, pc>>

\* Mutation of aster_error_check: the flag is left set.
CheckNotCleared ==
  /\ At("if")
  /\ Head(code).test.on = "error"
  /\ Goto(IF flag THEN Head(code).then ELSE Head(code).else)
  /\ UNCHANGED <<prog, locals, flag, tag, made, outs, trace, disturbed, pc>>

\* If on the error flag, which the check clears.
aster_error_check ==
  /\ At("if")
  /\ Head(code).test.on = "error"
  /\ Goto(IF flag THEN Head(code).then ELSE Head(code).else)
  /\ flag' = FALSE
  /\ UNCHANGED <<prog, locals, tag, made, outs, trace, disturbed, pc>>

\* If of a catch arm, on the tag.
ExecTagTest ==
  /\ At("if")
  /\ Head(code).test.on = "tag"
  /\ Goto(IF tag \in Head(code).test.tags THEN Head(code).then ELSE Head(code).else)
  /\ UNCHANGED <<prog, locals, flag, tag, made, outs, trace, disturbed, pc>>

\* Header, body and latch of a loop.
ExecWhile ==
  /\ At("while")
  /\ Goto(Head(code).cond \o <<[op |-> "header", loop |-> Head(code)]>>)
  /\ UNCHANGED <<prog, locals, flag, tag, made, outs, trace, disturbed, pc>>

ExecHeader ==
  /\ At("header")
  /\ LET w == Head(code).loop
         enter == w.body \o <<[op |-> "latch", loop |-> w]>>
     IN IF w.test.on = "true"
          THEN Goto(enter) /\ UNCHANGED <<outs, trace>>
          ELSE \E o \in Outcomes :
                 /\ outs' = Append(outs, o)
                 /\ Note(<<"branch", w.test.id, o>>)
                 /\ Goto(IF o = "yes" THEN enter ELSE <<>>)
  /\ UNCHANGED <<prog, locals, flag, tag, made, disturbed, pc>>

ExecLatch ==
  /\ At("latch")
  /\ Goto(<<Head(code).loop>>)
  /\ UNCHANGED <<prog, locals, flag, tag, made, outs, trace, disturbed, pc>>

ExecJump ==
  /\ pc = "run"
  /\ Head(code).op \in {"break", "continue"}
  /\ code' = IF Head(code).op = "break" THEN AfterLoop(code).exit ELSE AfterLoop(code).latch
  /\ UNCHANGED <<prog, locals, flag, tag, made, outs, trace, disturbed, pc>>

ExecErrorSet ==
  /\ pc = "run"
  /\ Head(code).op \in {"aster_error_set", "aster_error_set_typed"}
  /\ flag' = TRUE
  /\ IF Head(code).op = "aster_error_set" THEN UNCHANGED <<tag, trace>>
     ELSE tag' = Head(code).tag /\ Note(<<"throw", Head(code).tag>>)
  /\ Goto(<<>>)
  /\ UNCHANGED <<prog, locals, made, outs, disturbed, pc>>

ExecScope ==
  /\ pc = "run"
  /\ Head(code).op \in {"aster_async_scope_enter", "aster_async_scope_exit"}
  /\ Note(<<Head(code).op>>)
  /\ Goto(<<>>)
  /\ UNCHANGED <<prog, locals, flag, tag, made, outs, disturbed, pc>>

\* The caller gets control back, and sees the flag; or the program aborts.
ExecEnd ==
  /\ pc = "run"
  /\ Head(code).op \in {"return", "aster_panic"}
  /\ Note(IF Head(code).op = "return" THEN <<"return", IF flag THEN tag ELSE "ok">> ELSE <<"aster_panic">>)
  /\ code' = <<>>
  /\ pc' = "done"
  /\ UNCHANGED <<prog, locals, flag, tag, made, outs, disturbed>>

Next ==
  \/ ExecCall \/ ExecLet \/ ExecCleanup
  \/ ExecIf \/ aster_error_check \/ ExecTagTest
  \/ ExecWhile \/ ExecHeader \/ ExecLatch \/ ExecJump
  \/ ExecErrorSet \/ ExecScope \/ ExecEnd

Spec == Init /\ [][Next]_vars

-----------------------------------------------------------------------------
(* Properties *)

\* Whatever the calls and branches do, the compiled function makes the calls,
\* takes the branches and cleans the resources the source says, in its order,
\* and its caller learns of the error the source says, or of none; unless a
\* cleanup method disturbed an error on its way, or threw itself.
FollowsSource == pc = "done" /\ ~disturbed => trace = RunFunction(prog, outs)

CleanedBy(i, j) == \E h \in 1..j : trace[h][1] \in {"close", "drop"} /\ trace[h][2] = i

\* Nothing is cleaned before it was made, or twice, or while something that was
\* made later has not been cleaned yet.
CleanedOnce ==
  \A j \in 1..Len(trace) : trace[j][1] \in {"close", "drop"} =>
    /\ \E h \in 1..(j - 1) : trace[h] = <<"let", trace[j][2]>>
    /\ \A h \in 1..(j - 1) :
         /\ trace[h][1] = trace[j][1] => trace[h][2] # trace[j][2]
         /\ trace[h][1] = "let" /\ trace[h][2] > trace[j][2] => CleanedBy(trace[h][2], j)

\* The last thing the function itself did was to throw.
Thrown ==
  LET own == SelectSeq(trace, LAMBDA event : event[1] \notin {"close", "drop"})
  IN Last(own)[1] = "throw"

\* The program's own calls and branches run with no error pending: a check sees
\* the error of the call before it, or none.  A cleanup method that looks at the
\* flag may find the error of a throw there, until it has disturbed it, but never
\* an older one.
NoStaleError ==
  flag /\ pc = "run" /\ ~disturbed =>
    /\ Head(code).op \notin {"call", "let", "while", "header", "latch"}
    /\ Head(code).op = "if" => Head(code).test.on # "value"
    /\ Head(code).op = "clean" /\ prog.cleanup # "plain" => Thrown

\* errors.mdx, primitives.mdx: an error that leaves the function, by throw or by
\* `!`, is the one its caller gets, after the cleanup has run.
ErrorReachesCaller ==
  pc = "done" =>
    LET meant == Last(RunFunction(prog, outs))
    IN meant[1] = "return" /\ meant[2] # "ok" => Last(trace) = meant

\* errors.mdx: a function that can fail declares throws.  One whose statements
\* end well does not leave an error to a caller that has no reason to check.
NoUndeclaredError ==
  pc = "done" /\ Last(RunFunction(prog, outs)) = <<"return", "ok">> => Last(trace) = <<"return", "ok">>

\* errors.mdx: the function given to or_else runs to recover, that is after the
\* expression it guards has failed.
RecoveryIsLazy ==
  \A j \in 1..Len(trace) : trace[j][1] = "call" /\ trace[j][2] = "recover" =>
    \E h \in 1..(j - 1) : trace[h][1] = "call" /\ trace[h][2] = "guarded" /\ trace[h][3] # "ok"
=============================================================================
