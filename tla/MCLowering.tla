----------------------------- MODULE MCLowering -----------------------------
(* The functions Lowering is run on.                                       *)
EXTENDS Lowering

CONSTANT Depth   \* nesting of ifs and loops in the middle statement

Function(kind, void, body) == [kind |-> kind, top |-> <<>>, void |-> void, body |-> body, cleanup |-> "plain"]

Fetch == Throwing("fetch", <<>>)
Work == Call("work", <<>>)

Expressions ==
  { Propagate(Fetch), Propagate(Throwing("load", <<Propagate(Fetch), Work>>)), ErrorOr(Fetch, Work),
    ErrorOrElse(Fetch, <<ExprStmt(Work)>>), And("and", Work, Call("right", <<>>)),
    ErrorCatch(Fetch, <<Arm("NetError", Work), Arm("AppError", Throw("IOError")), Arm("_", Val)>>),
    ErrorCatch(Fetch, <<Arm("_", Propagate(Throwing("again", <<>>)))>>),
    Match("match", Propagate(Fetch), <<Work, Call("other", <<>>), Val>>) }

Open == { Let({"Drop"}, Work), Let({"Close", "Drop"}, Propagate(Fetch)) }
Leave == { Return(Propagate(Fetch)), Return(Val), ExprStmt(Throw("IOError")) }
Simple == {ExprStmt(e) : e \in Expressions} \cup Open \cup Leave

\* Inside a loop: also the jumps, alone or under a condition.
InLoop ==
  { <<ExprStmt(Propagate(Fetch))>>, <<Break>>, <<Continue>>,
    <<If("if", Propagate(Fetch), <<Break>>, <<>>, <<Continue>>), ExprStmt(Work)>>,
    <<If("if", Work, <<Return(Val)>>, <<Branch("elif", Work, <<Continue>>)>>, <<>>), Let({"Drop"}, Work)>>,
    <<ExprStmt(Throw("AppError"))>> }

LoopBodies == InLoop \cup {<<l>> \o b : l \in Open, b \in InLoop}

RECURSIVE Compound(_)
Compound(d) ==
  IF d = 0 THEN {}
  ELSE LET inner == {<<x>> : x \in Compound(d - 1)}
           bodies == IF d = 1 THEN LoopBodies ELSE {<<l>> \o b : l \in Open, b \in inner}
       IN {While("while", Work, b) : b \in bodies}
          \cup {For("for", Work, b) : b \in bodies}
          \cup {ForIterator("iter", Val, b) : b \in bodies}
          \cup {If("if", Propagate(Fetch), <<x>>, <<Branch("elif", Work, <<y>>)>>, <<ExprStmt(Work)>>) :
                  x \in Leave \cup {ExprStmt(Work)}, y \in Leave \cup {ExprStmt(Propagate(Fetch))}}
          \cup Compound(d - 1)

\* A resource or not, a statement, and an end that returns, falls through or fails.
PlainPrograms(depth) ==
  { Function(kind, TRUE, first \o <<x>> \o last) :
      kind \in {"function", "main"},
      first \in {<<>>} \cup {<<l>> : l \in Open},
      x \in Simple \cup Compound(depth),
      last \in {<<>>, <<ExprStmt(Propagate(Fetch))>>, <<Let({"Drop"}, Work), Return(Propagate(Fetch))>>} }
  \cup { Function("lambda", FALSE, <<ExprStmt(e), ExprStmt(f)>>) : e \in Expressions, f \in {x \in Expressions : x.k # "and"} }
  \cup { [Function("function", FALSE, <<x, ExprStmt(Val)>>) EXCEPT !.top = <<ExprStmt(Propagate(Fetch))>>] : x \in Simple }

\* What cleanup methods do about errors matters most where little else happens.
PassPrograms ==
  PlainPrograms(Depth)
  \cup {[p EXCEPT !.cleanup = m] : p \in PlainPrograms(Depth - 1), m \in {"guards", "recovers", "fails"}}

\* errors.mdx: let conn = connect(primary)!.or_else(-> connect(backup)!)
OrElsePrograms ==
  { Function(kind, TRUE, <<x, ExprStmt(Work)>>) : kind \in {"function", "main"},
      x \in { Let({"Drop"}, ErrorOrElse(Throwing("guarded", <<>>), <<ExprStmt(Propagate(Throwing("recover", <<>>)))>>)),
              ExprStmt(ErrorOrElse(Throwing("guarded", <<>>), <<ExprStmt(Work), ExprStmt(Call("recover", <<>>))>>)) } }
=============================================================================
