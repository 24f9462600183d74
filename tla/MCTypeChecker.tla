---------------------------- MODULE MCTypeChecker ----------------------------
(* The programs TypeSoundness is run on.                                   *)
EXTENDS TypeSoundness

a == Ident("a")
b == Ident("b")
one == <<"_0">>
Args1(e) == << <<"_0", e>> >>
CallOf(object, method, args) == Call(Member(object, method), args)
Fn(params, ret, body) == Lambda(params, ret, NoType, body)
Def(name, l) == Let(name, NoType, l)
IntFn == func(<<"_0">>, <<TInt>>, TInt)
Add(x, y) == BinaryOp(x, "+", y)
Short(name, e) == Fn(<< <<name, TInferred>> >>, TInferred, <<Expr(e)>>)

-----------------------------------------------------------------------------
(* The module: classes, an enum and functions of every kind.               *)

Animal == ClassStmt("Animal", << <<"name", TString>>, <<"tag", Nullable(TInt)>> >>,
  << Def("speak", Fn(<<>>, TString, <<Expr(Ident("name"))>>)),
     Def("mark", Fn(<< <<"n", TInt>> >>, TVoid, <<Assignment(Ident("tag"), Ident("n"))>>)) >>, "", <<>>)
Dog == ClassStmt("Dog", << <<"age", TInt>> >>,
  << Def("older", Fn(<< <<"by", TInt>> >>, TInt, <<Assignment(Ident("age"), Add(Ident("age"), Ident("by"))), Expr(Ident("age"))>>)),
     Def("height", Fn(<<>>, TInt, <<Expr(Ident("age"))>>)) >>,
  "Animal", << <<"Printable", <<>>>>, <<"Tall", <<>>>> >>)
Tall == Trait("Tall", <<Def("height", Fn(<<>>, TInt, <<>>))>>, <<>>)
Bag == ClassStmt("Bag", << <<"items", ListOf(TInt)>> >>,
  << Def("each", Fn(<< <<"f", Function(<<"_0">>, <<TInt>>, TVoid, NoType, FALSE)>> >>, TVoid,
                   <<For("x", Ident("items"), <<Expr(Call(Ident("f"), Args1(Ident("x"))))>>)>>)) >>, "", << <<"Iterable", <<>>>> >>)
Degrees == ClassStmt("Degrees", << <<"value", TInt>> >>,
  << Def("from", Fn(<< <<"value", TInt>> >>, Class("Degrees"), <<Return(Call(Ident("Degrees"), << <<"value", Ident("value")>> >>))>>)) >>,
  "", << <<"From", <<TInt>>>> >>)
Box == [ClassStmt("Box", << <<"item", TypeVar("T", {})>> >>,
  << Def("get", Fn(<<>>, TypeVar("T", {}), <<Expr(Ident("item"))>>)) >>, "", <<>>) EXCEPT !.generics = <<"T">>]
Oops == ClassStmt("Oops", <<>>, <<>>, "Error", <<>>)
Color == Enum("Color", [v \in {"Red", "Blue"} |-> <<>>], <<>>, << <<"Eq", <<>>>> >>)

n == Ident("n")
Pair == Def("pair", [Fn(<< <<"x", TInt>>, <<"y", TInt>> >>, TInt, <<Expr(Add(Ident("x"), Ident("y")))>>)
                       EXCEPT !.defaults = <<NoExpr, IntLit>>])
Next_ == Def("next", Fn(<< <<"n", TInt>> >>, TInferred, <<Expr(Call(Ident("pair"), << <<"x", n>>, <<"y", n>> >>))>>))
\* Functions whose types follow from one another, over more than one pass.
Following(name, other) == Def(name, Fn(<< <<"n", TInt>> >>, TInferred, <<Expr(Call(Ident(other), << <<"n", n>> >>))>>))
Chain == <<Following("after", "next"), Following("later", "after"), Following("last_", "later")>>
Twice == Def("twice", Fn(<< <<"f", IntFn>>, <<"n", TInt>> >>, TInt,
                        <<Expr(Call(Ident("f"), Args1(Call(Ident("f"), Args1(n)))))>>))
Same_ == Def("same", Fn(<< <<"x", Class("U")>> >>, Class("U"), <<Return(Ident("x"))>>))
Tagged == Def("tagged", Fn(<< <<"x", TInt>> >>, Nullable(TInt),
                          <<If(<< <<BinaryOp(Ident("x"), "==", IntLit), <<Return(NilLit)>>>> >>, <<>>), Expr(Ident("x"))>>))
Risky == Def("risky", Lambda(<< <<"n", TInt>> >>, TInt, Class("Error"),
             <<If(<< <<BinaryOp(n, "==", IntLit), <<Expr(Throw(Call(Ident("Oops"), << <<"message", StrLit>> >>)))>>>> >>, <<>>), Return(n)>>))
Slow == Def("slow", Fn(<< <<"n", TInt>> >>, TInt,
            <<Let("t", NoType, AsyncCall(Ident("next"), << <<"n", n>> >>)), Return(Propagate(Resolve(Ident("t"))))>>))

\* A parameter that must be an Animal, and one that must be Tall.
Bounded(name, param, bound, body) ==
  Def(name, [Fn(<< <<"x", Class(param)>> >>, Nullable(TInt), body) EXCEPT !.generics = <<param>>, !.constraints = param :> {bound}])
Tagging == Bounded("tagging", "A", <<"Extends", "Animal">>, <<Return(Member(Ident("x"), "tag"))>>)
Height == Bounded("height_of", "H", <<"Includes", "Tall", <<>>>>, <<Return(CallOf(Ident("x"), "height", <<>>))>>)
Limit == Const("LIMIT", NoType, IntLit)

Prelude == <<Limit, Tall, Animal, Dog, Bag, Degrees, Box, Oops, Color, Tagging, Height, Pair, Next_, Twice, Same_, Tagged, Risky, Slow>> \o Chain

\* The same module with its functions the other way round.
Types_ == SelectSeq(Prelude, LAMBDA s : ~IsFunctionDef(s))
Functions_ == SelectSeq(Prelude, IsFunctionDef)
MCModules == {Prelude, Types_ \o Reverse(Functions_)}

-----------------------------------------------------------------------------
(* Statements *)

NewDog(tag) == Call(Ident("Dog"), << <<"name", StrLit>>, <<"tag", tag>>, <<"age", IntLit>> >>)

Sources ==
  { IntLit, FloatLit, StrLit, BoolLit(TRUE), NilLit, ListLiteral(<<>>), ListLiteral(<<IntLit>>), ListLiteral(<<StrLit>>),
    ListLiteral(<<NewDog(NilLit)>>), ListLiteral(<<IntLit, NilLit>>),
    MapLiteral(<< <<IntLit, StrLit>> >>), NewDog(NilLit), Call(Ident("Box"), << <<"item", IntLit>> >>),
    Call(Index(Ident("Set"), Ident("Int")), <<>>), Member(Ident("Color"), "Red"), Range_(IntLit, IntLit),
    Fn(<< <<"x", TInt>> >>, TInferred, <<Expr(Add(Ident("x"), IntLit))>>),
    Call(Ident("Mutex"), Args1(IntLit)), Call(Ident("Channel"), <<>>),
    Call(Ident("Bag"), << <<"items", ListLiteral(<<IntLit>>)>> >>), CallOf(Ident("Degrees"), "from", << <<"value", IntLit>> >>),
    Call(Ident("tagged"), << <<"x", IntLit>> >>), Call(Ident("Oops"), << <<"message", StrLit>> >>) }

Annotations ==
  { NoType, Nullable(TInt), ListOf(TInt), ListOf(Class("Animal")), Class("Animal"), Custom("Channel", <<TInt>>), TFloat, Class("Error") }

Started_(v) == AsyncCall(Ident("slow"), << <<"n", v>> >>)

\* What can be done with a value v, and another one.
Uses(v, w) ==
  {v} \cup
  {BinaryOp(v, op, w) : op \in {"+", "/", "==", "<", "and"}} \cup
  {CallOf(v, m, <<>>) : m \in {"len", "pop", "first", "min", "speak", "value", "get", "receive", "to_upper", "abs", "round", "sort"}} \cup
  {CallOf(v, m, Args1(w)) : m \in {"push", "contains", "remove", "or", "max", "send", "release"}} \cup
  {CallOf(v, m, << <<"f", Short("e", BinaryOp(Ident("e"), "==", w))>> >>) : m \in {"find", "filter", "map", "remove_first", "any"}} \cup
  { UnaryOp("-", v), UnaryOp("not", v), Index(v, w), Member(v, "tag"), Member(v, "item"), Member(v, "age"),
    Call(Ident("tagging"), << <<"x", v>> >>), Call(Ident("height_of"), << <<"x", NewDog(v)>> >>), Call(Ident("height_of"), << <<"x", CallOf(Ident("Degrees"), "from", << <<"value", v>> >>)>> >>), CallOf(Ident("Degrees"), "from", << <<"value", v>> >>),
    CallOf(v, "is_a", Args1(Ident("Dog"))), CallOf(v, "responds_to", Args1(w)), CallOf(v, "or_else", Args1(w)),
    Propagate(Call(Ident("resolve_all"), Args1(ListLiteral(<<Started_(v)>>)))), ErrorOr(Call(Ident("resolve_first"), Args1(ListLiteral(<<Started_(v), Started_(w)>>))), w),
    ErrorOrElse(Call(Ident("risky"), << <<"n", v>> >>), w), DetachedCall(Ident("slow"), << <<"n", v>> >>), Call(Ident("random"), << <<"max", v>> >>),
    CallOf(v, "older", << <<"by", w>> >>), CallOf(v, "mark", << <<"n", w>> >>),
    Call(Ident("pair"), << <<"x", v>>, <<"y", w>> >>), Call(Ident("pair"), << <<"x", v>> >>),
    Call(Ident("twice"), << <<"f", v>>, <<"n", w>> >>), Call(Ident("same"), << <<"x", v>> >>),
    Call(v, << <<"x", w>> >>), Call(Ident("Box"), << <<"item", v>> >>), NewDog(v),
    Call(Ident("len"), Args1(v)), Call(Ident("say"), Args1(v)),
    ListLiteral(<<v, w>>), MapLiteral(<< <<v, w>> >>), Range_(v, w), Interpolation(<<v>>),
    Match(v, << <<LiteralPattern(NilLit), w>>, <<IdentPattern("m"), Ident("m")>> >>),
    Match(v, << <<LiteralPattern(BoolLit(TRUE)), w>>, <<LiteralPattern(BoolLit(FALSE)), IntLit>> >>),
    Match(v, << <<VariantPattern("Color", "Red", <<>>), w>>, <<VariantPattern("Color", "Blue", <<>>), IntLit>> >>),
    ErrorOr(Call(Ident("risky"), << <<"n", v>> >>), w),
    ErrorCatch(Call(Ident("risky"), << <<"n", v>> >>), << <<ErrorPattern("Error", "x"), w>> >>),
    Call(Ident("risky"), << <<"n", v>> >>), Propagate(Call(Ident("risky"), << <<"n", v>> >>)), Throw(v),
    BlockingCall(Ident("slow"), << <<"n", v>> >>),
    Call(Ident("slow"), << <<"n", v>> >>), BlockingCall(Member(v, "acquire"), <<>>) }

Atoms == {IntLit, FloatLit, StrLit, NilLit, BoolLit(TRUE), NewDog(NilLit), a}

Changes(v, w) ==
  { Assignment(v, w), Assignment(Ident("LIMIT"), w), Const("K", NoType, v), Assignment(Member(v, "tag"), w), Assignment(Index(v, IntLit), w),
    If(<< <<BoolLit(TRUE), <<Assignment(v, w)>>>> >>, <<>>),
    If(<< <<v, <<Expr(w)>>>> >>, <<Expr(v)>>),
    While(BinaryOp(v, "==", w), <<Break>>), For("x", v, <<Expr(Add(Ident("x"), w))>>), For("x", v, <<Expr(CallOf(v, "push", Args1(w)))>>),
    Def("g", Fn(<<>>, TInferred, <<Assignment(v, w), Expr(v)>>)) }

\* Tasks and empty lists have names of their own; nil only where it is one of two.
First == {Let("t", NoType, AsyncCall(Ident(f), << <<"n", IntLit>> >>)) : f \in {"slow", "next"}}
         \cup ({Let("a", ann, e) : ann \in Annotations, e \in Sources} \ {Let("a", NoType, ListLiteral(<<>>)), Let("a", NoType, NilLit)})
t == Ident("t")
Again == Propagate(Resolve(t))
Resolving == {Let("b", NoType, e) : e \in {Again, ErrorOr(Resolve(t), IntLit), CallOf(t, "is_ready", <<>>)}}
             \cup { If(<< <<CallOf(t, "is_ready", <<>>), <<Expr(IntLit)>>>> >>, <<Expr(Again)>>),
                    If(<< <<CallOf(t, "is_ready", <<>>), <<Expr(Again)>>>> >>, <<>>),
                    For("x", ListLiteral(<<IntLit, IntLit>>), <<Expr(Again)>>), Expr(Again), Expr(ErrorOr(Resolve(t), IntLit)) }
Second == Resolving \cup
  UNION {{Let("b", NoType, e) : e \in Uses(a, w)} : w \in Atoms} \cup UNION {Changes(a, w) : w \in Atoms}
  \cup {Let("b", ann, e) : ann \in Annotations, e \in {a}} \cup {Let("l", NoType, ListLiteral(<<>>))}
l == Ident("l")
Pushes(w) == {Expr(CallOf(l, "push", Args1(w)))} \cup {If(<< <<BoolLit(TRUE), <<Expr(CallOf(l, "push", Args1(w)))>>>> >>, <<>>)}
Third ==
  Resolving \cup UNION {{Let("c", NoType, e) : e \in Uses(v, w)} : v \in {a, b}, w \in {IntLit, StrLit, a, b}}
  \cup UNION {Changes(v, w) : v \in {a, b}, w \in {IntLit, StrLit, a, b}}
  \cup UNION {Pushes(w) : w \in {IntLit, StrLit, a}}
Fourth == Resolving \cup {Expr(e) : e \in Uses(Ident("c"), IntLit)} \cup {Expr(e) : e \in Uses(l, IntLit)} \cup UNION {Pushes(w) : w \in {IntLit, StrLit, a}}

MCPool == <<First, Second, Third, Fourth>>

\* A task that is resolved when it happens to be ready, and then once more.
TaskPool == <<First, Resolving, Resolving>>
=============================================================================
