-------------------------------- MODULE Syntax --------------------------------
(***************************************************************************)
(* Programs as the parser hands them on: expressions and statements as     *)
(* records with the name of their form in field k.  Literals carry no      *)
(* value: no rule of the checker looks at one, except that a pattern for a *)
(* Bool is one of two.                                                     *)
(***************************************************************************)
EXTENDS Types

IntLit == [k |-> "Int"]
FloatLit == [k |-> "Float"]
StrLit == [k |-> "Str"]
BoolLit(b) == [k |-> "Bool", value |-> b]
NilLit == [k |-> "Nil"]
Ident(name) == [k |-> "Ident", name |-> name]
Member(object, field) == [k |-> "Member", object |-> object, field |-> field]
Call(func_, args) == [k |-> "Call", func |-> func_, args |-> args]
BinaryOp(left, op, right) == [k |-> "BinaryOp", left |-> left, op |-> op, right |-> right]
UnaryOp(op, operand) == [k |-> "UnaryOp", op |-> op, operand |-> operand]
ListLiteral(elems) == [k |-> "ListLiteral", elems |-> elems]
MapLiteral(entries) == [k |-> "Map", entries |-> entries]
Range_(start, end) == [k |-> "Range", start |-> start, end |-> end]
Index(object, index) == [k |-> "Index", object |-> object, index |-> index]
Interpolation(parts) == [k |-> "StringInterpolation", parts |-> parts]
Match(scrutinee, arms) == [k |-> "Match", scrutinee |-> scrutinee, arms |-> arms]
AsyncCall(func_, args) == [k |-> "AsyncCall", func |-> func_, args |-> args]
BlockingCall(func_, args) == [k |-> "BlockingCall", func |-> func_, args |-> args]
DetachedCall(func_, args) == [k |-> "DetachedCall", func |-> func_, args |-> args]
Resolve(expr) == [k |-> "Resolve", expr |-> expr]
Propagate(expr) == [k |-> "Propagate", expr |-> expr]
Throw(expr) == [k |-> "Throw", expr |-> expr]
ErrorOr(expr, default) == [k |-> "ErrorOr", expr |-> expr, default |-> default]
ErrorOrElse(expr, handler) == [k |-> "ErrorOrElse", expr |-> expr, handler |-> handler]
ErrorCatch(expr, arms) == [k |-> "ErrorCatch", expr |-> expr, arms |-> arms]

NoExpr == [k |-> "None"]

\* params: <<name, type>>; constraints: type parameter -> {<<"Extends", class>>,
\* <<"Includes", trait, args>>}; defaults: one expression or NoExpr per parameter;
\* generics: the declared type parameters, or NoType to infer them.
Lambda(params, ret_type, throws, body) ==
  [k |-> "Lambda", params |-> params, ret_type |-> ret_type, throws |-> throws, body |-> body,
   generics |-> NoType, constraints |-> [v \in {} |-> {}], defaults |-> [i \in 1..Len(params) |-> NoExpr]]

\* Patterns of match and of catch.
LiteralPattern(expr) == [k |-> "Literal", expr |-> expr]
IdentPattern(name) == [k |-> "Ident", name |-> name]
WildcardPattern == [k |-> "Wildcard"]
VariantPattern(enum, variant, bindings) ==
  [k |-> "EnumVariant", enum |-> enum, variant |-> variant, bindings |-> bindings]
ErrorPattern(error_type, var) == [k |-> "Typed", error_type |-> error_type, var |-> var]

Let(name, type_ann, value) == [k |-> "Let", name |-> name, type_ann |-> type_ann, value |-> value]
Const(name, type_ann, value) == [k |-> "Const", name |-> name, type_ann |-> type_ann, value |-> value]
Return(expr) == [k |-> "Return", expr |-> expr]
Expr(expr) == [k |-> "Expr", expr |-> expr]
\* branches: <<condition, body>>, the if and its elifs.
If(branches, else_body) == [k |-> "If", branches |-> branches, else_body |-> else_body]
While(cond, body) == [k |-> "While", cond |-> cond, body |-> body]
For(var, iter, body) == [k |-> "For", var |-> var, iter |-> iter, body |-> body]
Assignment(target, value) == [k |-> "Assignment", target |-> target, value |-> value]
Break == [k |-> "Break"]
Continue == [k |-> "Continue"]
ClassStmt(name, fields, methods, extends, includes) ==
  [k |-> "Class", name |-> name, fields |-> fields, methods |-> methods, extends |-> extends,
   includes |-> includes, generics |-> <<>>]
Trait(name, methods, generics) == [k |-> "Trait", name |-> name, methods |-> methods, generics |-> generics]
\* variants: <<name, fields>>; methods are Let statements with a Lambda.
Enum(name, variants, methods, includes) ==
  [k |-> "Enum", name |-> name, variants |-> variants, methods |-> methods, includes |-> includes]

CallForms == {"Call", "AsyncCall", "BlockingCall", "DetachedCall"}
==============================================================================
