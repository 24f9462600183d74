------------------------------- MODULE Builtins -------------------------------
(***************************************************************************)
(* What every program finds declared: the builtin classes with their       *)
(* constructors, the protocol traits and the Ordering enum.  The members   *)
(* of the builtin generic types are in Members.                            *)
(***************************************************************************)
EXTENDS Types

NoMethods == [m \in {} |-> NoType]

\* A class of errors, with the fields it adds; the constructor takes the
\* inherited message as well, unless the class has one of its own.
ErrorClass(fields, parent) == ClassInfo(fields, NoMethods, parent, {})

builtin_classes ==
  ( "Frame" :> ClassInfo(<< <<"function", TString>>, <<"file", TString>>, <<"line", TInt>> >>, NoMethods, "", {"Printable"}) ) @@
  ( "Exception" :> ClassInfo(<< <<"message", TString>> >>, "trace" :> func(<<>>, <<>>, ListOf(Class("Frame"))), "", {}) ) @@
  ( "Error" :> ErrorClass(<<>>, "Exception") ) @@
  [ e \in {"CancelledError", "LockTimeoutError", "ChannelFullError", "ChannelEmptyError",
           "ChannelClosedError", "IOError", "IntParseError"} |-> ErrorClass(<<>>, "Error") ] @@
  ( "FunctionNotFound" :> ErrorClass(<< <<"name", TString>> >>, "Error") ) @@
  ( "EvalError" :> ErrorClass(<< <<"kind", TString>>, <<"message", TString>> >>, "Error") ) @@
  ( "ProcessError" :> ErrorClass(<< <<"command", TString>> >>, "Error") ) @@
  ( "ProcessResult" :>
      ClassInfo(<< <<"exit_code", TInt>>, <<"stdout", TString>>, <<"stderr", TString>> >>, NoMethods, "", {}) ) @@
  ( "Int" :> ClassInfo(<<>>, "from" :> throwing(<<"text">>, <<TString>>, Class("IntParseError"), TInt), "", {"From"}) ) @@
  ( "Range" :>
      [ClassInfo(<< <<"start", TInt>>, <<"end", TInt>>, <<"inclusive", TBool>> >>,
                 ("each" :> func(<<"f">>, <<func(<<"_0">>, <<TInt>>, TVoid)>>, TVoid)) @@ ("random" :> func(<<>>, <<>>, TInt)),
                 "", {"Iterable"}) EXCEPT !.parametric = {<<"Iterable", <<TInt>>>>}] ) @@
  ( "Type" :> ClassInfo(<<>>, "to_string" :> func(<<>>, <<>>, TString), "", {}) ) @@
  ( "FieldInfo" :>
      ClassInfo(<< <<"name", TString>>, <<"type_name", Class("Type")>>, <<"is_public", TBool>> >>, NoMethods, "", {}) ) @@
  ( "ParamInfo" :>
      ClassInfo(<< <<"name", TString>>, <<"param_type", Class("Type")>>, <<"has_default", TBool>> >>, NoMethods, "", {}) ) @@
  ( "MethodInfo" :>
      ClassInfo(<< <<"name", TString>>, <<"params", ListOf(Class("ParamInfo"))>>,
                   <<"return_type", Class("Type")>>, <<"is_public", TBool>> >>, NoMethods, "", {}) )

\* Constructors of the error classes, the functions registered as values, and
\* the names that only stand in front of a static method.
builtin_variables ==
  LET construct(name) ==
        func(CASE name = "EvalError" -> <<"kind", "message">>
               [] name = "FunctionNotFound" -> <<"message", "name">>
               [] name = "ProcessError" -> <<"message", "command">>
               [] OTHER -> <<"message">>,
             IF name \in {"EvalError", "FunctionNotFound", "ProcessError"} THEN <<TString, TString>> ELSE <<TString>>,
             Class(name))
      errors == {"Exception", "Error", "CancelledError", "LockTimeoutError", "ChannelFullError", "ChannelEmptyError",
                 "ChannelClosedError", "IOError", "FunctionNotFound", "EvalError", "ProcessError", "IntParseError"}
  IN [e \in errors |-> construct(e)]
     @@ [f \in {"log", "say"} |-> func(<<"message">>, <<TString>>, TVoid)]
     @@ ("random" :> func(<<>>, <<>>, TInt))
     @@ ("to_int" :> throwing(<<"text">>, <<TString>>, Class("IntParseError"), TInt))
     @@ [n \in {"Int", "File", "TcpListener", "TcpStream"} |-> Class(n)]

\* The protocols.  Self stands for the class that includes the trait.
builtin_traits ==
  LET Self == Class("Self")
      T == TypeVar("T", {})
      one(name, type) == TraitInfo(name :> type, {name}, <<>>)
      generic(name, type) == TraitInfo(name :> type, {name}, <<"T">>)
  IN ( "Eq" :> one("eq", func(<<"other">>, <<Self>>, TBool)) ) @@
     ( "Ord" :> one("cmp", func(<<"other">>, <<Self>>, Class("Ordering"))) ) @@
     ( "Printable" :> TraitInfo([m \in {"to_string", "debug"} |-> func(<<>>, <<>>, TString)], {"to_string"}, <<>>) ) @@
     ( "From" :> generic("from", func(<<"value">>, <<T>>, Self)) ) @@
     ( "Into" :> generic("into", func(<<>>, <<>>, T)) ) @@
     ( "Iterator" :> generic("next", func(<<>>, <<>>, Nullable(T))) ) @@
     ( "Iterable" :> generic("each", func(<<"f">>, <<func(<<"_0">>, <<T>>, TVoid)>>, TVoid)) ) @@
     ( "Drop" :> one("drop", func(<<>>, <<>>, TVoid)) ) @@
     ( "Close" :> one("close", throwing(<<>>, <<>>, Class("Error"), TVoid)) ) @@
     ( "Random" :> one("random", func(<<>>, <<>>, TypeVar("Self", {}))) ) @@
     ( "DynamicReceiver" :>
         one("method_missing", func(<<"fn_name", "args">>, <<TString, MapOf(TString, TString)>>, TVoid)) ) @@
     ( "FieldAccessible" :> one("field_value", func(<<"name">>, <<TString>>, TVoid)) )

builtin_enums ==
  "Ordering" :> EnumInfo([v \in {"Less", "Equal", "Greater"} |-> <<>>], {"Eq"})
=============================================================================
