-------------------------------- MODULE Members --------------------------------
(***************************************************************************)
(* The members of the builtin types: tables from a member's name to its    *)
(* type, given the type arguments.  A name that is not in the table is     *)
(* refused.                                                                *)
(***************************************************************************)
EXTENDS Builtins

suspending(names, params, ret) == Function(names, params, ret, NoType, TRUE)
IoError == Class("IOError")

check_file_static_member ==
  ( "read" :> throwing(<<"path">>, <<TString>>, IoError, TString) ) @@
  [ f \in {"write", "append"} |-> throwing(<<"path", "content">>, <<TString, TString>>, IoError, TVoid) ]

check_tcp_listener_static_member ==
  "bind" :> throwing(<<"port">>, <<TInt>>, IoError, Class("TcpListener"))

check_tcp_stream_static_member ==
  "connect" :> Function(<<"host", "port">>, <<TString, TInt>>, Class("TcpStream"), IoError, TRUE)

check_tcp_listener_instance_member ==
  ( "accept" :> Function(<<>>, <<>>, Class("TcpStream"), IoError, TRUE) ) @@
  ( "close" :> func(<<>>, <<>>, TVoid) )

check_tcp_stream_instance_member ==
  ( "read" :> Function(<<>>, <<>>, TString, IoError, TRUE) ) @@
  ( "write" :> Function(<<"data">>, <<TString>>, TVoid, IoError, TRUE) ) @@
  ( "close" :> func(<<>>, <<>>, TVoid) )

check_task_member ==
  ( "is_ready" :> func(<<>>, <<>>, TBool) ) @@
  [ f \in {"cancel", "wait_cancel"} |-> func(<<>>, <<>>, TVoid) ]

check_mutex_member(inner) ==
  ( "acquire" :> suspending(<<>>, <<>>, inner) ) @@
  ( "release" :> func(<<"value">>, <<inner>>, TVoid) ) @@
  ( "lock" :> suspending(<<"block">>, <<func(<<"_0">>, <<inner>>, TVoid)>>, TVoid) )

SendMembers(inner) ==
  ( "send" :> func(<<"value">>, <<inner>>, TVoid) ) @@
  ( "wait_send" :> suspending(<<"value">>, <<inner>>, TVoid) ) @@
  ( "try_send" :> throwing(<<"value">>, <<inner>>, Class("ChannelFullError"), TVoid) ) @@
  ( "close" :> func(<<>>, <<>>, TVoid) )

ReceiveMembers(inner) ==
  ( "receive" :> func(<<>>, <<>>, Nullable(inner)) ) @@
  ( "wait_receive" :> suspending(<<>>, <<>>, inner) ) @@
  ( "try_receive" :> throwing(<<>>, <<>>, Class("ChannelEmptyError"), inner) ) @@
  ( "close" :> func(<<>>, <<>>, TVoid) )

check_channel_member(inner) == SendMembers(inner) @@ ReceiveMembers(inner)

\* Only the end that can, can be cloned.
check_multi_channel_member(name, args) ==
  IF name = "MultiSend" THEN SendMembers(args[1]) @@ ("clone_sender" :> func(<<>>, <<>>, Custom(name, args)))
  ELSE ReceiveMembers(args[1]) @@ ("clone_receiver" :> func(<<>>, <<>>, Custom(name, args)))

check_string_member ==
  ( "len" :> func(<<>>, <<>>, TInt) ) @@
  ( "contains" :> func(<<"str">>, <<TString>>, TBool) ) @@
  ( "starts_with" :> func(<<"pre">>, <<TString>>, TBool) ) @@
  ( "ends_with" :> func(<<"suf">>, <<TString>>, TBool) ) @@
  [ f \in {"trim", "to_upper", "to_lower"} |-> func(<<>>, <<>>, TString) ] @@
  ( "slice" :> func(<<"from", "to">>, <<TInt, TInt>>, TString) ) @@
  ( "replace" :> func(<<"old", "new">>, <<TString, TString>>, TString) ) @@
  ( "split" :> func(<<"sep">>, <<TString>>, ListOf(TString)) )

\* clamp, min and max stay in the number type.
Bounding(t) ==
  ( "clamp" :> func(<<"min", "max">>, <<t, t>>, t) ) @@
  [ f \in {"min", "max"} |-> func(<<"value">>, <<t>>, t) ] @@
  ( "abs" :> func(<<>>, <<>>, t) )

check_int_member ==
  [ f \in {"is_even", "is_odd"} |-> func(<<>>, <<>>, TBool) ] @@ Bounding(TInt)

check_float_member ==
  [ f \in {"round", "floor", "ceil"} |-> func(<<>>, <<>>, TInt) ] @@ Bounding(TFloat)

check_type_member == "to_string" :> func(<<>>, <<>>, TString)

\* What iteration gives a collection, a List or a class that has each().
iterable_vocabulary_methods(elem) ==
  LET U == TypeVar("U", {})
      predicate == func(<<"_0">>, <<elem>>, TBool)
  IN ( "map" :> func(<<"f">>, <<func(<<"_0">>, <<elem>>, U)>>, ListOf(U)) ) @@
     ( "reduce" :> func(<<"init", "f">>, <<U, func(<<"_0", "_1">>, <<U, elem>>, U)>>, U) ) @@
     ( "filter" :> func(<<"f">>, <<predicate>>, ListOf(elem)) ) @@
     ( "find" :> func(<<"f">>, <<predicate>>, Nullable(elem)) ) @@
     [ f \in {"any", "all"} |-> func(<<"f">>, <<predicate>>, TBool) ] @@
     ( "count" :> func(<<>>, <<>>, TInt) ) @@
     [ f \in {"first", "last", "min", "max"} |-> func(<<>>, <<>>, Nullable(elem)) ] @@
     [ f \in {"to_list", "sort", "unique"} |-> func(<<>>, <<>>, ListOf(elem)) ]

\* Ordering needs Ord of the elements, unique needs Eq.
check_collection_constraint(types, field, elem) ==
  /\ field \in {"min", "max", "sort"} => type_includes_protocol(types, elem, "Ord")
  /\ field = "unique" => type_includes_protocol(types, elem, "Eq")

check_collection_member(elem) ==
  ( "len" :> func(<<>>, <<>>, TInt) ) @@
  ( "each" :> func(<<"f">>, <<func(<<"_0">>, <<elem>>, TVoid)>>, TVoid) ) @@
  ( "push" :> func(<<"item">>, <<elem>>, TVoid) ) @@
  ( "pop" :> func(<<>>, <<>>, elem) ) @@
  ( "remove_first" :> func(<<"f">>, <<func(<<"_0">>, <<elem>>, TBool)>>, Nullable(elem)) ) @@
  ( "contains" :> func(<<"item">>, <<elem>>, TBool) ) @@
  iterable_vocabulary_methods(elem)

check_list_member(elem) ==
  ( "insert" :> func(<<"at", "item">>, <<TInt, elem>>, TVoid) ) @@
  ( "remove" :> func(<<"at">>, <<TInt>>, elem) ) @@
  ( "random" :> func(<<>>, <<>>, elem) ) @@
  check_collection_member(elem)

\* A set removes by value.
check_set_member(elem) ==
  ( "remove" :> func(<<"item">>, <<elem>>, TVoid) ) @@ check_collection_member(elem)

\* Introspection, on anything that has no member of the name.
check_introspection_member ==
  LET T == Class("Type") IN
  ( "class_name" :> T ) @@
  ( "fields" :> ListOf(Class("FieldInfo")) ) @@
  ( "methods" :> ListOf(Class("MethodInfo")) ) @@
  [ f \in {"ancestors", "children"} |-> ListOf(T) ] @@
  ( "is_a" :> func(<<"type">>, <<T>>, TBool) ) @@
  ( "responds_to" :> func(<<"method_name">>, <<TString>>, TBool) )

Handled(table) == [handled |-> TRUE, table |-> table]

\* The table of a builtin type, or that the type is not one.  A nullable has
\* only its ways out, which check_call types.
check_builtin_member(t) ==
  CASE t[1] = "Nullable" -> Handled([f \in {"or", "or_else", "or_throw"} |-> TVoid])
    [] t[1] = "Task" -> Handled(check_task_member)
    [] t[1] = "Custom" /\ t[2] = "Mutex" /\ t[3] # <<>> -> Handled(check_mutex_member(t[3][1]))
    [] t[1] = "Custom" /\ t[2] = "Channel" /\ t[3] # <<>> -> Handled(check_channel_member(t[3][1]))
    [] t[1] = "Custom" /\ t[2] \in {"MultiSend", "MultiReceive"} /\ t[3] # <<>> ->
         Handled(check_multi_channel_member(t[2], t[3]))
    [] t = Class("TcpListener") -> Handled(check_tcp_listener_instance_member)
    [] t = Class("TcpStream") -> Handled(check_tcp_stream_instance_member)
    [] t = TString -> Handled(check_string_member)
    [] t = TInt -> Handled(check_int_member)
    [] t = TFloat -> Handled(check_float_member)
    [] t[1] = "List" -> Handled(check_list_member(t[2]))
    [] t[1] = "Set" -> Handled(check_set_member(t[2]))
    [] t = Class("Type") -> Handled(check_type_member)
    [] OTHER -> [handled |-> FALSE]
=============================================================================
