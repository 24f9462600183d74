------------------------------ MODULE Channel ------------------------------
(***************************************************************************)
(* Channel[T]: a bounded buffer with two lists of suspended green threads, *)
(* senders that found it full and receivers that found it empty, in all    *)
(* its flavours: send / wait_send / try_send, receive / wait_receive /     *)
(* try_receive and close.  Every operation is one critical section of the  *)
(* channel's inner lock followed, with that lock dropped, by the wake-ups  *)
(* it owes.  A green thread that has to wait enlists under the lock and    *)
(* switches out later; the worker's save of the thread's error flag is     *)
(* part of that switch.  The entry thread cannot suspend and spins.        *)
(***************************************************************************)
EXTENDS Integers, Sequences, FiniteSets

CONSTANTS Tasks,      \* green threads
          Main,       \* the entry thread
          Senders,    \* users that send ...
          Receivers,  \* ... and users that receive
          Closers,    \* users that may close the channel
          Cancellable,  \* tasks whose handle someone may cancel
          SendKinds,  \* flavours in use: "send", "wait", "try"
          RecvKinds,  \* "receive", "wait", "try"
          Capacity,   \* capacity asked for
          MaxSends, MaxReceives  \* operations per sender and receiver

Users == Tasks \cup {Main}

ASSUME UsersOK == /\ Main \notin Tasks
                  /\ Senders \cup Receivers \cup Closers \subseteq Users
                  /\ Cancellable \subseteq Tasks
ASSUME KindsOK == SendKinds \subseteq {"send", "wait", "try"} /\ RecvKinds \subseteq {"receive", "wait", "try"}
ASSUME BoundsOK == Capacity \in Int /\ MaxSends \in Nat /\ MaxReceives \in Nat

VARIABLES
  buffer, closed, send_waiters, recv_waiters,  \* AsterChannelState
  pc,       \* where each user stands
  owes,     \* wake-ups its last critical section left it to do
  woken,    \* how an enlisted task was made runnable, "no" if it was not
  result, errorFlag,  \* TaskState.result and the saved error flag
  cancelRequested,
  sent, asked,        \* operations begun
  \* history: messages refused or dropped by the rules, the order in which
  \* messages left the channel, how often each was returned by a receive,
  \* whether the entry thread's spin loop ever touched the buffer
  refused, taken, obtained, mainSpun

stateVars == <<buffer, closed, send_waiters, recv_waiters>>
taskVars == <<woken, result, errorFlag, cancelRequested>>
historyVars == <<refused, taken, obtained, mainSpun>>
vars == <<stateVars, pc, owes, taskVars, sent, asked, historyVars>>

\* aster_channel_new
capacity == IF Capacity <= 0 THEN 64 ELSE Capacity

Messages == Senders \X (1..MaxSends)
Nil == <<Main, 0>>
Wakeups == [to : Tasks, how : {"value", "plain", "error"}, val : Messages \cup {Nil}]
Pcs == {"idle", "waking", "sendParking", "sendParked", "recvParking", "recvParked",
        "spinSend", "spinRecv", "died"}

TypeOK ==
  /\ buffer \in Seq(Messages)
  /\ closed \in BOOLEAN
  /\ send_waiters \in Seq(Tasks \X Messages)
  /\ recv_waiters \in Seq(Tasks)
  /\ pc \in [Users -> Pcs]
  /\ owes \in [Users -> Seq(Wakeups)]
  /\ woken \in [Tasks -> {"no", "value", "plain", "error"}]
  /\ result \in [Tasks -> Messages \cup {Nil}]
  /\ errorFlag \in [Tasks -> BOOLEAN]
  /\ cancelRequested \in [Tasks -> BOOLEAN]
  /\ sent \in [Users -> 0..MaxSends]
  /\ asked \in [Users -> 0..MaxReceives]
  /\ refused \subseteq Messages
  /\ taken \in Seq(Messages)
  /\ obtained \in [Messages -> Nat]
  /\ mainSpun \in BOOLEAN

Init ==
  /\ buffer = <<>> /\ closed = FALSE /\ send_waiters = <<>> /\ recv_waiters = <<>>
  /\ pc = [u \in Users |-> "idle"]
  /\ owes = [u \in Users |-> <<>>]
  /\ woken = [t \in Tasks |-> "no"]
  /\ result = [t \in Tasks |-> Nil]
  /\ errorFlag = [t \in Tasks |-> FALSE]
  /\ cancelRequested = [t \in Tasks |-> FALSE]
  /\ sent = [u \in Users |-> 0]
  /\ asked = [u \in Users |-> 0]
  /\ refused = {} /\ taken = <<>> /\ mainSpun = FALSE
  /\ obtained = [m \in Messages |-> 0]

-----------------------------------------------------------------------------
(* Pieces of operations *)

GoTo(u, label) == pc' = [pc EXCEPT ![u] = label]
Wakeup(t, how, val) == [to |-> t, how |-> how, val |-> val]
Rest(q) == SubSeq(q, 1, Len(q) - 1)

\* The critical section is over; the inner lock is dropped.
Owe(u, list) ==
  /\ owes' = [owes EXCEPT ![u] = list]
  /\ GoTo(u, IF list = <<>> THEN "idle" ELSE "waking")

Return(u) == Owe(u, <<>>)

CallsSend(u) ==
  /\ u \in Senders /\ pc[u] = "idle" /\ sent[u] < MaxSends
  /\ sent' = [sent EXCEPT ![u] = @ + 1]
  /\ UNCHANGED <<taskVars, asked>>

CallsReceive(u) ==
  /\ u \in Receivers /\ pc[u] = "idle" /\ asked[u] < MaxReceives
  /\ asked' = [asked EXCEPT ![u] = @ + 1]
  /\ UNCHANGED <<taskVars, sent>>

\* The message u's current send is about, counted from the next state on.
Message(u) == <<u, sent'[u]>>

Full == Len(buffer) >= capacity
DirectDelivery == buffer = <<>> /\ recv_waiters # <<>>

-----------------------------------------------------------------------------
(* aster_channel_send, aster_channel_wait_send, aster_channel_try_send *)

SendClosed(u) ==
  /\ CallsSend(u)
  /\ closed
  /\ refused' = refused \cup {Message(u)}
  /\ Return(u)
  /\ UNCHANGED <<stateVars, taken, obtained, mainSpun>>

\* The last receiver enlisted is given the value without going through the buffer.
SendDirect(u) ==
  /\ CallsSend(u)
  /\ ~closed /\ DirectDelivery
  /\ recv_waiters' = Rest(recv_waiters)
  /\ taken' = Append(taken, Message(u))
  /\ Owe(u, <<Wakeup(recv_waiters[Len(recv_waiters)], "value", Message(u))>>)
  /\ UNCHANGED <<buffer, closed, send_waiters, refused, obtained, mainSpun>>

\* Mutation of SendBuffer: the comparison with the capacity is off by one.
SendBufferOver(u, kind) ==
  /\ CallsSend(u)
  /\ ~closed /\ ~DirectDelivery /\ Len(buffer) <= capacity
  /\ buffer' = Append(buffer, Message(u))
  /\ Return(u)
  /\ UNCHANGED <<closed, send_waiters, recv_waiters, refused, taken, obtained, mainSpun>>

\* Into the buffer.  send and wait_send then wake a receiver if one waits, to
\* return whatever its result field holds; try_send does not.
SendBuffer(u, kind) ==
  /\ CallsSend(u)
  /\ ~closed /\ ~DirectDelivery /\ ~Full
  /\ buffer' = Append(buffer, Message(u))
  /\ IF kind # "try" /\ recv_waiters # <<>>
       THEN /\ recv_waiters' = Rest(recv_waiters)
            /\ Owe(u, <<Wakeup(recv_waiters[Len(recv_waiters)], "plain", Nil)>>)
       ELSE /\ Return(u)
            /\ UNCHANGED recv_waiters
  /\ UNCHANGED <<closed, send_waiters, refused, taken, obtained, mainSpun>>

\* Full: send drops the value, try_send raises ChannelFullError.
SendRefused(u, kind) ==
  /\ CallsSend(u)
  /\ ~closed /\ ~DirectDelivery /\ Full /\ kind \in {"send", "try"}
  /\ refused' = refused \cup {Message(u)}
  /\ Return(u)
  /\ UNCHANGED <<stateVars, taken, obtained, mainSpun>>

\* Full: wait_send on a green thread enlists with its value.
SendEnlist(t) ==
  /\ t \in Tasks
  /\ CallsSend(t)
  /\ ~closed /\ ~DirectDelivery /\ Full
  /\ send_waiters' = Append(send_waiters, <<t, Message(t)>>)
  /\ GoTo(t, "sendParking")
  /\ UNCHANGED <<buffer, closed, recv_waiters, owes, historyVars>>

\* Full: wait_send on the entry thread.
SendSpin ==
  /\ CallsSend(Main)
  /\ ~closed /\ ~DirectDelivery /\ Full
  /\ GoTo(Main, "spinSend")
  /\ UNCHANGED <<stateVars, owes, historyVars>>

\* The spin loop finds room or a closed channel; it wakes nobody, and a close
\* drops the value without an error.
SpinSendDone ==
  /\ pc[Main] = "spinSend"
  /\ ~Full \/ closed
  /\ IF closed
       THEN refused' = refused \cup {<<Main, sent[Main]>>} /\ UNCHANGED <<buffer, mainSpun>>
       ELSE buffer' = Append(buffer, <<Main, sent[Main]>>) /\ mainSpun' = TRUE /\ UNCHANGED refused
  /\ Return(Main)
  /\ UNCHANGED <<closed, send_waiters, recv_waiters, taskVars, sent, asked, taken, obtained>>

SpinSendTimeout ==
  /\ pc[Main] = "spinSend"
  /\ Full /\ ~closed
  /\ refused' = refused \cup {<<Main, sent[Main]>>}
  /\ Return(Main)
  /\ UNCHANGED <<stateVars, taskVars, sent, asked, taken, obtained, mainSpun>>

-----------------------------------------------------------------------------
(* aster_channel_receive, aster_channel_wait_receive, aster_channel_try_receive *)

Obtain(m) == obtained' = [obtained EXCEPT ![m] = @ + 1]

\* Mutation of ReceiveBuffered: the freed slot is not given to a waiting sender.
ReceiveNoAdmit(u) ==
  /\ CallsReceive(u)
  /\ buffer # <<>>
  /\ Obtain(Head(buffer))
  /\ taken' = Append(taken, Head(buffer))
  /\ buffer' = Tail(buffer)
  /\ Return(u)
  /\ UNCHANGED <<closed, send_waiters, recv_waiters, refused, mainSpun>>

\* Mutation of ReceiveBuffered: values are popped from the back.
ReceiveBack(u) ==
  /\ CallsReceive(u)
  /\ buffer # <<>>
  /\ Obtain(buffer[Len(buffer)])
  /\ taken' = Append(taken, buffer[Len(buffer)])
  /\ buffer' = Rest(buffer)
  /\ Return(u)
  /\ UNCHANGED <<closed, send_waiters, recv_waiters, refused, mainSpun>>

\* Mutation of ReceiveBuffered: the admitted sender stays enlisted.
ReceiveKeepsWaiter(u) ==
  /\ CallsReceive(u)
  /\ buffer # <<>>
  /\ Obtain(Head(buffer))
  /\ taken' = Append(taken, Head(buffer))
  /\ buffer' = IF send_waiters = <<>> THEN Tail(buffer)
               ELSE Append(Tail(buffer), send_waiters[Len(send_waiters)][2])
  /\ Return(u)
  /\ UNCHANGED <<closed, send_waiters, recv_waiters, refused, mainSpun>>

\* The front of the buffer; the last sender enlisted moves its value into the
\* freed slot and is woken.
ReceiveBuffered(u) ==
  /\ CallsReceive(u)
  /\ buffer # <<>>
  /\ Obtain(Head(buffer))
  /\ taken' = Append(taken, Head(buffer))
  /\ IF send_waiters = <<>>
       THEN /\ buffer' = Tail(buffer)
            /\ Return(u)
            /\ UNCHANGED send_waiters
       ELSE LET last == send_waiters[Len(send_waiters)] IN
            /\ buffer' = Append(Tail(buffer), last[2])
            /\ send_waiters' = Rest(send_waiters)
            /\ Owe(u, <<Wakeup(last[1], "plain", Nil)>>)
  /\ UNCHANGED <<closed, recv_waiters, refused, mainSpun>>

\* Empty: receive returns nil, try_receive raises ChannelEmptyError, and so
\* does wait_receive once the channel is closed.
ReceiveNothing(u, kind) ==
  /\ CallsReceive(u)
  /\ buffer = <<>>
  /\ kind \in {"receive", "try"} \/ closed
  /\ Return(u)
  /\ UNCHANGED <<stateVars, historyVars>>

\* Mutation of ReceiveEnlist: the closed flag is not tested.
ReceiveEnlistClosed(t) ==
  /\ t \in Tasks
  /\ CallsReceive(t)
  /\ buffer = <<>>
  /\ recv_waiters' = Append(recv_waiters, t)
  /\ GoTo(t, "recvParking")
  /\ UNCHANGED <<buffer, closed, send_waiters, owes, historyVars>>

\* Empty and open: wait_receive on a green thread enlists.
ReceiveEnlist(t) ==
  /\ t \in Tasks
  /\ CallsReceive(t)
  /\ buffer = <<>> /\ ~closed
  /\ recv_waiters' = Append(recv_waiters, t)
  /\ GoTo(t, "recvParking")
  /\ UNCHANGED <<buffer, closed, send_waiters, owes, historyVars>>

\* Empty and open: wait_receive on the entry thread.
ReceiveSpin ==
  /\ CallsReceive(Main)
  /\ buffer = <<>> /\ ~closed
  /\ GoTo(Main, "spinRecv")
  /\ UNCHANGED <<stateVars, owes, historyVars>>

\* The spin loop pops the front and admits no sender.
SpinReceiveDone ==
  /\ pc[Main] = "spinRecv"
  /\ buffer # <<>>
  /\ Obtain(Head(buffer))
  /\ taken' = Append(taken, Head(buffer))
  /\ buffer' = Tail(buffer)
  /\ mainSpun' = TRUE
  /\ Return(Main)
  /\ UNCHANGED <<closed, send_waiters, recv_waiters, taskVars, sent, asked, refused>>

\* Closed, or 30 s without a value: an error.
SpinReceiveGivesUp ==
  /\ pc[Main] = "spinRecv"
  /\ buffer = <<>>
  /\ Return(Main)
  /\ UNCHANGED <<stateVars, taskVars, sent, asked, historyVars>>

-----------------------------------------------------------------------------
\* aster_channel_close: both lists are drained, senders are woken first.
Close(u) ==
  /\ u \in Closers /\ pc[u] = "idle" /\ ~closed
  /\ closed' = TRUE
  /\ send_waiters' = <<>> /\ recv_waiters' = <<>>
  /\ refused' = refused \cup {send_waiters[i][2] : i \in DOMAIN send_waiters}
  /\ Owe(u, [i \in 1..Len(send_waiters) |-> Wakeup(send_waiters[i][1], "error", Nil)]
              \o [i \in 1..Len(recv_waiters) |-> Wakeup(recv_waiters[i], "error", Nil)])
  /\ UNCHANGED <<buffer, taskVars, sent, asked, taken, obtained, mainSpun>>

\* wake_thread, wake_thread_with_value or wake_thread_with_error: nothing
\* happens to a thread that was cancelled meanwhile.
WakeNext(u) ==
  /\ pc[u] = "waking"
  /\ LET w == Head(owes[u]) IN
       IF pc[w.to] = "died"
         THEN UNCHANGED <<woken, result, errorFlag>>
         ELSE /\ woken' = [woken EXCEPT ![w.to] = w.how]
              /\ result' = IF w.how = "value" THEN [result EXCEPT ![w.to] = w.val] ELSE result
              /\ errorFlag' = IF w.how = "error" THEN [errorFlag EXCEPT ![w.to] = TRUE] ELSE errorFlag
  /\ Owe(u, Tail(owes[u]))
  /\ UNCHANGED <<stateVars, cancelRequested, sent, asked, historyVars>>

\* The enlisted thread switches out; the worker saves its own error flag, which
\* is clear, over the thread's.
SwitchOut(t) ==
  /\ \/ pc[t] = "sendParking" /\ GoTo(t, "sendParked")
     \/ pc[t] = "recvParking" /\ GoTo(t, "recvParked")
  /\ errorFlag' = [errorFlag EXCEPT ![t] = FALSE]
  /\ UNCHANGED <<stateVars, owes, woken, result, cancelRequested, sent, asked, historyVars>>

\* A worker runs a woken thread; a receiver returns its result field unless
\* the error flag came with it.
Resume(t) ==
  /\ pc[t] \in {"sendParked", "recvParked"}
  /\ woken[t] # "no" /\ ~cancelRequested[t]
  /\ woken' = [woken EXCEPT ![t] = "no"]
  /\ errorFlag' = [errorFlag EXCEPT ![t] = FALSE]
  /\ IF pc[t] = "recvParked" /\ ~errorFlag[t] /\ result[t] # Nil
       THEN Obtain(result[t]) ELSE UNCHANGED obtained
  /\ GoTo(t, "idle")
  /\ UNCHANGED <<stateVars, owes, result, cancelRequested, sent, asked, refused, taken, mainSpun>>

\* cancel_thread: at once for a suspended or runnable thread, else a flag.
Cancel(t) ==
  /\ t \in Cancellable /\ ~cancelRequested[t]
  /\ cancelRequested' = [cancelRequested EXCEPT ![t] = TRUE]
  /\ IF pc[t] \in {"sendParked", "recvParked"} THEN GoTo(t, "died") ELSE UNCHANGED pc
  /\ UNCHANGED <<stateVars, owes, woken, result, errorFlag, sent, asked, historyVars>>

\* A safepoint, or the check before a woken thread runs, finds the flag.
DieCancelled(t) ==
  /\ cancelRequested[t]
  /\ pc[t] = "idle" \/ (pc[t] \in {"sendParked", "recvParked"} /\ woken[t] # "no")
  /\ GoTo(t, "died")
  /\ UNCHANGED <<stateVars, owes, taskVars, sent, asked, historyVars>>

-----------------------------------------------------------------------------
Send(u) ==
  \/ SendClosed(u)
  \/ SendDirect(u)
  \/ \E kind \in SendKinds : SendBuffer(u, kind) \/ SendRefused(u, kind)
  \/ "wait" \in SendKinds /\ SendEnlist(u)

Receive(u) ==
  \/ ReceiveBuffered(u)
  \/ \E kind \in RecvKinds : ReceiveNothing(u, kind)
  \/ "wait" \in RecvKinds /\ ReceiveEnlist(u)

MainSpin ==
  \/ "wait" \in SendKinds /\ SendSpin
  \/ SpinSendDone
  \/ SpinSendTimeout
  \/ "wait" \in RecvKinds /\ ReceiveSpin
  \/ SpinReceiveDone
  \/ SpinReceiveGivesUp

TaskStep(t) == SwitchOut(t) \/ Resume(t) \/ Cancel(t) \/ DieCancelled(t)

Next ==
  \/ \E u \in Users : Send(u) \/ Receive(u) \/ Close(u) \/ WakeNext(u)
  \/ MainSpin
  \/ \E t \in Tasks : TaskStep(t)

Spec == Init /\ [][Next]_vars

-----------------------------------------------------------------------------
(* Properties *)

\* The buffer never outgrows the capacity, the admission of a waiting sender
\* and the entry thread's spin loop included.
WithinCapacity == Len(buffer) <= capacity

\* Nobody is left waiting on a closed channel: close drains both lists, and no
\* operation enlists after it.
ClosedHasNoWaiters == closed => send_waiters = <<>> /\ recv_waiters = <<>>

\* No lost wake-up among green threads: senders wait only on a full buffer and
\* receivers only on an empty one, so not both, whatever was cancelled.
WaitersMatchBuffer ==
  ~mainSpun => /\ recv_waiters # <<>> => buffer = <<>>
               /\ send_waiters # <<>> => Len(buffer) = capacity

\* Where a message that was sent and not refused can be.
Copies(m) ==
  Cardinality({i \in DOMAIN buffer : buffer[i] = m})
    + Cardinality({i \in DOMAIN send_waiters : send_waiters[i][2] = m})
    + Cardinality({u \in Users : \E i \in DOMAIN owes[u] : owes[u][i].how = "value" /\ owes[u][i].val = m})
    + Cardinality({t \in Tasks : woken[t] = "value" /\ result[t] = m})
    + (IF pc[Main] = "spinSend" /\ m = <<Main, sent[Main]>> THEN 1 ELSE 0)
    + obtained[m]

\* Among green threads, while nobody is cancelled and the channel is open, a
\* message is neither lost nor duplicated: it is waiting, on its way to one
\* receiver, or was returned by exactly one receive.
ExactlyOnce ==
  ~mainSpun /\ ~closed /\ (\A t \in Tasks : ~cancelRequested[t])
    => \A m \in Messages :
         Copies(m) = IF m[2] <= sent[m[1]] /\ m \notin refused THEN 1 ELSE 0

\* Messages of one sender leave the channel in the order they were sent.
SenderOrder ==
  \A i, j \in DOMAIN taken : i < j /\ taken[i][1] = taken[j][1] => taken[i][2] < taken[j][2]

\* primitives.mdx: wait_receive suspends "until space/data is available", so no
\* receiver is suspended while the buffer holds data.
ReceiverWaitsOnlyWhenEmpty == recv_waiters # <<>> => buffer = <<>>

\* primitives.mdx: close wakes all waiters with errors, so a thread woken by
\* close still has its error flag when it runs.
CloseWakesWithError == \A t \in Tasks : woken[t] = "error" => errorFlag[t]
=============================================================================
