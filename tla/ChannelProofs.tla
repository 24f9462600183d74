--------------------------- MODULE ChannelProofs ---------------------------
(***************************************************************************)
(* What is proved of the channel for any users, any capacity and any       *)
(* number of operations: type correctness, that the buffer keeps within    *)
(* its capacity, that nobody waits on a closed channel, that nobody waits  *)
(* for what is there, that messages leave in the order they were sent and  *)
(* that none is lost or duplicated.                                        *)
(***************************************************************************)
EXTENDS Channel, FiniteSetTheorems, TLAPS

\* A user is in its wake-up loop as long as it owes one.
WakesOwed == \A u \in Users : pc[u] = "waking" <=> owes[u] # <<>>

\* The entry thread spins in wait_send with a message in its hand.
SpinSends == pc[Main] = "spinSend" => <<Main, sent[Main]>> \in Messages

TypeInv == TypeOK /\ WakesOwed /\ SpinSends

-----------------------------------------------------------------------------
(* Sequences, element by element *)

LEMMA FunctionIsSeq ==
  ASSUME NEW S, NEW n \in Nat, NEW f \in [1..n -> S]
  PROVE  f \in Seq(S) /\ Len(f) = n
OBVIOUS

LEMMA RestType ==
  ASSUME NEW S, NEW q \in Seq(S), q # <<>>
  PROVE  /\ Len(q) \in Nat \ {0} /\ q[Len(q)] \in S
         /\ Rest(q) \in Seq(S) /\ Len(Rest(q)) = Len(q) - 1
         /\ \A i \in 1..(Len(q) - 1) : Rest(q)[i] = q[i]
<1>1. Len(q) \in Nat \ {0} /\ q[Len(q)] \in S
  OBVIOUS
<1>2. Rest(q) = [i \in 1..(Len(q) - 1) |-> q[i]]
  BY <1>1 DEF Rest
<1>3. [i \in 1..(Len(q) - 1) |-> q[i]] \in [1..(Len(q) - 1) -> S]
  BY <1>1
<1>4. Rest(q) \in Seq(S) /\ Len(Rest(q)) = Len(q) - 1
  BY <1>1, <1>2, <1>3, FunctionIsSeq
<1> QED
  BY <1>1, <1>2, <1>4

LEMMA TailType ==
  ASSUME NEW S, NEW q \in Seq(S), q # <<>>
  PROVE  /\ Len(q) \in Nat \ {0} /\ Head(q) \in S /\ Head(q) = q[1]
         /\ Tail(q) \in Seq(S) /\ Len(Tail(q)) = Len(q) - 1
         /\ \A i \in 1..(Len(q) - 1) : Tail(q)[i] = q[i + 1]
OBVIOUS

LEMMA AppendType ==
  ASSUME NEW S, NEW q \in Seq(S), NEW x \in S
  PROVE  /\ Append(q, x) \in Seq(S) /\ Len(Append(q, x)) = Len(q) + 1
         /\ \A i \in 1..Len(q) : Append(q, x)[i] = q[i]
         /\ Append(q, x)[Len(q) + 1] = x
OBVIOUS

LEMMA ConcatType ==
  ASSUME NEW S, NEW p \in Seq(S), NEW q \in Seq(S)
  PROVE  /\ p \o q \in Seq(S) /\ Len(p \o q) = Len(p) + Len(q)
         /\ \A i \in 1..Len(p) : (p \o q)[i] = p[i]
         /\ \A i \in 1..Len(q) : (p \o q)[Len(p) + i] = q[i]
OBVIOUS

-----------------------------------------------------------------------------
(* Type correctness *)

LEMMA TypeInit == Init => TypeInv
<1> SUFFICES ASSUME Init PROVE TypeInv
  OBVIOUS
<1>1. /\ buffer \in Seq(Messages) /\ send_waiters \in Seq(Tasks \X Messages)
      /\ recv_waiters \in Seq(Tasks) /\ taken \in Seq(Messages)
  <2>1. buffer = <<>> /\ send_waiters = <<>> /\ recv_waiters = <<>> /\ taken = <<>>
    BY DEF Init
  <2> QED
    BY <2>1
<1>2. owes \in [Users -> Seq(Wakeups)]
  <2>1. owes = [u \in Users |-> <<>>]
    BY DEF Init
  <2> QED
    BY <2>1
<1>3. pc \in [Users -> Pcs] /\ closed \in BOOLEAN /\ mainSpun \in BOOLEAN /\ refused \subseteq Messages
  BY DEF Init, Pcs
<1>4. sent \in [Users -> 0..MaxSends] /\ asked \in [Users -> 0..MaxReceives]
  BY BoundsOK DEF Init
<1>5. /\ woken \in [Tasks -> {"no", "value", "plain", "error"}]
      /\ result \in [Tasks -> Messages \cup {Nil}]
      /\ errorFlag \in [Tasks -> BOOLEAN] /\ cancelRequested \in [Tasks -> BOOLEAN]
      /\ obtained \in [Messages -> Nat]
  BY DEF Init
<1>6. WakesOwed /\ SpinSends
  BY DEF Init, WakesOwed, SpinSends, Users
<1> QED
  BY <1>1, <1>2, <1>3, <1>4, <1>5, <1>6 DEF TypeInv, TypeOK

\* The message of a send that begins.
LEMMA MessageType ==
  ASSUME TypeInv, NEW u \in Users, CallsSend(u)
  PROVE  /\ sent' \in [Users -> 0..MaxSends]
         /\ Message(u) \in Messages /\ Message(u) = <<u, sent[u] + 1>>
         /\ \A v \in Users : v # u => sent'[v] = sent[v]
         /\ sent'[u] = sent[u] + 1
BY BoundsOK DEF TypeInv, TypeOK, CallsSend, Message, Messages

LEMMA AskedType ==
  ASSUME TypeInv, NEW u \in Users, CallsReceive(u)
  PROVE  asked' \in [Users -> 0..MaxReceives]
BY BoundsOK DEF TypeInv, TypeOK, CallsReceive

\* The end of a critical section, whatever wake-ups it owes.
LEMMA OweType ==
  ASSUME TypeInv, NEW u \in Users, NEW list \in Seq(Wakeups), Owe(u, list)
  PROVE  /\ pc' \in [Users -> Pcs] /\ owes' \in [Users -> Seq(Wakeups)]
         /\ WakesOwed'
         /\ pc'[Main] = "spinSend" => pc[Main] = "spinSend" /\ u # Main
<1> USE DEF TypeInv, TypeOK, Owe, GoTo, Pcs
<1>1. pc' \in [Users -> Pcs] /\ owes' \in [Users -> Seq(Wakeups)]
  OBVIOUS
<1>2. WakesOwed'
  BY DEF WakesOwed
<1>3. pc'[Main] = "spinSend" => pc[Main] = "spinSend" /\ u # Main
  BY DEF Users
<1> QED
  BY <1>1, <1>2, <1>3

LEMMA ReturnType ==
  ASSUME TypeInv, NEW u \in Users, Return(u)
  PROVE  /\ pc' \in [Users -> Pcs] /\ owes' \in [Users -> Seq(Wakeups)]
         /\ WakesOwed'
         /\ pc'[Main] = "spinSend" => pc[Main] = "spinSend" /\ u # Main
<1>1. <<>> \in Seq(Wakeups)
  OBVIOUS
<1> QED
  BY <1>1, OweType DEF Return

\* A step that only moves one user, and not into or out of its wake-up loop.
LEMMA GoToType ==
  ASSUME TypeInv, NEW u \in Users, NEW label \in Pcs \ {"waking"}, pc[u] # "waking",
         GoTo(u, label), UNCHANGED owes
  PROVE  /\ pc' \in [Users -> Pcs] /\ owes' \in [Users -> Seq(Wakeups)]
         /\ WakesOwed'
         /\ label # "spinSend" /\ pc'[Main] = "spinSend" => pc[Main] = "spinSend" /\ u # Main
<1> USE DEF TypeInv, TypeOK, GoTo
<1>1. pc' \in [Users -> Pcs] /\ owes' \in [Users -> Seq(Wakeups)]
  OBVIOUS
<1>2. WakesOwed'
  BY DEF WakesOwed
<1>3. label # "spinSend" /\ pc'[Main] = "spinSend" => pc[Main] = "spinSend" /\ u # Main
  BY DEF Users
<1> QED
  BY <1>1, <1>2, <1>3

LEMMA OneWakeup ==
  ASSUME NEW t \in Tasks, NEW how \in {"value", "plain", "error"}, NEW val \in Messages \cup {Nil}
  PROVE  /\ Wakeup(t, how, val) \in Wakeups
         /\ <<Wakeup(t, how, val)>> \in Seq(Wakeups) /\ <<Wakeup(t, how, val)>> # <<>>
<1>1. Wakeup(t, how, val) \in Wakeups
  BY DEF Wakeup, Wakeups
<1> QED
  BY <1>1

LEMMA TypeSend ==
  ASSUME TypeInv, NEW u \in Users, Send(u)
  PROVE  TypeInv'
<1> USE DEF TypeInv, TypeOK, stateVars, taskVars, historyVars
<1>0. CallsSend(u)
  BY DEF Send, SendClosed, SendDirect, SendBuffer, SendRefused, SendEnlist
<1>1. /\ sent' \in [Users -> 0..MaxSends] /\ Message(u) \in Messages
      /\ \A v \in Users : v # u => sent'[v] = sent[v]
      /\ UNCHANGED <<taskVars, asked>> /\ pc[u] = "idle"
  BY <1>0, MessageType DEF CallsSend
<1>2. CASE SendClosed(u)
  BY <1>1, <1>2, ReturnType DEF SendClosed, SpinSends, Users
<1>3. CASE SendDirect(u)
  <2>1. recv_waiters[Len(recv_waiters)] \in Tasks /\ Rest(recv_waiters) \in Seq(Tasks)
    BY <1>3, RestType DEF SendDirect, DirectDelivery
  <2>2. <<Wakeup(recv_waiters[Len(recv_waiters)], "value", Message(u))>> \in Seq(Wakeups)
    BY <1>1, <2>1, OneWakeup
  <2>3. taken' \in Seq(Messages)
    BY <1>1, <1>3, AppendType DEF SendDirect
  <2> QED
    BY <1>1, <1>3, <2>1, <2>2, <2>3, OweType DEF SendDirect, SpinSends, Users
<1>4. ASSUME NEW kind, SendBuffer(u, kind) PROVE TypeInv'
  <2>1. Append(buffer, Message(u)) \in Seq(Messages)
    BY <1>1
  <2>2. CASE kind # "try" /\ recv_waiters # <<>>
    <3>1. recv_waiters[Len(recv_waiters)] \in Tasks /\ Rest(recv_waiters) \in Seq(Tasks)
      BY <2>2, RestType
    <3>2. <<Wakeup(recv_waiters[Len(recv_waiters)], "plain", Nil)>> \in Seq(Wakeups)
      BY <3>1, OneWakeup
    <3> QED
      BY <1>1, <1>4, <2>1, <2>2, <3>1, <3>2, OweType DEF SendBuffer, SpinSends, Users
  <2>3. CASE ~(kind # "try" /\ recv_waiters # <<>>)
    BY <1>1, <1>4, <2>1, <2>3, ReturnType DEF SendBuffer, SpinSends, Users
  <2> QED
    BY <2>2, <2>3
<1>5. ASSUME NEW kind, SendRefused(u, kind) PROVE TypeInv'
  BY <1>1, <1>5, ReturnType DEF SendRefused, SpinSends, Users
<1>6. CASE SendEnlist(u)
  <2>1. Append(send_waiters, <<u, Message(u)>>) \in Seq(Tasks \X Messages)
    BY <1>1, <1>6 DEF SendEnlist
  <2>2. /\ pc' \in [Users -> Pcs] /\ owes' \in [Users -> Seq(Wakeups)] /\ WakesOwed'
        /\ pc'[Main] = "spinSend" => pc[Main] = "spinSend" /\ u # Main
    BY <1>1, <1>6, GoToType DEF SendEnlist, Pcs
  <2> QED
    BY <1>1, <1>6, <2>1, <2>2 DEF SendEnlist, SpinSends, Users
<1> QED
  BY <1>2, <1>3, <1>4, <1>5, <1>6 DEF Send

\* The value a receive returns, and the sender it admits.
LEMMA ObtainType ==
  ASSUME TypeInv, NEW m \in Messages, Obtain(m)
  PROVE  obtained' \in [Messages -> Nat]
BY DEF TypeInv, TypeOK, Obtain

LEMMA TypeReceive ==
  ASSUME TypeInv, NEW u \in Users, Receive(u)
  PROVE  TypeInv'
<1> USE DEF TypeInv, TypeOK, stateVars, taskVars, historyVars
<1>0. CallsReceive(u)
  BY DEF Receive, ReceiveBuffered, ReceiveNothing, ReceiveEnlist
<1>1. asked' \in [Users -> 0..MaxReceives] /\ UNCHANGED <<taskVars, sent>> /\ pc[u] = "idle"
  BY <1>0, AskedType DEF CallsReceive
<1>2. CASE ReceiveBuffered(u)
  <2>1. Head(buffer) \in Messages /\ Tail(buffer) \in Seq(Messages)
    BY <1>2 DEF ReceiveBuffered
  <2>2. obtained' \in [Messages -> Nat] /\ taken' \in Seq(Messages)
    <3>1. obtained' \in [Messages -> Nat]
      BY <1>2, <2>1, ObtainType DEF ReceiveBuffered
    <3>2. taken' \in Seq(Messages)
      BY <1>2, <2>1, AppendType DEF ReceiveBuffered
    <3> QED
      BY <3>1, <3>2
  <2>3. CASE send_waiters = <<>>
    BY <1>1, <1>2, <2>1, <2>2, <2>3, ReturnType DEF ReceiveBuffered, SpinSends
  <2>4. CASE send_waiters # <<>>
    <3> DEFINE last == send_waiters[Len(send_waiters)]
    <3>1. last \in Tasks \X Messages /\ Rest(send_waiters) \in Seq(Tasks \X Messages)
      BY <2>4, RestType
    <3>2. Append(Tail(buffer), last[2]) \in Seq(Messages)
      BY <2>1, <3>1
    <3>3. <<Wakeup(last[1], "plain", Nil)>> \in Seq(Wakeups)
      BY <3>1, OneWakeup
    <3> HIDE DEF last
    <3>4. /\ buffer' = Append(Tail(buffer), last[2])
          /\ send_waiters' = Rest(send_waiters)
          /\ Owe(u, <<Wakeup(last[1], "plain", Nil)>>)
          /\ UNCHANGED <<closed, recv_waiters, refused, mainSpun>>
      BY <1>2, <2>4 DEF ReceiveBuffered, last
    <3> QED
      BY <1>1, <2>2, <3>1, <3>2, <3>3, <3>4, OweType DEF SpinSends
  <2> QED
    BY <2>3, <2>4
<1>3. ASSUME NEW kind, ReceiveNothing(u, kind) PROVE TypeInv'
  BY <1>1, <1>3, ReturnType DEF ReceiveNothing, SpinSends
<1>4. CASE ReceiveEnlist(u)
  <2>1. Append(recv_waiters, u) \in Seq(Tasks)
    BY <1>4 DEF ReceiveEnlist
  <2> QED
    BY <1>1, <1>4, <2>1, GoToType DEF ReceiveEnlist, SpinSends, Pcs
<1> QED
  BY <1>2, <1>3, <1>4 DEF Receive

LEMMA TypeSpin ==
  ASSUME TypeInv, MainSpin
  PROVE  TypeInv'
<1> USE DEF TypeInv, TypeOK, stateVars, taskVars, historyVars
<1>0. Main \in Users
  BY DEF Users
<1>1. CASE SendSpin
  <2>1. sent' \in [Users -> 0..MaxSends] /\ <<Main, sent'[Main]>> \in Messages
    BY <1>0, <1>1, MessageType DEF SendSpin, Message
  <2> QED
    BY <1>0, <1>1, <2>1, GoToType DEF SendSpin, SpinSends, CallsSend, Pcs
<1>2. CASE SpinSendDone
  <2>1. <<Main, sent[Main]>> \in Messages
    BY <1>2 DEF SpinSendDone, SpinSends
  <2>2. Append(buffer, <<Main, sent[Main]>>) \in Seq(Messages)
    BY <2>1
  <2> QED
    BY <1>0, <1>2, <2>1, <2>2, ReturnType DEF SpinSendDone, SpinSends
<1>3. CASE SpinSendTimeout
  <2>1. <<Main, sent[Main]>> \in Messages
    BY <1>3 DEF SpinSendTimeout, SpinSends
  <2> QED
    BY <1>0, <1>3, <2>1, ReturnType DEF SpinSendTimeout, SpinSends
<1>4. CASE ReceiveSpin
  <2>1. asked' \in [Users -> 0..MaxReceives]
    BY <1>0, <1>4, AskedType DEF ReceiveSpin
  <2>2. /\ pc' \in [Users -> Pcs] /\ owes' \in [Users -> Seq(Wakeups)] /\ WakesOwed'
        /\ pc'[Main] # "spinSend"
    BY <1>0, <1>4, GoToType DEF ReceiveSpin, CallsReceive, Pcs
  <2> QED
    BY <1>4, <2>1, <2>2 DEF ReceiveSpin, CallsReceive, SpinSends
<1>5. CASE SpinReceiveDone
  <2>1. Head(buffer) \in Messages /\ Tail(buffer) \in Seq(Messages)
    BY <1>5 DEF SpinReceiveDone
  <2>2. obtained' \in [Messages -> Nat] /\ taken' \in Seq(Messages)
    <3>1. obtained' \in [Messages -> Nat]
      BY <1>5, <2>1, ObtainType DEF SpinReceiveDone
    <3>2. taken' \in Seq(Messages)
      BY <1>5, <2>1, AppendType DEF SpinReceiveDone
    <3> QED
      BY <3>1, <3>2
  <2> QED
    BY <1>0, <1>5, <2>1, <2>2, ReturnType DEF SpinReceiveDone, SpinSends
<1>6. CASE SpinReceiveGivesUp
  BY <1>0, <1>6, ReturnType DEF SpinReceiveGivesUp, SpinSends
<1> QED
  BY <1>1, <1>2, <1>3, <1>4, <1>5, <1>6 DEF MainSpin

\* The wake-ups a close owes: every sender it found waiting, then every receiver.
ErrorsTo(q) == [i \in 1..Len(q) |-> Wakeup(q[i], "error", Nil)]
ErrorsToSenders == [i \in 1..Len(send_waiters) |-> Wakeup(send_waiters[i][1], "error", Nil)]

LEMMA CloseWakes ==
  ASSUME TypeInv
  PROVE  /\ ErrorsToSenders \in Seq(Wakeups) /\ Len(ErrorsToSenders) = Len(send_waiters)
         /\ ErrorsTo(recv_waiters) \in Seq(Wakeups) /\ Len(ErrorsTo(recv_waiters)) = Len(recv_waiters)
         /\ ErrorsToSenders \o ErrorsTo(recv_waiters) \in Seq(Wakeups)
<1> USE DEF TypeInv, TypeOK
<1>1. \A t \in Tasks : Wakeup(t, "error", Nil) \in Wakeups
  BY OneWakeup
<1>2. ErrorsToSenders \in [1..Len(send_waiters) -> Wakeups]
  <2>1. \A i \in 1..Len(send_waiters) : send_waiters[i][1] \in Tasks
    OBVIOUS
  <2> QED
    BY <1>1, <2>1 DEF ErrorsToSenders
<1>3. ErrorsTo(recv_waiters) \in [1..Len(recv_waiters) -> Wakeups]
  BY <1>1 DEF ErrorsTo
<1>4. Len(send_waiters) \in Nat /\ Len(recv_waiters) \in Nat
  OBVIOUS
<1>5. /\ ErrorsToSenders \in Seq(Wakeups) /\ Len(ErrorsToSenders) = Len(send_waiters)
      /\ ErrorsTo(recv_waiters) \in Seq(Wakeups) /\ Len(ErrorsTo(recv_waiters)) = Len(recv_waiters)
  BY <1>2, <1>3, <1>4, FunctionIsSeq
<1> QED
  BY <1>5

LEMMA TypeClose ==
  ASSUME TypeInv, NEW u \in Users, Close(u)
  PROVE  TypeInv'
<1> USE DEF TypeInv, TypeOK, taskVars
<1>1. ErrorsToSenders \o ErrorsTo(recv_waiters) \in Seq(Wakeups)
  BY CloseWakes
<1>2. Owe(u, ErrorsToSenders \o ErrorsTo(recv_waiters))
  BY DEF Close, ErrorsToSenders, ErrorsTo
<1>3. refused' \subseteq Messages
  BY DEF Close
<1>4. send_waiters' \in Seq(Tasks \X Messages) /\ recv_waiters' \in Seq(Tasks)
  <2>1. send_waiters' = <<>> /\ recv_waiters' = <<>>
    BY DEF Close
  <2> QED
    BY <2>1
<1> QED
  BY <1>1, <1>2, <1>3, <1>4, OweType DEF Close, SpinSends

\* The wake-up at the head of what a user owes.
LEMMA HeadType ==
  ASSUME TypeInv, NEW u \in Users, pc[u] = "waking"
  PROVE  /\ owes[u] \in Seq(Wakeups) /\ owes[u] # <<>>
         /\ Head(owes[u]) \in Wakeups /\ Tail(owes[u]) \in Seq(Wakeups)
         /\ Head(owes[u]).to \in Tasks /\ Head(owes[u]).to \in Users
         /\ Head(owes[u]).how \in {"value", "plain", "error"}
         /\ Head(owes[u]).val \in Messages \cup {Nil}
<1>1. owes[u] \in Seq(Wakeups) /\ owes[u] # <<>>
  BY DEF TypeInv, TypeOK, WakesOwed
<1>2. Head(owes[u]) \in Wakeups /\ Tail(owes[u]) \in Seq(Wakeups)
  BY <1>1
<1> QED
  BY <1>1, <1>2 DEF Wakeups, Users

LEMMA TypeWake ==
  ASSUME TypeInv, NEW u \in Users, WakeNext(u)
  PROVE  TypeInv'
<1> USE DEF TypeInv, TypeOK, stateVars, historyVars
<1> DEFINE w == Head(owes[u])
<1>1. /\ Tail(owes[u]) \in Seq(Wakeups) /\ w.to \in Tasks
      /\ w.how \in {"value", "plain", "error"} /\ w.val \in Messages \cup {Nil}
  BY HeadType DEF WakeNext
<1>2. /\ Owe(u, Tail(owes[u]))
      /\ UNCHANGED <<buffer, closed, send_waiters, recv_waiters, cancelRequested, sent, asked,
                     refused, taken, obtained, mainSpun>>
  BY DEF WakeNext
<1>3. /\ woken' \in [Tasks -> {"no", "value", "plain", "error"}]
      /\ result' \in [Tasks -> Messages \cup {Nil}] /\ errorFlag' \in [Tasks -> BOOLEAN]
  <2>1. CASE pc[w.to] = "died"
    BY <2>1 DEF WakeNext
  <2>2. CASE pc[w.to] # "died"
    <3>1. /\ woken' = [woken EXCEPT ![w.to] = w.how]
          /\ result' = IF w.how = "value" THEN [result EXCEPT ![w.to] = w.val] ELSE result
          /\ errorFlag' = IF w.how = "error" THEN [errorFlag EXCEPT ![w.to] = TRUE] ELSE errorFlag
      BY <2>2 DEF WakeNext
    <3> HIDE DEF w
    <3> QED
      BY <1>1, <3>1
  <2> QED
    BY <2>1, <2>2
<1> QED
  BY <1>1, <1>2, <1>3, OweType DEF SpinSends

LEMMA TypeTask ==
  ASSUME TypeInv, NEW t \in Tasks, TaskStep(t)
  PROVE  TypeInv'
<1> USE DEF TypeInv, TypeOK, stateVars, historyVars, taskVars
<1>0. t \in Users /\ t # Main
  BY UsersOK DEF Users
<1>1. CASE SwitchOut(t)
  BY <1>0, <1>1, GoToType DEF SwitchOut, SpinSends, Pcs
<1>2. CASE Resume(t)
  <2>1. obtained' \in [Messages -> Nat]
    <3>1. result[t] # Nil => result[t] \in Messages
      OBVIOUS
    <3> QED
      BY <1>2, <3>1, ObtainType DEF Resume
  <2>2. /\ pc' \in [Users -> Pcs] /\ owes' \in [Users -> Seq(Wakeups)] /\ WakesOwed'
        /\ pc'[Main] = "spinSend" => pc[Main] = "spinSend"
    BY <1>0, <1>2, GoToType DEF Resume, Pcs
  <2>3. woken' \in [Tasks -> {"no", "value", "plain", "error"}] /\ errorFlag' \in [Tasks -> BOOLEAN]
    BY <1>2 DEF Resume
  <2> QED
    BY <1>2, <2>1, <2>2, <2>3 DEF Resume, SpinSends
<1>3. CASE Cancel(t)
  <2>1. CASE pc[t] \in {"sendParked", "recvParked"}
    BY <1>0, <1>3, <2>1, GoToType DEF Cancel, SpinSends, Pcs
  <2>2. CASE pc[t] \notin {"sendParked", "recvParked"}
    BY <1>3, <2>2 DEF Cancel, SpinSends, WakesOwed
  <2> QED
    BY <2>1, <2>2
<1>4. CASE DieCancelled(t)
  BY <1>0, <1>4, GoToType DEF DieCancelled, SpinSends, Pcs
<1> QED
  BY <1>1, <1>2, <1>3, <1>4 DEF TaskStep

LEMMA TypeNext == TypeInv /\ [Next]_vars => TypeInv'
<1> SUFFICES ASSUME TypeInv, [Next]_vars PROVE TypeInv'
  OBVIOUS
<1>1. CASE UNCHANGED vars
  BY <1>1 DEF TypeInv, TypeOK, WakesOwed, SpinSends, vars, stateVars, taskVars, historyVars
<1> QED
  BY <1>1, TypeSend, TypeReceive, TypeSpin, TypeClose, TypeWake, TypeTask DEF Next

LEMMA TypeInvariant == Spec => []TypeInv
BY TypeInit, TypeNext, PTL DEF Spec

\* Type correctness of AsterChannelState and of its users' progress: every
\* wake-up, result and waiter entry is about a green thread and a message sent.
THEOREM TypeCorrect == Spec => []TypeOK
<1>1. TypeInv => TypeOK
  BY DEF TypeInv
<1> QED
  BY <1>1, TypeInvariant, PTL

-----------------------------------------------------------------------------
(* The buffer and the two lists                                            *)
(*                                                                         *)
(* How long each can be after a step: every step leaves the three of them  *)
(* alone, closes the channel or moves one entry.                           *)

LEMMA CapacityType == capacity \in Nat \ {0} /\ capacity' = capacity
BY BoundsOK DEF capacity

StateInv == WithinCapacity /\ ClosedHasNoWaiters /\ WaitersMatchBuffer

LEMMA StateSend ==
  ASSUME TypeInv, StateInv, NEW u \in Users, Send(u)
  PROVE  StateInv'
<1> USE CapacityType DEF TypeInv, TypeOK, StateInv, WithinCapacity, ClosedHasNoWaiters, WaitersMatchBuffer,
                         stateVars, historyVars
<1>1. CASE SendClosed(u)
  BY <1>1 DEF SendClosed
<1>2. CASE SendDirect(u)
  BY <1>2 DEF SendDirect, DirectDelivery
<1>3. ASSUME NEW kind, SendBuffer(u, kind) PROVE StateInv'
  <2>1. ~closed /\ ~DirectDelivery /\ Len(buffer) < capacity
    BY <1>3 DEF SendBuffer, Full
  <2>2. buffer' = Append(buffer, Message(u)) /\ Message(u) \in Messages
    BY <1>3, MessageType DEF SendBuffer
  <2>3. Len(buffer') = Len(buffer) + 1
    BY <2>2, AppendType
  <2>4. UNCHANGED <<closed, send_waiters, mainSpun>>
    BY <1>3 DEF SendBuffer
  <2>5. ~mainSpun => recv_waiters = <<>> /\ send_waiters = <<>>
    <3>1. ~mainSpun => recv_waiters = <<>>
      BY <2>1 DEF DirectDelivery
    <3>2. ~mainSpun => send_waiters = <<>>
      BY <2>1
    <3> QED
      BY <3>1, <3>2
  <2>6. recv_waiters = <<>> => recv_waiters' = <<>>
    BY <1>3 DEF SendBuffer
  <2> QED
    BY <2>1, <2>3, <2>4, <2>5, <2>6
<1>4. ASSUME NEW kind, SendRefused(u, kind) PROVE StateInv'
  BY <1>4 DEF SendRefused
<1>5. CASE SendEnlist(u)
  <2>1. ~closed /\ Len(buffer) = capacity /\ UNCHANGED <<buffer, closed, recv_waiters, mainSpun>>
    BY <1>5 DEF SendEnlist, Full
  <2> QED
    BY <2>1
<1> QED
  BY <1>1, <1>2, <1>3, <1>4, <1>5 DEF Send

LEMMA StateReceive ==
  ASSUME TypeInv, StateInv, NEW u \in Users, Receive(u)
  PROVE  StateInv'
<1> USE CapacityType DEF TypeInv, TypeOK, StateInv, WithinCapacity, ClosedHasNoWaiters, WaitersMatchBuffer,
                         stateVars, historyVars
<1>1. CASE ReceiveBuffered(u)
  <2>1. /\ Len(buffer) \in Nat \ {0} /\ Tail(buffer) \in Seq(Messages) /\ Len(Tail(buffer)) = Len(buffer) - 1
        /\ UNCHANGED <<closed, recv_waiters, mainSpun>> /\ buffer # <<>>
    BY <1>1, TailType DEF ReceiveBuffered
  <2>2. CASE send_waiters = <<>>
    <3>1. buffer' = Tail(buffer) /\ send_waiters' = <<>>
      BY <1>1, <2>2 DEF ReceiveBuffered
    <3>2. Len(buffer') = Len(buffer) - 1 /\ Len(buffer) \in Nat
      BY <2>1, <3>1
    <3>3. WithinCapacity'
      BY <3>2
    <3>4. ClosedHasNoWaiters'
      BY <2>1, <3>1
    <3>5. WaitersMatchBuffer'
      BY <2>1, <3>1
    <3> QED
      BY <3>3, <3>4, <3>5
  <2>3. CASE send_waiters # <<>>
    <3>1. send_waiters[Len(send_waiters)][2] \in Messages /\ ~closed
      <4>1. send_waiters[Len(send_waiters)] \in Tasks \X Messages
        BY <2>3, RestType
      <4> QED
        BY <2>3, <4>1
    <3>2. buffer' = Append(Tail(buffer), send_waiters[Len(send_waiters)][2])
      BY <1>1, <2>3 DEF ReceiveBuffered
    <3>3. Len(buffer') = Len(buffer)
      BY <2>1, <3>1, <3>2, AppendType
    <3> QED
      BY <2>1, <2>3, <3>1, <3>3
  <2> QED
    BY <2>2, <2>3
<1>2. ASSUME NEW kind, ReceiveNothing(u, kind) PROVE StateInv'
  BY <1>2 DEF ReceiveNothing
<1>3. CASE ReceiveEnlist(u)
  BY <1>3 DEF ReceiveEnlist
<1> QED
  BY <1>1, <1>2, <1>3 DEF Receive

LEMMA StateSpin ==
  ASSUME TypeInv, StateInv, MainSpin
  PROVE  StateInv'
<1> USE CapacityType DEF TypeInv, TypeOK, StateInv, WithinCapacity, ClosedHasNoWaiters, WaitersMatchBuffer,
                         stateVars, historyVars
<1>1. CASE SendSpin
  BY <1>1 DEF SendSpin
<1>2. CASE SpinSendDone
  <2>1. CASE closed
    BY <1>2, <2>1 DEF SpinSendDone
  <2>2. CASE ~closed
    <3>1. <<Main, sent[Main]>> \in Messages /\ Len(buffer) < capacity
      BY <1>2, <2>2 DEF SpinSendDone, SpinSends, Full
    <3>2. Len(buffer') = Len(buffer) + 1
      <4>1. buffer' = Append(buffer, <<Main, sent[Main]>>)
        BY <1>2, <2>2 DEF SpinSendDone
      <4> QED
        BY <3>1, <4>1, AppendType
    <3>3. mainSpun' = TRUE /\ UNCHANGED closed
      BY <1>2, <2>2 DEF SpinSendDone
    <3> QED
      BY <2>2, <3>1, <3>2, <3>3
  <2> QED
    BY <2>1, <2>2
<1>3. CASE SpinSendTimeout
  BY <1>3 DEF SpinSendTimeout
<1>4. CASE ReceiveSpin
  BY <1>4 DEF ReceiveSpin
<1>5. CASE SpinReceiveDone
  <2>1. Len(buffer') = Len(buffer) - 1 /\ Len(buffer) \in Nat
    BY <1>5, TailType DEF SpinReceiveDone
  <2>2. mainSpun' = TRUE /\ UNCHANGED <<closed, send_waiters, recv_waiters>>
    BY <1>5 DEF SpinReceiveDone
  <2> QED
    BY <2>1, <2>2
<1>6. CASE SpinReceiveGivesUp
  BY <1>6 DEF SpinReceiveGivesUp
<1> QED
  BY <1>1, <1>2, <1>3, <1>4, <1>5, <1>6 DEF MainSpin

\* Waking, switching, resuming and dying do not touch the channel.
LEMMA StepsOutside ==
  /\ \A u \in Users : WakeNext(u) => UNCHANGED <<stateVars, sent, refused, taken, obtained, mainSpun>>
  /\ \A t \in Tasks : TaskStep(t) => UNCHANGED <<stateVars, sent, refused, taken, mainSpun>>
BY DEF WakeNext, TaskStep, SwitchOut, Resume, Cancel, DieCancelled, stateVars, taskVars, historyVars

LEMMA StateNext == TypeInv /\ StateInv /\ [Next]_vars => StateInv'
<1> SUFFICES ASSUME TypeInv, StateInv, [Next]_vars PROVE StateInv'
  OBVIOUS
<1>1. ASSUME UNCHANGED <<stateVars, mainSpun>> PROVE StateInv'
  BY <1>1 DEF StateInv, WithinCapacity, ClosedHasNoWaiters, WaitersMatchBuffer, stateVars
<1>2. ASSUME NEW u \in Users, Close(u) PROVE StateInv'
  BY <1>2 DEF Close, StateInv, WithinCapacity, ClosedHasNoWaiters, WaitersMatchBuffer
<1>3. CASE UNCHANGED vars
  BY <1>1, <1>3 DEF vars, historyVars
<1> QED
  BY <1>1, <1>2, <1>3, StateSend, StateReceive, StateSpin, StepsOutside DEF Next

LEMMA StateInvariant == Spec => []StateInv
<1>1. Init => StateInv
  <2> SUFFICES ASSUME Init PROVE StateInv
    OBVIOUS
  <2>1. buffer = <<>> /\ send_waiters = <<>> /\ recv_waiters = <<>> /\ Len(buffer) = 0
    BY DEF Init
  <2> QED
    BY <2>1, CapacityType DEF StateInv, WithinCapacity, ClosedHasNoWaiters, WaitersMatchBuffer
<1> QED
  BY <1>1, StateNext, TypeInvariant, PTL DEF Spec

\* The buffer never outgrows the capacity asked for (64 if none was), through
\* the sends, the admission of a waiting sender by a receive, and the spin loop.
THEOREM NeverOverfull == Spec => []WithinCapacity
<1>1. StateInv => WithinCapacity
  BY DEF StateInv
<1> QED
  BY <1>1, StateInvariant, PTL

\* aster_channel_close leaves nobody enlisted, and nobody enlists after it.
THEOREM CloseDrains == Spec => []ClosedHasNoWaiters
<1>1. StateInv => ClosedHasNoWaiters
  BY DEF StateInv
<1> QED
  BY <1>1, StateInvariant, PTL

\* No lost wake-up among green threads, whatever is cancelled: a sender is
\* enlisted only while the buffer is full and a receiver only while it is empty.
THEOREM WaitersHaveReason == Spec => []WaitersMatchBuffer
<1>1. StateInv => WaitersMatchBuffer
  BY DEF StateInv
<1> QED
  BY <1>1, StateInvariant, PTL

-----------------------------------------------------------------------------
(* One waker                                                               *)
(*                                                                         *)
(* A green thread that waits is enlisted once, in one list, or somebody's  *)
(* last critical section owes it one wake-up, or it was woken once: never  *)
(* two of these, so that a wake-up cannot reach a later wait of its thread.*)

SendPcs == {"sendParking", "sendParked"}
RecvPcs == {"recvParking", "recvParked"}

InSend(t) == \E i \in DOMAIN send_waiters : send_waiters[i][1] = t
InRecv(t) == \E i \in DOMAIN recv_waiters : recv_waiters[i] = t
Owed(t) == \E u \in Users : \E i \in DOMAIN owes[u] : owes[u][i].to = t

SendDistinct == \A i, j \in DOMAIN send_waiters : send_waiters[i][1] = send_waiters[j][1] => i = j
RecvDistinct == \A i, j \in DOMAIN recv_waiters : recv_waiters[i] = recv_waiters[j] => i = j
OwesDistinct ==
  \A u, v \in Users : \A i \in DOMAIN owes[u], j \in DOMAIN owes[v] :
    owes[u][i].to = owes[v][j].to => u = v /\ i = j

OneWaker ==
  \A t \in Tasks :
    /\ InSend(t) => pc[t] \in SendPcs \cup {"died"} /\ ~InRecv(t) /\ ~Owed(t) /\ woken[t] = "no"
    /\ InRecv(t) => pc[t] \in RecvPcs \cup {"died"} /\ ~Owed(t) /\ woken[t] = "no"
    /\ Owed(t) => pc[t] \in SendPcs \cup RecvPcs \cup {"died"} /\ woken[t] = "no"
    /\ woken[t] # "no" => pc[t] \in SendPcs \cup RecvPcs \cup {"died"}

WakerInv == SendDistinct /\ RecvDistinct /\ OwesDistinct /\ OneWaker

\* A user outside its wake-up loop owes nothing; one that owes is not waiting.
LEMMA OwesNothing ==
  ASSUME TypeInv, NEW u \in Users, pc[u] # "waking"
  PROVE  owes[u] = <<>>
BY DEF TypeInv, WakesOwed

LEMMA NobodyWakes ==
  ASSUME TypeInv, NEW u \in Users, pc[u] # "waking", Return(u)
  PROVE  UNCHANGED owes /\ pc' = [pc EXCEPT ![u] = "idle"]
<1>1. owes[u] = <<>> /\ owes \in [Users -> Seq(Wakeups)]
  BY OwesNothing DEF TypeInv, TypeOK
<1> QED
  BY <1>1 DEF Return, Owe, GoTo

\* A critical section that owes one wake-up.
LEMMA OwesOne ==
  ASSUME TypeInv, NEW u \in Users, pc[u] = "idle", NEW w \in Wakeups, Owe(u, <<w>>)
  PROVE  /\ pc' = [pc EXCEPT ![u] = "waking"]
         /\ owes' = [owes EXCEPT ![u] = <<w>>]
         /\ DOMAIN owes'[u] = {1} /\ owes'[u][1] = w
         /\ \A v \in Users : v # u => owes'[v] = owes[v]
         /\ \A t : Owed(t)' <=> Owed(t) \/ t = w.to
         /\ OwesDistinct /\ ~Owed(w.to) => OwesDistinct'
<1>1. owes[u] = <<>> /\ owes \in [Users -> Seq(Wakeups)]
  BY OwesNothing DEF TypeInv, TypeOK
<1>2. pc' = [pc EXCEPT ![u] = "waking"] /\ owes' = [owes EXCEPT ![u] = <<w>>]
  BY DEF Owe, GoTo
<1>3. /\ DOMAIN owes'[u] = {1} /\ owes'[u][1] = w
      /\ \A v \in Users : v # u => owes'[v] = owes[v]
  BY <1>1, <1>2
<1>4. DOMAIN owes[u] = {}
  BY <1>1
<1>5. \A t : Owed(t)' <=> Owed(t) \/ t = w.to
  BY <1>3, <1>4, Zenon DEF Owed
<1>6. OwesDistinct /\ ~Owed(w.to) => OwesDistinct'
  BY <1>3, <1>4 DEF Owed, OwesDistinct
<1> QED
  BY <1>2, <1>3, <1>5, <1>6

\* The last entry of a list is taken off.
LEMMA PopsRecv ==
  ASSUME TypeInv, RecvDistinct, recv_waiters # <<>>, recv_waiters' = Rest(recv_waiters)
  PROVE  /\ recv_waiters[Len(recv_waiters)] \in Tasks
         /\ InRecv(recv_waiters[Len(recv_waiters)])
         /\ \A t : InRecv(t)' <=> InRecv(t) /\ t # recv_waiters[Len(recv_waiters)]
         /\ RecvDistinct'
<1> DEFINE n == Len(recv_waiters)
<1>1. /\ n \in Nat \ {0} /\ recv_waiters[n] \in Tasks
      /\ recv_waiters' \in Seq(Tasks) /\ Len(recv_waiters') = n - 1
      /\ \A i \in 1..(n - 1) : recv_waiters'[i] = recv_waiters[i]
  BY RestType DEF TypeInv, TypeOK
<1>2. DOMAIN recv_waiters = 1..n /\ DOMAIN recv_waiters' = 1..(n - 1)
  BY <1>1 DEF TypeInv, TypeOK
<1> HIDE DEF n
<1>3. \A t : InRecv(t)' <=> InRecv(t) /\ t # recv_waiters[n]
  BY <1>1, <1>2 DEF InRecv, RecvDistinct
<1>4. InRecv(recv_waiters[n])
  BY <1>1, <1>2 DEF InRecv
<1>5. RecvDistinct'
  BY <1>1, <1>2 DEF RecvDistinct
<1> QED
  BY <1>1, <1>3, <1>4, <1>5 DEF n

LEMMA PopsSend ==
  ASSUME TypeInv, SendDistinct, send_waiters # <<>>, send_waiters' = Rest(send_waiters)
  PROVE  /\ send_waiters[Len(send_waiters)] \in Tasks \X Messages
         /\ InSend(send_waiters[Len(send_waiters)][1])
         /\ \A t : InSend(t)' <=> InSend(t) /\ t # send_waiters[Len(send_waiters)][1]
         /\ SendDistinct'
<1> DEFINE n == Len(send_waiters)
<1>1. /\ n \in Nat \ {0} /\ send_waiters[n] \in Tasks \X Messages
      /\ send_waiters' \in Seq(Tasks \X Messages) /\ Len(send_waiters') = n - 1
      /\ \A i \in 1..(n - 1) : send_waiters'[i] = send_waiters[i]
  BY RestType DEF TypeInv, TypeOK
<1>2. DOMAIN send_waiters = 1..n /\ DOMAIN send_waiters' = 1..(n - 1)
  BY <1>1 DEF TypeInv, TypeOK
<1> HIDE DEF n
<1>3. \A t : InSend(t)' <=> InSend(t) /\ t # send_waiters[n][1]
  BY <1>1, <1>2 DEF InSend, SendDistinct
<1>4. InSend(send_waiters[n][1])
  BY <1>1, <1>2 DEF InSend
<1>5. SendDistinct'
  BY <1>1, <1>2 DEF SendDistinct
<1> QED
  BY <1>1, <1>3, <1>4, <1>5 DEF n

\* A task enlists.
LEMMA EnlistsSend ==
  ASSUME TypeInv, NEW t \in Tasks, NEW m \in Messages, send_waiters' = Append(send_waiters, <<t, m>>)
  PROVE  /\ \A s : InSend(s)' <=> InSend(s) \/ s = t
         /\ SendDistinct /\ ~InSend(t) => SendDistinct'
<1> DEFINE n == Len(send_waiters)
<1>1. /\ n \in Nat /\ Len(send_waiters') = n + 1 /\ send_waiters' \in Seq(Tasks \X Messages)
      /\ \A i \in 1..n : send_waiters'[i] = send_waiters[i]
      /\ send_waiters'[n + 1] = <<t, m>>
  BY AppendType DEF TypeInv, TypeOK
<1>2. DOMAIN send_waiters = 1..n /\ DOMAIN send_waiters' = 1..(n + 1)
  BY <1>1 DEF TypeInv, TypeOK
<1> HIDE DEF n
<1>3. \A s : InSend(s)' <=> InSend(s) \/ s = t
  BY <1>1, <1>2 DEF InSend
<1>4. SendDistinct /\ ~InSend(t) => SendDistinct'
  BY <1>1, <1>2 DEF InSend, SendDistinct
<1> QED
  BY <1>3, <1>4

LEMMA EnlistsRecv ==
  ASSUME TypeInv, NEW t \in Tasks, recv_waiters' = Append(recv_waiters, t)
  PROVE  /\ \A s : InRecv(s)' <=> InRecv(s) \/ s = t
         /\ RecvDistinct /\ ~InRecv(t) => RecvDistinct'
<1> DEFINE n == Len(recv_waiters)
<1>1. /\ n \in Nat /\ Len(recv_waiters') = n + 1 /\ recv_waiters' \in Seq(Tasks)
      /\ \A i \in 1..n : recv_waiters'[i] = recv_waiters[i]
      /\ recv_waiters'[n + 1] = t
  BY AppendType DEF TypeInv, TypeOK
<1>2. DOMAIN recv_waiters = 1..n /\ DOMAIN recv_waiters' = 1..(n + 1)
  BY <1>1 DEF TypeInv, TypeOK
<1> HIDE DEF n
<1>3. \A s : InRecv(s)' <=> InRecv(s) \/ s = t
  BY <1>1, <1>2 DEF InRecv
<1>4. RecvDistinct /\ ~InRecv(t) => RecvDistinct'
  BY <1>1, <1>2 DEF InRecv, RecvDistinct
<1> QED
  BY <1>3, <1>4

\* A close owes a wake-up to everybody it found enlisted, and to nobody else.
LEMMA CloseOwes ==
  ASSUME TypeInv, SendDistinct, RecvDistinct, OwesDistinct, OneWaker, NEW u \in Users, Close(u)
  PROVE  /\ pc' \in [Users -> Pcs] /\ \A v \in Users : v # u => pc'[v] = pc[v] /\ owes'[v] = owes[v]
         /\ pc'[u] \in {"idle", "waking"}
         /\ \A i \in DOMAIN owes'[u] : owes'[u][i].how = "error"
         /\ \A t : Owed(t)' => Owed(t) \/ InSend(t) \/ InRecv(t)
         /\ OwesDistinct'
<1> DEFINE n == Len(send_waiters)
           k == Len(recv_waiters)
           senders == ErrorsToSenders
           receivers == ErrorsTo(recv_waiters)
           list == senders \o receivers
<1>1. list \in Seq(Wakeups) /\ Owe(u, list) /\ n \in Nat /\ k \in Nat
  BY CloseWakes DEF Close, ErrorsToSenders, ErrorsTo, TypeInv, TypeOK
<1>2. /\ DOMAIN send_waiters = 1..n /\ DOMAIN recv_waiters = 1..k
      /\ \A i \in 1..n : send_waiters[i][1] \in Tasks
      /\ \A i \in 1..k : recv_waiters[i] \in Tasks
  BY DEF TypeInv, TypeOK
<1>3. /\ senders \in Seq(Wakeups) /\ Len(senders) = n
      /\ receivers \in Seq(Wakeups) /\ Len(receivers) = k
  BY CloseWakes
<1>4. /\ \A i \in 1..n : senders[i].to = send_waiters[i][1] /\ senders[i].how = "error"
      /\ \A i \in 1..k : receivers[i].to = recv_waiters[i] /\ receivers[i].how = "error"
  BY DEF ErrorsToSenders, ErrorsTo, Wakeup
<1> HIDE DEF n, k, senders, receivers
<1>5. /\ Len(list) = n + k
      /\ \A i \in 1..n : list[i] = senders[i]
      /\ \A i \in 1..k : list[n + i] = receivers[i]
  BY <1>1, <1>3
<1> HIDE DEF list
<1>6. \A i \in 1..(n + k) :
         \/ i \in 1..n /\ list[i].to = send_waiters[i][1] /\ list[i].how = "error"
         \/ i - n \in 1..k /\ list[i].to = recv_waiters[i - n] /\ list[i].how = "error"
  <2> TAKE i \in 1..(n + k)
  <2>1. CASE i \in 1..n
    BY <2>1, <1>4, <1>5
  <2>2. CASE i \notin 1..n
    <3>1. i - n \in 1..k /\ i = n + (i - n)
      BY <2>2, <1>1
    <3>2. list[n + (i - n)] = receivers[i - n]
      BY <3>1, <1>5
    <3> QED
      BY <3>1, <3>2, <1>4
  <2> QED
    BY <2>1, <2>2
<1>7. DOMAIN list = 1..(n + k)
  BY <1>1, <1>5
<1>8. /\ owes[u] = <<>> /\ DOMAIN owes[u] = {}
      /\ owes'[u] = list /\ \A v \in Users : v # u => owes'[v] = owes[v]
  <2>1. pc[u] # "waking"
    BY DEF Close
  <2>2. owes[u] = <<>>
    BY <2>1, OwesNothing
  <2>3. owes'[u] = list /\ \A v \in Users : v # u => owes'[v] = owes[v]
    BY <1>1 DEF Owe, TypeInv, TypeOK
  <2> QED
    BY <2>2, <2>3
<1>9. \A i \in 1..(n + k) : InSend(list[i].to) \/ InRecv(list[i].to)
  BY <1>2, <1>6 DEF InSend, InRecv
<1>10. \A i, j \in 1..(n + k) : list[i].to = list[j].to => i = j
  <2> SUFFICES ASSUME NEW i \in 1..(n + k), NEW j \in 1..(n + k), list[i].to = list[j].to
               PROVE  i = j
    OBVIOUS
  <2>1. \A p \in 1..n, q \in 1..k : send_waiters[p][1] # recv_waiters[q]
    <3> TAKE p \in 1..n, q \in 1..k
    <3>1. InSend(send_waiters[p][1])
      BY <1>2 DEF InSend
    <3>2. InRecv(recv_waiters[q])
      BY <1>2 DEF InRecv
    <3> QED
      BY <1>2, <3>1, <3>2 DEF OneWaker
  <2>2. CASE i \in 1..n /\ list[i].to = send_waiters[i][1]
    <3>1. j \in 1..n /\ list[j].to = send_waiters[j][1]
      BY <1>6, <2>1, <2>2
    <3> QED
      BY <1>2, <2>2, <3>1 DEF SendDistinct
  <2>3. CASE i - n \in 1..k /\ list[i].to = recv_waiters[i - n]
    <3>1. j - n \in 1..k /\ list[j].to = recv_waiters[j - n]
      BY <1>6, <2>1, <2>3
    <3>2. i - n = j - n
      BY <1>2, <2>3, <3>1 DEF RecvDistinct
    <3> QED
      BY <1>1, <3>2
  <2> QED
    BY <1>6, <2>2, <2>3
<1>11. \A t : Owed(t)' => Owed(t) \/ InSend(t) \/ InRecv(t)
  <2> SUFFICES ASSUME NEW t, Owed(t)' PROVE Owed(t) \/ InSend(t) \/ InRecv(t)
    OBVIOUS
  <2>1. PICK v \in Users : \E i \in DOMAIN owes'[v] : owes'[v][i].to = t
    BY DEF Owed
  <2>2. CASE v = u
    BY <1>7, <1>8, <1>9, <2>1, <2>2
  <2>3. CASE v # u
    BY <1>8, <2>1, <2>3 DEF Owed
  <2> QED
    BY <2>2, <2>3
<1>12. OwesDistinct'
  <2> SUFFICES ASSUME NEW v \in Users, NEW w \in Users,
                      NEW i \in DOMAIN owes'[v], NEW j \in DOMAIN owes'[w],
                      owes'[v][i].to = owes'[w][j].to
               PROVE  v = w /\ i = j
    BY DEF OwesDistinct
  <2>0. ASSUME NEW x \in Users, NEW p \in DOMAIN owes[x]
        PROVE  ~InSend(owes[x][p].to) /\ ~InRecv(owes[x][p].to)
    <3>1. owes[x][p].to \in Tasks
      <4>1. owes[x] \in Seq(Wakeups)
        BY DEF TypeInv, TypeOK
      <4>2. owes[x][p] \in Wakeups
        BY <2>0, <4>1
      <4> QED
        BY <4>2 DEF Wakeups
    <3>2. Owed(owes[x][p].to)
      BY <2>0 DEF Owed
    <3> QED
      BY <3>1, <3>2 DEF OneWaker
  <2>1. CASE v = u /\ w = u
    BY <1>7, <1>8, <1>10, <2>1
  <2>2. CASE v = u /\ w # u
    BY <1>7, <1>8, <1>9, <2>0, <2>2
  <2>3. CASE v # u /\ w = u
    <3>1. j \in 1..(n + k) /\ i \in DOMAIN owes[v] /\ owes[v][i].to = list[j].to
      BY <1>7, <1>8, <2>3
    <3>2. ~InSend(list[j].to) /\ ~InRecv(list[j].to)
      BY <2>0, <3>1
    <3> QED
      BY <1>9, <3>1, <3>2
  <2>4. CASE v # u /\ w # u
    BY <1>8, <2>4 DEF OwesDistinct
  <2> QED
    BY <2>1, <2>2, <2>3, <2>4
<1>13. /\ pc' \in [Users -> Pcs] /\ \A v \in Users : v # u => pc'[v] = pc[v]
       /\ pc'[u] \in {"idle", "waking"}
  BY <1>1 DEF Owe, GoTo, Pcs, TypeInv, TypeOK
<1>14. \A i \in DOMAIN owes'[u] : owes'[u][i].how = "error"
  BY <1>6, <1>7, <1>8
<1> QED
  BY <1>8, <1>11, <1>12, <1>13, <1>14

\* The wake-up at the head of what a user owes is paid.
LEMMA PaysOne ==
  ASSUME TypeInv, OwesDistinct, NEW u \in Users, WakeNext(u)
  PROVE  /\ Owed(Head(owes[u]).to) /\ Head(owes[u]) = owes[u][1] /\ 1 \in DOMAIN owes[u]
         /\ \A t : Owed(t)' <=> Owed(t) /\ t # Head(owes[u]).to
         /\ OwesDistinct'
         /\ pc' = [pc EXCEPT ![u] = IF Tail(owes[u]) = <<>> THEN "idle" ELSE "waking"]
         /\ \A v \in Users : v # u => owes'[v] = owes[v]
         /\ \A i \in DOMAIN owes'[u] : i + 1 \in DOMAIN owes[u] /\ owes'[u][i] = owes[u][i + 1]
         /\ Len(owes'[u]) = Len(owes[u]) - 1
<1> DEFINE n == Len(owes[u])
<1>1. pc[u] = "waking" /\ Owe(u, Tail(owes[u]))
  BY DEF WakeNext
<1>2. owes[u] \in Seq(Wakeups) /\ owes[u] # <<>>
  BY <1>1, HeadType
<1>3. /\ n \in Nat \ {0} /\ Head(owes[u]) = owes[u][1]
      /\ Tail(owes[u]) \in Seq(Wakeups) /\ Len(Tail(owes[u])) = n - 1
      /\ \A i \in 1..(n - 1) : Tail(owes[u])[i] = owes[u][i + 1]
  BY <1>2, TailType
<1>4. owes'[u] = Tail(owes[u]) /\ \A v \in Users : v # u => owes'[v] = owes[v]
  BY <1>1 DEF Owe, TypeInv, TypeOK
<1>5. pc' = [pc EXCEPT ![u] = IF Tail(owes[u]) = <<>> THEN "idle" ELSE "waking"]
  BY <1>1 DEF Owe, GoTo
<1>6. DOMAIN owes[u] = 1..n /\ DOMAIN owes'[u] = 1..(n - 1)
  BY <1>2, <1>3, <1>4
<1> HIDE DEF n
<1>7. /\ \A i \in 1..(n - 1) : i + 1 \in 1..n /\ owes'[u][i] = owes[u][i + 1]
      /\ \A i \in 1..n : i = 1 \/ (i - 1 \in 1..(n - 1) /\ owes[u][i] = owes'[u][i - 1])
  BY <1>3, <1>4
<1>8. Owed(Head(owes[u]).to)
  BY <1>3, <1>6 DEF Owed
<1>9. OwesDistinct'
  <2> SUFFICES ASSUME NEW v \in Users, NEW w \in Users,
                      NEW i \in DOMAIN owes'[v], NEW j \in DOMAIN owes'[w],
                      owes'[v][i].to = owes'[w][j].to
               PROVE  v = w /\ i = j
    BY DEF OwesDistinct
  <2>1. CASE v = u /\ w = u
    <3>1. /\ i \in 1..(n - 1) /\ j \in 1..(n - 1)
          /\ i + 1 \in DOMAIN owes[u] /\ j + 1 \in DOMAIN owes[u]
          /\ owes[u][i + 1].to = owes[u][j + 1].to
      BY <1>6, <1>7, <2>1
    <3>2. i + 1 = j + 1
      BY <3>1 DEF OwesDistinct
    <3> QED
      BY <2>1, <3>1, <3>2
  <2>2. CASE v = u /\ w # u
    <3>1. /\ i + 1 \in DOMAIN owes[u] /\ j \in DOMAIN owes[w]
          /\ owes[u][i + 1].to = owes[w][j].to
      BY <1>4, <1>6, <1>7, <2>2
    <3> QED
      BY <2>2, <3>1 DEF OwesDistinct
  <2>3. CASE v # u /\ w = u
    <3>1. /\ i \in DOMAIN owes[v] /\ j + 1 \in DOMAIN owes[u]
          /\ owes[v][i].to = owes[u][j + 1].to
      BY <1>4, <1>6, <1>7, <2>3
    <3> QED
      BY <2>3, <3>1 DEF OwesDistinct
  <2>4. CASE v # u /\ w # u
    BY <1>4, <2>4 DEF OwesDistinct
  <2> QED
    BY <2>1, <2>2, <2>3, <2>4
<1>10. ASSUME NEW t PROVE Owed(t)' <=> Owed(t) /\ t # Head(owes[u]).to
  <2>1. ASSUME Owed(t)' PROVE Owed(t) /\ t # Head(owes[u]).to
    <3>1. PICK v \in Users : \E i \in DOMAIN owes'[v] : owes'[v][i].to = t
      BY <2>1 DEF Owed
    <3>2. CASE v = u
      <4>1. PICK i \in 1..(n - 1) : owes[u][i + 1].to = t /\ i + 1 \in 1..n
        BY <1>6, <1>7, <3>1, <3>2
      <4>2. i + 1 # 1
        BY <1>3, <4>1
      <4> QED
        BY <1>3, <1>6, <4>1, <4>2 DEF Owed, OwesDistinct
    <3>3. CASE v # u
      BY <1>3, <1>4, <1>6, <3>1, <3>3 DEF Owed, OwesDistinct
    <3> QED
      BY <3>2, <3>3
  <2>2. ASSUME Owed(t), t # Head(owes[u]).to PROVE Owed(t)'
    <3>1. PICK v \in Users : \E i \in DOMAIN owes[v] : owes[v][i].to = t
      BY <2>2 DEF Owed
    <3>2. CASE v = u
      <4>1. PICK i \in 1..n : owes[u][i].to = t
        BY <1>6, <3>1, <3>2
      <4>2. i - 1 \in 1..(n - 1) /\ owes'[u][i - 1].to = t
        BY <1>3, <1>7, <2>2, <4>1
      <4> QED
        BY <1>6, <4>2 DEF Owed
    <3>3. CASE v # u
      BY <1>4, <3>1, <3>3 DEF Owed
    <3> QED
      BY <3>2, <3>3
  <2> QED
    BY <2>1, <2>2
<1> QED
  BY <1>3, <1>4, <1>5, <1>6, <1>7, <1>8, <1>9, <1>10

\* A user between two operations has no claim on it.
LEMMA Unclaimed ==
  ASSUME TypeInv, OneWaker, NEW t \in Tasks, pc[t] \in {"idle", "waking"}
  PROVE  ~InSend(t) /\ ~InRecv(t) /\ ~Owed(t) /\ woken[t] = "no"
BY DEF OneWaker, SendPcs, RecvPcs, TypeInv, TypeOK

\* An operation that enlists nobody and owes nothing.
LEMMA OneWakerReturn ==
  ASSUME TypeInv, WakerInv, NEW u \in Users, pc[u] = "idle", Return(u),
         UNCHANGED <<send_waiters, recv_waiters, taskVars>>
  PROVE  WakerInv'
<1>1. UNCHANGED <<owes, woken>> /\ pc' = [pc EXCEPT ![u] = "idle"]
  BY NobodyWakes DEF taskVars
<1>2. UNCHANGED pc
  BY <1>1 DEF TypeInv, TypeOK
<1> QED
  BY <1>1, <1>2 DEF WakerInv, SendDistinct, RecvDistinct, OwesDistinct, OneWaker, InSend, InRecv, Owed

LEMMA OneWakerSend ==
  ASSUME TypeInv, WakerInv, NEW u \in Users, Send(u)
  PROVE  WakerInv'
<1> USE DEF WakerInv
<1>0. /\ pc[u] = "idle" /\ UNCHANGED taskVars /\ Message(u) \in Messages
      /\ u \in Tasks => ~InSend(u) /\ ~InRecv(u) /\ ~Owed(u) /\ woken[u] = "no"
  BY MessageType, Unclaimed DEF Send, SendClosed, SendDirect, SendBuffer, SendRefused, SendEnlist, CallsSend
<1>r. ASSUME Return(u), UNCHANGED <<send_waiters, recv_waiters>> PROVE WakerInv'
  BY <1>0, <1>r, OneWakerReturn
<1>w. ASSUME NEW how \in {"value", "plain", "error"}, NEW val \in Messages \cup {Nil},
             recv_waiters # <<>>, recv_waiters' = Rest(recv_waiters), UNCHANGED send_waiters,
             Owe(u, <<Wakeup(recv_waiters[Len(recv_waiters)], how, val)>>)
      PROVE  WakerInv'
  <2> DEFINE last == recv_waiters[Len(recv_waiters)]
  <2>1. /\ last \in Tasks /\ InRecv(last) /\ RecvDistinct'
        /\ \A t : InRecv(t)' <=> InRecv(t) /\ t # last
    BY <1>w, PopsRecv
  <2>2. Wakeup(last, how, val) \in Wakeups /\ Wakeup(last, how, val).to = last
    BY <1>w, <2>1, OneWakeup DEF Wakeup
  <2> HIDE DEF last
  <2>3. ~Owed(last) /\ ~InSend(last) /\ pc[last] \in RecvPcs \cup {"died"} /\ woken[last] = "no"
    BY <2>1 DEF OneWaker
  <2>4. /\ pc' = [pc EXCEPT ![u] = "waking"] /\ OwesDistinct'
        /\ \A t : Owed(t)' <=> Owed(t) \/ t = last
    BY <1>0, <1>w, <2>2, <2>3, OwesOne DEF last
  <2>5. SendDistinct' /\ \A t : InSend(t)' <=> InSend(t)
    BY <1>w DEF SendDistinct, InSend
  <2>6. UNCHANGED woken
    BY <1>0 DEF taskVars
  <2>7. OneWaker'
    BY <1>0, <2>1, <2>3, <2>4, <2>5, <2>6 DEF OneWaker, SendPcs, RecvPcs, TypeInv, TypeOK
  <2> QED
    BY <2>1, <2>4, <2>5, <2>7
<1>1. CASE SendClosed(u)
  BY <1>1, <1>r DEF SendClosed, stateVars
<1>2. CASE SendDirect(u)
  BY <1>0, <1>2, <1>w DEF SendDirect, DirectDelivery
<1>3. ASSUME NEW kind, SendBuffer(u, kind) PROVE WakerInv'
  BY <1>3, <1>r, <1>w DEF SendBuffer
<1>4. ASSUME NEW kind, SendRefused(u, kind) PROVE WakerInv'
  BY <1>4, <1>r DEF SendRefused, stateVars
<1>5. CASE SendEnlist(u)
  <2>1. u \in Tasks /\ UNCHANGED <<recv_waiters, owes>> /\ pc' = [pc EXCEPT ![u] = "sendParking"]
    BY <1>5 DEF SendEnlist, GoTo
  <2>2. SendDistinct' /\ \A s : InSend(s)' <=> InSend(s) \/ s = u
    BY <1>0, <1>5, <2>1, EnlistsSend DEF SendEnlist
  <2>3. /\ RecvDistinct' /\ \A s : InRecv(s)' <=> InRecv(s)
        /\ OwesDistinct' /\ \A s : Owed(s)' <=> Owed(s)
    BY <2>1 DEF RecvDistinct, InRecv, OwesDistinct, Owed
  <2>4. OneWaker'
    BY <1>0, <2>1, <2>2, <2>3 DEF OneWaker, SendPcs, RecvPcs, TypeInv, TypeOK, taskVars
  <2> QED
    BY <2>2, <2>3, <2>4
<1> QED
  BY <1>1, <1>2, <1>3, <1>4, <1>5 DEF Send

LEMMA OneWakerReceive ==
  ASSUME TypeInv, WakerInv, NEW u \in Users, Receive(u)
  PROVE  WakerInv'
<1> USE DEF WakerInv
<1>0. /\ pc[u] = "idle" /\ UNCHANGED taskVars
      /\ u \in Tasks => ~InSend(u) /\ ~InRecv(u) /\ ~Owed(u) /\ woken[u] = "no"
  BY Unclaimed DEF Receive, ReceiveBuffered, ReceiveNothing, ReceiveEnlist, CallsReceive
<1>r. ASSUME Return(u), UNCHANGED <<send_waiters, recv_waiters>> PROVE WakerInv'
  BY <1>0, <1>r, OneWakerReturn
<1>1. CASE ReceiveBuffered(u)
  <2>1. CASE send_waiters = <<>>
    BY <1>1, <1>r, <2>1 DEF ReceiveBuffered
  <2>2. CASE send_waiters # <<>>
    <3> DEFINE last == send_waiters[Len(send_waiters)][1]
    <3>1. /\ send_waiters' = Rest(send_waiters) /\ UNCHANGED recv_waiters
          /\ Owe(u, <<Wakeup(last, "plain", Nil)>>)
      BY <1>1, <2>2 DEF ReceiveBuffered
    <3>2. /\ last \in Tasks /\ InSend(last) /\ SendDistinct'
          /\ \A t : InSend(t)' <=> InSend(t) /\ t # last
      BY <2>2, <3>1, PopsSend
    <3>3. Wakeup(last, "plain", Nil) \in Wakeups /\ Wakeup(last, "plain", Nil).to = last
      BY <3>2, OneWakeup DEF Wakeup
    <3> HIDE DEF last
    <3>4. ~Owed(last) /\ ~InRecv(last) /\ pc[last] \in SendPcs \cup {"died"} /\ woken[last] = "no"
      BY <3>2 DEF OneWaker
    <3>5. /\ pc' = [pc EXCEPT ![u] = "waking"] /\ OwesDistinct'
          /\ \A t : Owed(t)' <=> Owed(t) \/ t = last
      BY <1>0, <3>1, <3>3, <3>4, OwesOne
    <3>6. RecvDistinct' /\ \A t : InRecv(t)' <=> InRecv(t)
      BY <3>1 DEF RecvDistinct, InRecv
    <3>7. UNCHANGED woken
      BY <1>0 DEF taskVars
    <3>8. OneWaker'
      BY <1>0, <3>2, <3>4, <3>5, <3>6, <3>7 DEF OneWaker, SendPcs, RecvPcs, TypeInv, TypeOK
    <3> QED
      BY <3>2, <3>5, <3>6, <3>8
  <2> QED
    BY <2>1, <2>2
<1>2. ASSUME NEW kind, ReceiveNothing(u, kind) PROVE WakerInv'
  BY <1>2, <1>r DEF ReceiveNothing, stateVars
<1>3. CASE ReceiveEnlist(u)
  <2>1. u \in Tasks /\ UNCHANGED <<send_waiters, owes>> /\ pc' = [pc EXCEPT ![u] = "recvParking"]
    BY <1>3 DEF ReceiveEnlist, GoTo
  <2>2. RecvDistinct' /\ \A s : InRecv(s)' <=> InRecv(s) \/ s = u
    BY <1>0, <1>3, <2>1, EnlistsRecv DEF ReceiveEnlist
  <2>3. /\ SendDistinct' /\ \A s : InSend(s)' <=> InSend(s)
        /\ OwesDistinct' /\ \A s : Owed(s)' <=> Owed(s)
    BY <2>1 DEF SendDistinct, InSend, OwesDistinct, Owed
  <2>4. OneWaker'
    BY <1>0, <2>1, <2>2, <2>3 DEF OneWaker, SendPcs, RecvPcs, TypeInv, TypeOK, taskVars
  <2> QED
    BY <2>2, <2>3, <2>4
<1> QED
  BY <1>1, <1>2, <1>3 DEF Receive

\* The entry thread is never enlisted: its spin loop claims nothing.
LEMMA OneWakerSpin ==
  ASSUME TypeInv, WakerInv, MainSpin
  PROVE  WakerInv'
<1>1. /\ UNCHANGED <<send_waiters, recv_waiters, woken, owes>>
      /\ \A t \in Tasks : pc'[t] = pc[t]
  <2>1. Main \in Users /\ Main \notin Tasks
    BY UsersOK DEF Users
  <2>2. CASE SendSpin \/ ReceiveSpin
    BY <2>1, <2>2 DEF SendSpin, ReceiveSpin, CallsSend, CallsReceive, GoTo, stateVars, taskVars, TypeInv, TypeOK, Users
  <2>3. CASE SpinSendDone \/ SpinSendTimeout \/ SpinReceiveDone \/ SpinReceiveGivesUp
    <3>1. /\ Return(Main) /\ pc[Main] # "waking" /\ UNCHANGED <<send_waiters, recv_waiters, woken>>
      BY <2>3 DEF SpinSendDone, SpinSendTimeout, SpinReceiveDone, SpinReceiveGivesUp, stateVars, taskVars
    <3> QED
      BY <2>1, <3>1, NobodyWakes DEF TypeInv, TypeOK, Users
  <2> QED
    BY <2>2, <2>3 DEF MainSpin
<1> QED
  BY <1>1 DEF WakerInv, SendDistinct, RecvDistinct, OwesDistinct, OneWaker, InSend, InRecv, Owed

LEMMA OneWakerClose ==
  ASSUME TypeInv, WakerInv, NEW u \in Users, Close(u)
  PROVE  WakerInv'
<1>1. send_waiters' = <<>> /\ recv_waiters' = <<>> /\ UNCHANGED woken /\ pc[u] = "idle"
  BY DEF Close, taskVars
<1>2. SendDistinct' /\ RecvDistinct' /\ \A t : ~InSend(t)' /\ ~InRecv(t)'
  BY <1>1 DEF SendDistinct, RecvDistinct, InSend, InRecv
<1>3. /\ \A v \in Users : v # u => pc'[v] = pc[v]
      /\ \A t : Owed(t)' => Owed(t) \/ InSend(t) \/ InRecv(t)
      /\ OwesDistinct'
  BY CloseOwes DEF WakerInv
<1>4. u \in Tasks => ~InSend(u) /\ ~InRecv(u) /\ ~Owed(u) /\ woken[u] = "no"
  BY <1>1, Unclaimed DEF WakerInv
<1>5. OneWaker'
  BY <1>1, <1>2, <1>3, <1>4 DEF WakerInv, OneWaker, Users, TypeInv, TypeOK
<1> QED
  BY <1>2, <1>3, <1>5 DEF WakerInv

LEMMA OneWakerWake ==
  ASSUME TypeInv, WakerInv, NEW u \in Users, WakeNext(u)
  PROVE  WakerInv'
<1> DEFINE w == Head(owes[u])
<1>1. /\ Owed(w.to) /\ \A t : Owed(t)' <=> Owed(t) /\ t # w.to
      /\ OwesDistinct' /\ \A v \in Users : v # u => pc'[v] = pc[v]
  BY PaysOne DEF WakerInv, TypeInv, TypeOK
<1>2. w.to \in Tasks /\ pc[u] = "waking" /\ w.how \in {"value", "plain", "error"}
  BY HeadType DEF WakeNext
<1>3. UNCHANGED <<send_waiters, recv_waiters>>
  BY DEF WakeNext, stateVars
<1>4. woken' = IF pc[w.to] = "died" THEN woken ELSE [woken EXCEPT ![w.to] = w.how]
  BY DEF WakeNext
<1> HIDE DEF w
<1>5. /\ SendDistinct' /\ \A s : InSend(s)' <=> InSend(s)
      /\ RecvDistinct' /\ \A s : InRecv(s)' <=> InRecv(s)
  BY <1>3 DEF WakerInv, SendDistinct, InSend, RecvDistinct, InRecv
<1>6. u \in Tasks => ~InSend(u) /\ ~InRecv(u) /\ ~Owed(u) /\ woken[u] = "no"
  BY <1>2, Unclaimed DEF WakerInv
<1>7. \A t \in Tasks : t # w.to => woken'[t] = woken[t]
  BY <1>2, <1>4 DEF TypeInv, TypeOK
<1>8. ~InSend(w.to) /\ ~InRecv(w.to) /\ pc[w.to] \in SendPcs \cup RecvPcs \cup {"died"} /\ w.to # u
  BY <1>1, <1>2, <1>6 DEF WakerInv, OneWaker
<1>9. ASSUME NEW t \in Tasks
      PROVE  /\ InSend(t)' => pc'[t] \in SendPcs \cup {"died"} /\ ~InRecv(t)' /\ ~Owed(t)' /\ woken'[t] = "no"
             /\ InRecv(t)' => pc'[t] \in RecvPcs \cup {"died"} /\ ~Owed(t)' /\ woken'[t] = "no"
             /\ Owed(t)' => pc'[t] \in SendPcs \cup RecvPcs \cup {"died"} /\ woken'[t] = "no"
             /\ woken'[t] # "no" => pc'[t] \in SendPcs \cup RecvPcs \cup {"died"}
  <2>1. t \in Users
    BY DEF Users
  <2>2. CASE t = u
    BY <1>1, <1>5, <1>6, <1>7, <1>8, <2>2
  <2>3. CASE t # u
    BY <1>1, <1>5, <1>7, <1>8, <2>1, <2>3 DEF WakerInv, OneWaker
  <2> QED
    BY <2>2, <2>3
<1>10. OneWaker'
  BY <1>9 DEF OneWaker, SendPcs, RecvPcs
<1> QED
  BY <1>1, <1>5, <1>10 DEF WakerInv

LEMMA OneWakerTask ==
  ASSUME TypeInv, WakerInv, NEW t \in Tasks, TaskStep(t)
  PROVE  WakerInv'
<1>0. t \in Users
  BY DEF Users
<1>1. UNCHANGED <<send_waiters, recv_waiters, owes>>
  BY DEF TaskStep, SwitchOut, Resume, Cancel, DieCancelled, stateVars
<1>2. /\ SendDistinct' /\ \A s : InSend(s)' <=> InSend(s)
      /\ RecvDistinct' /\ \A s : InRecv(s)' <=> InRecv(s)
      /\ OwesDistinct' /\ \A s : Owed(s)' <=> Owed(s)
  BY <1>1 DEF WakerInv, SendDistinct, InSend, RecvDistinct, InRecv, OwesDistinct, Owed
<1> USE DEF WakerInv, OneWaker, SendPcs, RecvPcs, TypeInv, TypeOK, Users, GoTo, taskVars
<1>3. CASE SwitchOut(t)
  BY <1>0, <1>2, <1>3 DEF SwitchOut
<1>4. CASE Resume(t)
  <2>1. /\ pc' = [pc EXCEPT ![t] = "idle"] /\ woken' = [woken EXCEPT ![t] = "no"] /\ woken[t] # "no"
    BY <1>4 DEF Resume
  <2>2. ~InSend(t) /\ ~InRecv(t) /\ ~Owed(t)
    BY <2>1
  <2> QED
    BY <1>0, <1>2, <2>1, <2>2
<1>5. CASE Cancel(t)
  BY <1>0, <1>2, <1>5 DEF Cancel
<1>6. CASE DieCancelled(t)
  BY <1>0, <1>2, <1>6 DEF DieCancelled
<1> QED
  BY <1>3, <1>4, <1>5, <1>6 DEF TaskStep

LEMMA OneWakerInit == Init => WakerInv
<1> SUFFICES ASSUME Init PROVE WakerInv
  OBVIOUS
<1>1. send_waiters = <<>> /\ recv_waiters = <<>> /\ \A u \in Users : owes[u] = <<>>
  BY DEF Init
<1>2. \A t : ~InSend(t) /\ ~InRecv(t) /\ ~Owed(t)
  BY <1>1 DEF InSend, InRecv, Owed
<1>3. OneWaker
  BY <1>2 DEF Init, OneWaker
<1>4. SendDistinct /\ RecvDistinct /\ OwesDistinct
  BY <1>1 DEF SendDistinct, RecvDistinct, OwesDistinct
<1> QED
  BY <1>3, <1>4 DEF WakerInv

LEMMA OneWakerNext == TypeInv /\ WakerInv /\ [Next]_vars => WakerInv'
<1> SUFFICES ASSUME TypeInv, WakerInv, [Next]_vars PROVE WakerInv'
  OBVIOUS
<1>1. CASE UNCHANGED vars
  BY <1>1 DEF vars, stateVars, taskVars, WakerInv, SendDistinct, RecvDistinct, OwesDistinct, OneWaker,
              InSend, InRecv, Owed
<1> QED
  BY <1>1, OneWakerSend, OneWakerReceive, OneWakerSpin, OneWakerClose, OneWakerWake, OneWakerTask DEF Next

LEMMA WakerInvariant == Spec => []WakerInv
BY OneWakerInit, OneWakerNext, TypeInvariant, PTL DEF Spec

-----------------------------------------------------------------------------
(* The order of messages                                                   *)
(*                                                                         *)
(* What was taken and what is buffered form one stream: a receive moves    *)
(* the border between the two, and what enters the stream, directly, into  *)
(* the buffer, from the list of senders or from the spin loop, is newer    *)
(* than everything its sender has in it.                                   *)

Stream == taken \o buffer
Behind(s, u, n) == \A i \in DOMAIN s : s[i][1] = u => s[i][2] < n

StreamOrder == \A i, j \in DOMAIN Stream : i < j /\ Stream[i][1] = Stream[j][1] => Stream[i][2] < Stream[j][2]
StreamSent == \A u \in Users : Behind(Stream, u, sent[u] + 1)

\* Whoever waits to send has its newest message in hand, not in the stream.
LineFresh ==
  \A i \in DOMAIN send_waiters :
    /\ send_waiters[i][2] = <<send_waiters[i][1], sent[send_waiters[i][1]]>>
    /\ Behind(Stream, send_waiters[i][1], sent[send_waiters[i][1]])
SpinFresh == pc[Main] = "spinSend" => Behind(Stream, Main, sent[Main])
RefusedSent == \A m \in refused : m[2] <= sent[m[1]]

OrderInv == StreamOrder /\ StreamSent /\ LineFresh /\ SpinFresh /\ RefusedSent

\* How a step changes the stream.
StreamStays ==
  /\ DOMAIN Stream' = DOMAIN Stream
  /\ \A i \in DOMAIN Stream : Stream'[i] = Stream[i]

StreamGrows(m) ==
  /\ DOMAIN Stream = 1..Len(Stream) /\ Len(Stream) \in Nat /\ DOMAIN Stream' = 1..(Len(Stream) + 1)
  /\ \A i \in 1..Len(Stream) : Stream'[i] = Stream[i]
  /\ Stream'[Len(Stream) + 1] = m

LEMMA AppendRight ==
  ASSUME NEW S, NEW p \in Seq(S), NEW q \in Seq(S), NEW x \in S
  PROVE  /\ Len(p \o Append(q, x)) = Len(p \o q) + 1 /\ p \o Append(q, x) \in Seq(S)
         /\ \A i \in 1..Len(p \o q) : (p \o Append(q, x))[i] = (p \o q)[i]
         /\ (p \o Append(q, x))[Len(p \o q) + 1] = x
<1> DEFINE r == Append(q, x)
<1>1. /\ r \in Seq(S) /\ Len(r) = Len(q) + 1 /\ r[Len(q) + 1] = x
      /\ \A i \in 1..Len(q) : r[i] = q[i]
      /\ Len(p) \in Nat /\ Len(q) \in Nat
  BY AppendType
<1> HIDE DEF r
<1>2. /\ p \o r \in Seq(S) /\ Len(p \o r) = Len(p) + Len(r)
      /\ \A i \in 1..Len(p) : (p \o r)[i] = p[i]
      /\ \A i \in 1..Len(r) : (p \o r)[Len(p) + i] = r[i]
  BY <1>1
<1>3. /\ Len(p \o q) = Len(p) + Len(q)
      /\ \A i \in 1..Len(p) : (p \o q)[i] = p[i]
      /\ \A i \in 1..Len(q) : (p \o q)[Len(p) + i] = q[i]
  BY ConcatType
<1>4. ASSUME NEW i \in 1..(Len(p) + Len(q)) PROVE (p \o r)[i] = (p \o q)[i]
  <2>1. CASE i \in 1..Len(p)
    BY <1>2, <1>3, <2>1
  <2>2. CASE i \notin 1..Len(p)
    <3>1. i - Len(p) \in 1..Len(q) /\ i - Len(p) \in 1..Len(r) /\ i = Len(p) + (i - Len(p))
      BY <1>1, <2>2
    <3>2. (p \o r)[Len(p) + (i - Len(p))] = q[i - Len(p)] /\ (p \o q)[Len(p) + (i - Len(p))] = q[i - Len(p)]
      BY <1>1, <1>2, <1>3, <3>1
    <3> QED
      BY <3>1, <3>2
  <2> QED
    BY <2>1, <2>2
<1>5. (p \o r)[Len(p) + Len(q) + 1] = x
  <2>1. Len(q) + 1 \in 1..Len(r) /\ Len(p) + Len(q) + 1 = Len(p) + (Len(q) + 1)
    BY <1>1
  <2> QED
    BY <1>1, <1>2, <2>1
<1>6. Len(p \o r) = Len(p \o q) + 1
  BY <1>1, <1>2, <1>3
<1> QED
  BY <1>2, <1>3, <1>4, <1>5, <1>6 DEF r

LEMMA MoveBorder ==
  ASSUME NEW S, NEW p \in Seq(S), NEW q \in Seq(S), q # <<>>
  PROVE  /\ Len(Append(p, Head(q)) \o Tail(q)) = Len(p \o q) /\ Append(p, Head(q)) \o Tail(q) \in Seq(S)
         /\ \A i \in 1..Len(p \o q) : (Append(p, Head(q)) \o Tail(q))[i] = (p \o q)[i]
<1> DEFINE r == Append(p, Head(q))
           z == Tail(q)
<1>1. /\ Len(q) \in Nat \ {0} /\ Head(q) \in S /\ Head(q) = q[1]
      /\ z \in Seq(S) /\ Len(z) = Len(q) - 1 /\ Len(p) \in Nat
      /\ \A i \in 1..(Len(q) - 1) : z[i] = q[i + 1]
  BY TailType
<1>2. /\ r \in Seq(S) /\ Len(r) = Len(p) + 1 /\ r[Len(p) + 1] = q[1]
      /\ \A i \in 1..Len(p) : r[i] = p[i]
  BY <1>1, AppendType
<1> HIDE DEF r, z
<1>3. /\ r \o z \in Seq(S) /\ Len(r \o z) = Len(r) + Len(z)
      /\ \A i \in 1..Len(r) : (r \o z)[i] = r[i]
      /\ \A i \in 1..Len(z) : (r \o z)[Len(r) + i] = z[i]
  <2>1. r \in Seq(S) /\ z \in Seq(S)
    BY <1>1, <1>2
  <2> QED
    BY <2>1
<1>n. Len(p) \in Nat /\ Len(q) \in Nat \ {0} /\ Len(r) = Len(p) + 1 /\ Len(z) = Len(q) - 1
  BY <1>1, <1>2
<1>4. /\ Len(p \o q) = Len(p) + Len(q)
      /\ \A i \in 1..Len(p) : (p \o q)[i] = p[i]
      /\ \A i \in 1..Len(q) : (p \o q)[Len(p) + i] = q[i]
  BY ConcatType
<1>5. ASSUME NEW i \in 1..(Len(p) + Len(q)) PROVE (r \o z)[i] = (p \o q)[i]
  <2>1. CASE i \in 1..Len(p)
    BY <1>1, <1>2, <1>3, <1>4, <2>1
  <2>2. CASE i = Len(p) + 1
    <3>1. i \in 1..Len(r) /\ 1 \in 1..Len(q)
      BY <1>1, <1>2, <2>2
    <3> QED
      BY <1>2, <1>3, <1>4, <2>2, <3>1
  <2>3. CASE i \notin 1..(Len(p) + 1)
    <3>1. PICK k \in 1..Len(z) : i = Len(r) + k /\ i = Len(p) + (k + 1) /\ k + 1 \in 1..Len(q)
      <4> DEFINE k == i - Len(p) - 1
      <4>1. k \in 1..Len(z) /\ i = Len(r) + k /\ i = Len(p) + (k + 1) /\ k + 1 \in 1..Len(q)
        BY <1>n, <2>3
      <4> HIDE DEF k
      <4> QED
        BY <4>1
    <3>2. (r \o z)[Len(r) + k] = q[k + 1] /\ (p \o q)[Len(p) + (k + 1)] = q[k + 1]
      BY <1>1, <1>3, <1>4, <3>1
    <3> QED
      BY <3>1, <3>2
  <2> QED
    BY <1>n, <2>1, <2>2, <2>3
<1>6. Len(r \o z) = Len(p \o q)
  BY <1>1, <1>2, <1>3, <1>4
<1> QED
  BY <1>3, <1>4, <1>5, <1>6 DEF r, z

\* The four ways a step changes what was taken and what is buffered.
LEMMA StreamType ==
  ASSUME TypeInv
  PROVE  Stream \in Seq(Messages) /\ DOMAIN Stream = 1..Len(Stream) /\ Len(Stream) \in Nat
         /\ \A i \in DOMAIN Stream : Stream[i] \in Messages
<1>1. Stream \in Seq(Messages)
  BY DEF Stream, TypeInv, TypeOK
<1> QED
  BY <1>1

LEMMA StreamBuffered ==
  ASSUME TypeInv, NEW m \in Messages, UNCHANGED taken, buffer' = Append(buffer, m)
  PROVE  StreamGrows(m)
<1>1. /\ Len(Stream') = Len(Stream) + 1 /\ Stream' \in Seq(Messages)
      /\ \A i \in 1..Len(Stream) : Stream'[i] = Stream[i]
      /\ Stream'[Len(Stream) + 1] = m
  BY AppendRight DEF Stream, TypeInv, TypeOK
<1> QED
  BY <1>1, StreamType DEF StreamGrows

LEMMA StreamDirect ==
  ASSUME TypeInv, NEW m \in Messages, buffer = <<>>, UNCHANGED buffer, taken' = Append(taken, m)
  PROVE  StreamGrows(m)
<1>1. Stream = taken /\ Stream' = Append(taken, m) /\ taken \in Seq(Messages)
  <2>1. \A s \in Seq(Messages) : s \o <<>> = s
    OBVIOUS
  <2>2. taken \in Seq(Messages) /\ Append(taken, m) \in Seq(Messages)
    BY AppendType DEF TypeInv, TypeOK
  <2> QED
    BY <2>1, <2>2 DEF Stream
<1>2. /\ Stream' \in Seq(Messages) /\ Len(Stream') = Len(Stream) + 1
      /\ \A i \in 1..Len(Stream) : Stream'[i] = Stream[i]
      /\ Stream'[Len(Stream) + 1] = m
  BY <1>1, AppendType
<1> QED
  BY <1>2, StreamType DEF StreamGrows

LEMMA StreamTaken ==
  ASSUME TypeInv, buffer # <<>>, taken' = Append(taken, Head(buffer)), buffer' = Tail(buffer)
  PROVE  StreamStays
<1>1. /\ Len(Stream') = Len(Stream) /\ Stream' \in Seq(Messages)
      /\ \A i \in 1..Len(Stream) : Stream'[i] = Stream[i]
  BY MoveBorder DEF Stream, TypeInv, TypeOK
<1> QED
  BY <1>1, StreamType DEF StreamStays

LEMMA StreamAdmits ==
  ASSUME TypeInv, NEW m \in Messages, buffer # <<>>,
         taken' = Append(taken, Head(buffer)), buffer' = Append(Tail(buffer), m)
  PROVE  StreamGrows(m)
<1> DEFINE moved == Append(taken, Head(buffer)) \o Tail(buffer)
<1>1. /\ Len(moved) = Len(Stream) /\ moved \in Seq(Messages)
      /\ \A i \in 1..Len(Stream) : moved[i] = Stream[i]
  BY MoveBorder DEF Stream, TypeInv, TypeOK
<1>2. Append(taken, Head(buffer)) \in Seq(Messages) /\ Tail(buffer) \in Seq(Messages)
  <2>1. Head(buffer) \in Messages /\ Tail(buffer) \in Seq(Messages) /\ taken \in Seq(Messages)
    BY TailType DEF TypeInv, TypeOK
  <2> QED
    BY <2>1, AppendType
<1>3. /\ Len(Stream') = Len(moved) + 1 /\ Stream' \in Seq(Messages)
      /\ \A i \in 1..Len(moved) : Stream'[i] = moved[i]
      /\ Stream'[Len(moved) + 1] = m
  BY <1>2, AppendRight DEF Stream
<1> HIDE DEF moved
<1> QED
  BY <1>1, <1>3, StreamType DEF StreamGrows

\* What the two changes do to the order, and to what is behind a message.
LEMMA StaysBehind ==
  ASSUME StreamStays
  PROVE  /\ StreamOrder => StreamOrder'
         /\ \A u, n : Behind(Stream, u, n) => Behind(Stream', u, n)
BY DEF StreamStays, StreamOrder, Behind

LEMMA GrowsBehind ==
  ASSUME TypeInv, NEW v, NEW k, StreamGrows(<<v, k>>), Behind(Stream, v, k)
  PROVE  /\ StreamOrder => StreamOrder'
         /\ \A u, n : Behind(Stream, u, n) /\ u # v => Behind(Stream', u, n)
         /\ \A n \in Int : k \in Int /\ k < n => Behind(Stream', v, n)
<1> DEFINE n == Len(Stream)
<1>1. /\ DOMAIN Stream = 1..n /\ n \in Nat /\ DOMAIN Stream' = 1..(n + 1)
      /\ \A i \in 1..n : Stream'[i] = Stream[i]
      /\ Stream'[n + 1][1] = v /\ Stream'[n + 1][2] = k
  BY DEF StreamGrows
<1>2. \A i \in 1..n : Stream[i][2] \in Int
  BY <1>1, StreamType, BoundsOK DEF Messages
<1> HIDE DEF n
<1>3. StreamOrder => StreamOrder'
  <2> SUFFICES ASSUME StreamOrder, NEW i \in 1..(n + 1), NEW j \in 1..(n + 1), i < j,
                      Stream'[i][1] = Stream'[j][1]
               PROVE  Stream'[i][2] < Stream'[j][2]
    BY <1>1 DEF StreamOrder
  <2>1. i \in 1..n
    BY <1>1
  <2>2. CASE j \in 1..n
    BY <1>1, <2>1, <2>2 DEF StreamOrder
  <2>3. CASE j = n + 1
    BY <1>1, <2>1, <2>3 DEF Behind
  <2> QED
    BY <1>1, <2>2, <2>3
<1>4. \A u, b : Behind(Stream, u, b) /\ u # v => Behind(Stream', u, b)
  BY <1>1 DEF Behind
<1>5. \A b \in Int : k \in Int /\ k < b => Behind(Stream', v, b)
  <2> SUFFICES ASSUME NEW b \in Int, k \in Int, k < b,
                      NEW i \in 1..(n + 1), Stream'[i][1] = v
               PROVE  Stream'[i][2] < b
    BY <1>1 DEF Behind
  <2>1. CASE i = n + 1
    BY <1>1, <2>1
  <2>2. CASE i \in 1..n
    <3>1. Stream[i][2] < k /\ Stream[i][2] \in Int
      BY <1>1, <1>2, <2>2 DEF Behind
    <3> QED
      BY <1>1, <2>2, <3>1
  <2> QED
    BY <1>1, <2>1, <2>2
<1> QED
  BY <1>3, <1>4, <1>5

LEMMA SentType ==
  ASSUME TypeInv
  PROVE  /\ \A u \in Users : sent[u] \in Nat /\ sent[u] \in Int
         /\ \A m \in Messages : m[1] \in Users /\ m[2] \in Nat
         /\ \A i \in DOMAIN send_waiters : /\ send_waiters[i] \in Tasks \X Messages
                                           /\ send_waiters[i][1] \in Tasks /\ send_waiters[i][1] \in Users
                                           /\ send_waiters[i][1] # Main
<1>1. \A u \in Users : sent[u] \in Nat /\ sent[u] \in Int
  BY BoundsOK DEF TypeInv, TypeOK
<1>2. \A m \in Messages : m[1] \in Users /\ m[2] \in Nat
  BY UsersOK, BoundsOK DEF Messages
<1>3. \A i \in DOMAIN send_waiters : send_waiters[i] \in Tasks \X Messages
  BY DEF TypeInv, TypeOK
<1> QED
  BY <1>1, <1>2, <1>3, UsersOK DEF Users

LEMMA StreamSame ==
  ASSUME UNCHANGED <<taken, buffer>>
  PROVE  StreamStays
BY DEF Stream, StreamStays

\* A step outside the sends that puts nothing into the stream.
LEMMA OrderKeeps ==
  ASSUME TypeInv, TypeInv', OrderInv, StreamStays, UNCHANGED sent,
         \A i \in DOMAIN send_waiters' : \E j \in DOMAIN send_waiters : send_waiters'[i] = send_waiters[j],
         pc'[Main] = "spinSend" => pc[Main] = "spinSend", RefusedSent'
  PROVE  OrderInv'
<1>1. StreamOrder' /\ \A u, n : Behind(Stream, u, n) => Behind(Stream', u, n)
  BY StaysBehind DEF OrderInv
<1>2. StreamSent'
  BY <1>1 DEF OrderInv, StreamSent
<1>3. LineFresh'
  BY <1>1 DEF OrderInv, LineFresh
<1>4. SpinFresh'
  BY <1>1 DEF OrderInv, SpinFresh
<1> QED
  BY <1>1, <1>2, <1>3, <1>4 DEF OrderInv

\* A send refused, delivered or buffered at once.
LEMMA OrderSends ==
  ASSUME TypeInv, OneWaker, OrderInv, NEW u \in Users, CallsSend(u),
         StreamStays \/ StreamGrows(Message(u)), UNCHANGED send_waiters,
         pc'[Main] = "spinSend" => pc[Main] = "spinSend" /\ u # Main,
         refused' \subseteq refused \cup {Message(u)}
  PROVE  OrderInv'
<1>1. /\ Message(u) = <<u, sent'[u]>> /\ sent'[u] = sent[u] + 1 /\ pc[u] = "idle"
      /\ \A v \in Users : v # u => sent'[v] = sent[v]
      /\ \A v \in Users : sent[v] \in Int
  BY MessageType, SentType DEF CallsSend, Message
<1>2. Behind(Stream, u, sent'[u])
  BY <1>1 DEF OrderInv, StreamSent
<1>3. /\ StreamOrder'
      /\ \A v \in Users : \A n : v # u /\ Behind(Stream, v, n) => Behind(Stream', v, n)
      /\ Behind(Stream', u, sent'[u] + 1)
  <2>1. CASE StreamStays
    <3>1. StreamOrder' /\ \A v, n : Behind(Stream, v, n) => Behind(Stream', v, n)
      BY <2>1, StaysBehind DEF OrderInv
    <3>2. Behind(Stream, u, sent'[u] + 1)
      <4>1. \A i \in DOMAIN Stream : Stream[i][2] \in Int
        BY StreamType, SentType
      <4> QED
        BY <1>1, <1>2, <4>1 DEF Behind
    <3> QED
      BY <3>1, <3>2
  <2>2. CASE StreamGrows(Message(u))
    <3>1. sent'[u] \in Int /\ sent'[u] + 1 \in Int /\ sent'[u] < sent'[u] + 1
      BY <1>1
    <3> QED
      BY <1>1, <1>2, <2>2, <3>1, GrowsBehind DEF OrderInv
  <2> QED
    BY <2>1, <2>2
<1>4. StreamSent'
  <2> SUFFICES ASSUME NEW v \in Users PROVE Behind(Stream', v, sent'[v] + 1)
    BY DEF StreamSent
  <2>1. CASE v = u
    BY <1>3, <2>1
  <2>2. CASE v # u
    BY <1>1, <1>3, <2>2 DEF OrderInv, StreamSent
  <2> QED
    BY <2>1, <2>2
<1>5. LineFresh'
  <2> SUFFICES ASSUME NEW i \in DOMAIN send_waiters
               PROVE  /\ send_waiters[i][2] = <<send_waiters[i][1], sent'[send_waiters[i][1]]>>
                      /\ Behind(Stream', send_waiters[i][1], sent'[send_waiters[i][1]])
    BY DEF LineFresh
  <2>1. send_waiters[i][1] \in Tasks /\ send_waiters[i][1] \in Users
    BY SentType
  <2>2. InSend(send_waiters[i][1])
    BY DEF InSend
  <2>3. send_waiters[i][1] # u
    BY <1>1, <2>1, <2>2, Unclaimed
  <2> QED
    BY <1>1, <1>3, <2>1, <2>3 DEF OrderInv, LineFresh
<1>6. SpinFresh'
  BY <1>1, <1>3 DEF OrderInv, SpinFresh, Users
<1>7. RefusedSent'
  <2> SUFFICES ASSUME NEW m \in refused' PROVE m[2] <= sent'[m[1]]
    BY DEF RefusedSent
  <2>1. CASE m = Message(u)
    BY <1>1, <2>1
  <2>2. CASE m \in refused
    <3>1. m[2] <= sent[m[1]] /\ m[1] \in Users /\ m[2] \in Int
      BY <2>2, SentType DEF OrderInv, RefusedSent, TypeInv, TypeOK
    <3>2. sent'[m[1]] = sent[m[1]] \/ sent'[m[1]] = sent[m[1]] + 1
      BY <1>1, <3>1
    <3> QED
      BY <1>1, <3>1, <3>2
  <2> QED
    BY <2>1, <2>2
<1> QED
  BY <1>3, <1>4, <1>5, <1>6, <1>7 DEF OrderInv

\* A send that has to wait keeps its message in hand: enlisted, or spinning.
LEMMA OrderWaits ==
  ASSUME TypeInv, OneWaker, OrderInv, NEW u \in Users, CallsSend(u), UNCHANGED <<taken, buffer, refused>>,
         \/ UNCHANGED send_waiters
         \/ u \in Tasks /\ send_waiters' = Append(send_waiters, <<u, Message(u)>>),
         pc'[Main] = "spinSend" => pc[Main] = "spinSend" \/ u = Main
  PROVE  OrderInv'
<1>1. /\ Message(u) = <<u, sent'[u]>> /\ sent'[u] = sent[u] + 1 /\ pc[u] = "idle"
      /\ \A v \in Users : v # u => sent'[v] = sent[v]
      /\ \A v \in Users : sent[v] \in Int
      /\ Message(u) \in Messages
  BY MessageType, SentType DEF CallsSend, Message
<1>2. Behind(Stream, u, sent'[u])
  BY <1>1 DEF OrderInv, StreamSent
<1>3. StreamOrder' /\ \A v, n : Behind(Stream, v, n) => Behind(Stream', v, n)
  BY StreamSame, StaysBehind DEF OrderInv
<1>4. StreamSent'
  <2> SUFFICES ASSUME NEW v \in Users PROVE Behind(Stream', v, sent'[v] + 1)
    BY DEF StreamSent
  <2>1. CASE v = u
    <3>1. \A i \in DOMAIN Stream : Stream[i][2] \in Int
      BY StreamType, SentType
    <3>2. Behind(Stream, u, sent'[u] + 1)
      BY <1>1, <1>2, <3>1 DEF Behind
    <3> QED
      BY <1>3, <2>1, <3>2
  <2>2. CASE v # u
    BY <1>1, <1>3, <2>2 DEF OrderInv, StreamSent
  <2> QED
    BY <2>1, <2>2
<1>5. ASSUME NEW i \in DOMAIN send_waiters
      PROVE  /\ send_waiters[i][2] = <<send_waiters[i][1], sent'[send_waiters[i][1]]>>
             /\ Behind(Stream', send_waiters[i][1], sent'[send_waiters[i][1]])
  <2>1. send_waiters[i][1] \in Tasks /\ send_waiters[i][1] \in Users
    BY SentType
  <2>2. InSend(send_waiters[i][1])
    BY DEF InSend
  <2>3. send_waiters[i][1] # u
    BY <1>1, <2>1, <2>2, Unclaimed
  <2> QED
    BY <1>1, <1>3, <2>1, <2>3 DEF OrderInv, LineFresh
<1>6. LineFresh'
  <2>1. CASE UNCHANGED send_waiters
    BY <1>5, <2>1 DEF LineFresh
  <2>2. CASE u \in Tasks /\ send_waiters' = Append(send_waiters, <<u, Message(u)>>)
    <3> DEFINE n == Len(send_waiters)
    <3>1. /\ n \in Nat /\ DOMAIN send_waiters = 1..n /\ DOMAIN send_waiters' = 1..(n + 1)
          /\ \A i \in 1..n : send_waiters'[i] = send_waiters[i]
          /\ send_waiters'[n + 1] = <<u, Message(u)>>
      <4>1. send_waiters \in Seq(Tasks \X Messages) /\ <<u, Message(u)>> \in Tasks \X Messages
        BY <1>1, <2>2 DEF TypeInv, TypeOK
      <4>2. send_waiters' \in Seq(Tasks \X Messages) /\ Len(send_waiters') = n + 1
        BY <2>2, <4>1, AppendType
      <4> QED
        BY <2>2, <4>1, <4>2, AppendType
    <3> HIDE DEF n
    <3> SUFFICES ASSUME NEW i \in 1..(n + 1)
                 PROVE  /\ send_waiters'[i][2] = <<send_waiters'[i][1], sent'[send_waiters'[i][1]]>>
                        /\ Behind(Stream', send_waiters'[i][1], sent'[send_waiters'[i][1]])
      BY <3>1 DEF LineFresh
    <3>2. CASE i \in 1..n
      BY <1>5, <3>1, <3>2
    <3>3. CASE i = n + 1
      BY <1>1, <1>2, <1>3, <3>1, <3>3
    <3> QED
      BY <3>1, <3>2, <3>3
  <2> QED
    BY <2>1, <2>2
<1>7. SpinFresh'
  <2>1. CASE u = Main
    BY <1>2, <1>3, <2>1 DEF SpinFresh
  <2>2. CASE u # Main
    BY <1>1, <1>3, <2>2 DEF OrderInv, SpinFresh, Users
  <2> QED
    BY <2>1, <2>2
<1>8. RefusedSent'
  <2> SUFFICES ASSUME NEW m \in refused PROVE m[2] <= sent'[m[1]]
    BY DEF RefusedSent
  <2>1. m[2] <= sent[m[1]] /\ m[1] \in Users /\ m[2] \in Int
    BY SentType DEF OrderInv, RefusedSent, TypeInv, TypeOK
  <2>2. sent'[m[1]] = sent[m[1]] \/ sent'[m[1]] = sent[m[1]] + 1
    BY <1>1, <2>1
  <2> QED
    BY <1>1, <2>1, <2>2
<1> QED
  BY <1>3, <1>4, <1>6, <1>7, <1>8 DEF OrderInv

LEMMA OrderSend ==
  ASSUME TypeInv, WakerInv, OrderInv, NEW u \in Users, Send(u)
  PROVE  OrderInv'
<1> USE DEF WakerInv
<1>0. CallsSend(u) /\ Message(u) \in Messages /\ pc[u] = "idle" /\ Main \in Users
  BY MessageType DEF Send, SendClosed, SendDirect, SendBuffer, SendRefused, SendEnlist, CallsSend, Users
<1>1. CASE SendClosed(u)
  BY <1>0, <1>1, OrderSends, StreamSame, ReturnType DEF SendClosed, stateVars
<1>2. CASE SendDirect(u)
  <2>1. StreamGrows(Message(u))
    BY <1>0, <1>2, StreamDirect DEF SendDirect, DirectDelivery
  <2>2. u # Main => pc'[Main] = pc[Main]
    BY <1>2 DEF SendDirect, Owe, GoTo, TypeInv, TypeOK
  <2>3. pc'[u] # "spinSend"
    BY <1>2 DEF SendDirect, Owe, GoTo, TypeInv, TypeOK
  <2> QED
    BY <1>0, <1>2, <2>1, <2>2, <2>3, OrderSends DEF SendDirect
<1>3. ASSUME NEW kind, SendBuffer(u, kind) PROVE OrderInv'
  <2>1. StreamGrows(Message(u))
    BY <1>0, <1>3, StreamBuffered DEF SendBuffer
  <2>2. \E label \in {"idle", "waking"} : pc' = [pc EXCEPT ![u] = label]
    <3>1. CASE kind # "try" /\ recv_waiters # <<>>
      BY <1>3, <3>1 DEF SendBuffer, Owe, GoTo
    <3>2. CASE ~(kind # "try" /\ recv_waiters # <<>>)
      BY <1>3, <3>2 DEF SendBuffer, Owe, Return, GoTo
    <3> QED
      BY <3>1, <3>2
  <2>3. pc'[u] # "spinSend" /\ (u # Main => pc'[Main] = pc[Main])
    BY <1>0, <2>2 DEF TypeInv, TypeOK
  <2> QED
    BY <1>0, <1>3, <2>1, <2>2, <2>3, OrderSends DEF SendBuffer
<1>4. ASSUME NEW kind, SendRefused(u, kind) PROVE OrderInv'
  BY <1>0, <1>4, OrderSends, StreamSame, ReturnType DEF SendRefused, stateVars
<1>5. CASE SendEnlist(u)
  <2>1. pc'[Main] = "spinSend" => pc[Main] = "spinSend"
    BY <1>0, <1>5 DEF SendEnlist, GoTo, TypeInv, TypeOK
  <2> QED
    BY <1>0, <1>5, <2>1, OrderWaits DEF SendEnlist, historyVars
<1> QED
  BY <1>1, <1>2, <1>3, <1>4, <1>5 DEF Send

LEMMA OrderReceive ==
  ASSUME TypeInv, TypeInv', WakerInv, OrderInv, NEW u \in Users, Receive(u)
  PROVE  OrderInv'
<1>0. /\ UNCHANGED <<sent, refused>> /\ Main \in Users
      /\ pc'[Main] = "spinSend" => pc[Main] = "spinSend"
  <2>1. UNCHANGED <<sent, refused>> /\ Main \in Users
    BY DEF Receive, ReceiveBuffered, ReceiveNothing, ReceiveEnlist, CallsReceive, historyVars, Users
  <2>2. \E label \in {"idle", "waking", "recvParking"} : pc' = [pc EXCEPT ![u] = label]
    <3>1. CASE ReceiveBuffered(u)
      BY <3>1 DEF ReceiveBuffered, Return, Owe, GoTo
    <3>2. ASSUME NEW kind, ReceiveNothing(u, kind) PROVE pc' = [pc EXCEPT ![u] = "idle"]
      BY <3>2 DEF ReceiveNothing, Return, Owe, GoTo
    <3>3. CASE ReceiveEnlist(u)
      BY <3>3 DEF ReceiveEnlist, GoTo
    <3> QED
      BY <3>1, <3>2, <3>3 DEF Receive
  <2> QED
    BY <2>1, <2>2 DEF TypeInv, TypeOK
<1>1. RefusedSent'
  BY <1>0 DEF OrderInv, RefusedSent
<1>2. CASE (\E kind : ReceiveNothing(u, kind)) \/ ReceiveEnlist(u)
  <2>1. UNCHANGED <<taken, buffer, send_waiters>>
    BY <1>2 DEF ReceiveNothing, ReceiveEnlist, stateVars, historyVars
  <2> QED
    BY <1>0, <1>1, <2>1, StreamSame, OrderKeeps
<1>3. CASE ReceiveBuffered(u) /\ send_waiters = <<>>
  <2>1. StreamStays /\ UNCHANGED send_waiters
    BY <1>3, StreamTaken DEF ReceiveBuffered
  <2> QED
    BY <1>0, <1>1, <2>1, OrderKeeps
<1>4. CASE ReceiveBuffered(u) /\ send_waiters # <<>>
  <2> DEFINE n == Len(send_waiters)
             t == send_waiters[n][1]
  <2>1. /\ send_waiters' = Rest(send_waiters) /\ buffer # <<>>
        /\ taken' = Append(taken, Head(buffer))
        /\ buffer' = Append(Tail(buffer), send_waiters[n][2])
    BY <1>4 DEF ReceiveBuffered
  <2>2. /\ n \in Nat \ {0} /\ DOMAIN send_waiters = 1..n /\ DOMAIN send_waiters' = 1..(n - 1)
        /\ \A i \in 1..(n - 1) : send_waiters'[i] = send_waiters[i]
    <3>1. send_waiters \in Seq(Tasks \X Messages)
      BY DEF TypeInv, TypeOK
    <3>2. /\ n \in Nat \ {0} /\ Rest(send_waiters) \in Seq(Tasks \X Messages) /\ Len(Rest(send_waiters)) = n - 1
          /\ \A i \in 1..(n - 1) : Rest(send_waiters)[i] = send_waiters[i]
      BY <1>4, <3>1, RestType
    <3> QED
      BY <2>1, <3>1, <3>2
  <2>3. /\ t \in Users /\ t # Main /\ sent[t] \in Int
        /\ send_waiters[n][2] = <<t, sent[t]>> /\ send_waiters[n][2] \in Messages
        /\ Behind(Stream, t, sent[t])
    BY <2>2, SentType DEF OrderInv, LineFresh
  <2> HIDE DEF n, t
  <2>4. StreamGrows(<<t, sent[t]>>)
    BY <2>1, <2>3, StreamAdmits
  <2>5. /\ StreamOrder'
        /\ \A v, k : Behind(Stream, v, k) /\ v # t => Behind(Stream', v, k)
        /\ Behind(Stream', t, sent[t] + 1)
    <3>1. sent[t] + 1 \in Int /\ sent[t] < sent[t] + 1
      BY <2>3
    <3> QED
      BY <2>3, <2>4, <3>1, GrowsBehind DEF OrderInv
  <2>6. StreamSent'
    BY <1>0, <2>5 DEF OrderInv, StreamSent
  <2>7. LineFresh'
    <3> SUFFICES ASSUME NEW i \in 1..(n - 1)
                 PROVE  /\ send_waiters[i][2] = <<send_waiters[i][1], sent[send_waiters[i][1]]>>
                        /\ Behind(Stream', send_waiters[i][1], sent[send_waiters[i][1]])
      BY <1>0, <2>2 DEF LineFresh
    <3>1. i \in 1..n /\ i # n /\ n \in 1..n
      BY <2>2
    <3>2. send_waiters[i][1] # t
      BY <2>2, <3>1 DEF WakerInv, SendDistinct, t
    <3> QED
      BY <2>2, <2>5, <3>1, <3>2 DEF OrderInv, LineFresh
  <2>8. SpinFresh'
    BY <1>0, <2>3, <2>5 DEF OrderInv, SpinFresh
  <2> QED
    BY <1>1, <2>5, <2>6, <2>7, <2>8 DEF OrderInv
<1> QED
  BY <1>2, <1>3, <1>4 DEF Receive

LEMMA OrderSpin ==
  ASSUME TypeInv, TypeInv', WakerInv, OrderInv, MainSpin
  PROVE  OrderInv'
<1>0. Main \in Users
  BY DEF Users
<1>1. CASE SendSpin
  BY <1>0, <1>1, OrderWaits DEF SendSpin, WakerInv, stateVars, historyVars
<1>2. CASE SpinSendDone /\ ~closed
  <2>1. /\ pc[Main] = "spinSend" /\ buffer' = Append(buffer, <<Main, sent[Main]>>)
        /\ UNCHANGED <<taken, send_waiters, sent, refused>> /\ Return(Main)
    BY <1>2 DEF SpinSendDone
  <2>2. /\ <<Main, sent[Main]>> \in Messages /\ sent[Main] \in Int /\ Behind(Stream, Main, sent[Main])
        /\ sent[Main] + 1 \in Int /\ sent[Main] < sent[Main] + 1
    BY <1>0, <2>1, SentType DEF TypeInv, SpinSends, OrderInv, SpinFresh
  <2>3. /\ StreamOrder'
        /\ \A v, k : Behind(Stream, v, k) /\ v # Main => Behind(Stream', v, k)
        /\ Behind(Stream', Main, sent[Main] + 1)
    BY <2>1, <2>2, StreamBuffered, GrowsBehind DEF OrderInv
  <2>4. StreamSent'
    BY <2>1, <2>3 DEF OrderInv, StreamSent
  <2>5. LineFresh'
    BY <2>1, <2>3, SentType DEF OrderInv, LineFresh
  <2>6. SpinFresh'
    BY <1>0, <2>1, ReturnType DEF SpinFresh
  <2>7. RefusedSent'
    BY <2>1 DEF OrderInv, RefusedSent
  <2> QED
    BY <2>3, <2>4, <2>5, <2>6, <2>7 DEF OrderInv
<1>3. CASE (SpinSendDone /\ closed) \/ SpinSendTimeout
  <2>1. /\ pc[Main] = "spinSend" /\ UNCHANGED <<taken, buffer, send_waiters, sent>> /\ Return(Main)
        /\ refused' = refused \cup {<<Main, sent[Main]>>}
    BY <1>3 DEF SpinSendDone, SpinSendTimeout, stateVars
  <2>2. RefusedSent'
    BY <1>0, <2>1, SentType DEF OrderInv, RefusedSent
  <2> QED
    BY <1>0, <2>1, <2>2, OrderKeeps, StreamSame, ReturnType
<1>4. CASE ReceiveSpin
  <2>1. UNCHANGED <<taken, buffer, send_waiters, sent, refused>> /\ pc'[Main] = "spinRecv"
    BY <1>0, <1>4 DEF ReceiveSpin, CallsReceive, GoTo, TypeInv, TypeOK, stateVars, historyVars
  <2>2. RefusedSent'
    BY <2>1 DEF OrderInv, RefusedSent
  <2> QED
    BY <2>1, <2>2, OrderKeeps, StreamSame
<1>5. CASE SpinReceiveDone
  <2>1. UNCHANGED <<send_waiters, sent, refused>> /\ Return(Main) /\ StreamStays
    BY <1>5, StreamTaken DEF SpinReceiveDone
  <2>2. RefusedSent'
    BY <2>1 DEF OrderInv, RefusedSent
  <2> QED
    BY <1>0, <2>1, <2>2, OrderKeeps, ReturnType
<1>6. CASE SpinReceiveGivesUp
  <2>1. UNCHANGED <<taken, buffer, send_waiters, sent, refused>> /\ Return(Main)
    BY <1>6 DEF SpinReceiveGivesUp, stateVars, historyVars
  <2>2. RefusedSent'
    BY <2>1 DEF OrderInv, RefusedSent
  <2> QED
    BY <1>0, <2>1, <2>2, OrderKeeps, StreamSame, ReturnType
<1> QED
  BY <1>1, <1>2, <1>3, <1>4, <1>5, <1>6 DEF MainSpin

LEMMA OrderNext == TypeInv /\ TypeInv' /\ WakerInv /\ OrderInv /\ [Next]_vars => OrderInv'
<1> SUFFICES ASSUME TypeInv, TypeInv', WakerInv, OrderInv, [Next]_vars PROVE OrderInv'
  OBVIOUS
<1>0. Main \in Users /\ Main \notin Tasks
  BY UsersOK DEF Users
<1>1. ASSUME UNCHANGED <<taken, buffer, send_waiters, sent, refused>>,
             pc'[Main] = "spinSend" => pc[Main] = "spinSend"
      PROVE  OrderInv'
  <2>1. RefusedSent'
    BY <1>1 DEF OrderInv, RefusedSent
  <2> QED
    BY <1>1, <2>1, OrderKeeps, StreamSame
<1>2. ASSUME NEW u \in Users, Close(u) PROVE OrderInv'
  <2>1. /\ UNCHANGED <<taken, buffer, sent>> /\ send_waiters' = <<>>
        /\ refused' = refused \cup {send_waiters[i][2] : i \in DOMAIN send_waiters}
    BY <1>2 DEF Close
  <2>2. pc'[Main] = "spinSend" => pc[Main] = "spinSend"
    BY <1>0, <1>2, CloseOwes DEF WakerInv
  <2>3. RefusedSent'
    <3>1. \A i \in DOMAIN send_waiters : send_waiters[i][2][2] <= sent[send_waiters[i][2][1]]
      BY SentType DEF OrderInv, LineFresh
    <3> QED
      BY <2>1, <3>1 DEF OrderInv, RefusedSent
  <2> QED
    BY <2>1, <2>2, <2>3, OrderKeeps, StreamSame
<1>3. ASSUME NEW u \in Users, WakeNext(u) PROVE OrderInv'
  <2>1. pc'[Main] = "spinSend" => pc[Main] = "spinSend"
    BY <1>0, <1>3, PaysOne DEF WakerInv, TypeInv, TypeOK
  <2> QED
    BY <1>1, <1>3, <2>1, StepsOutside DEF stateVars
<1>4. ASSUME NEW t \in Tasks, TaskStep(t) PROVE OrderInv'
  <2>1. pc'[Main] = pc[Main]
    BY <1>0, <1>4 DEF TaskStep, SwitchOut, Resume, Cancel, DieCancelled, GoTo, TypeInv, TypeOK
  <2> QED
    BY <1>1, <1>4, <2>1, StepsOutside DEF stateVars
<1>5. CASE UNCHANGED vars
  BY <1>1, <1>5 DEF vars, stateVars, historyVars
<1> QED
  BY <1>2, <1>3, <1>4, <1>5, OrderSend, OrderReceive, OrderSpin DEF Next

LEMMA OrderInit == Init => OrderInv
<1> SUFFICES ASSUME Init PROVE OrderInv
  OBVIOUS
<1>1. taken = <<>> /\ buffer = <<>> /\ send_waiters = <<>> /\ refused = {} /\ pc[Main] = "idle"
  BY DEF Init, Users
<1>2. DOMAIN Stream = {}
  BY <1>1 DEF Stream
<1> QED
  BY <1>1, <1>2 DEF OrderInv, StreamOrder, StreamSent, LineFresh, SpinFresh, RefusedSent, Behind

LEMMA OrderInvariant == Spec => []OrderInv
BY OrderInit, OrderNext, TypeInvariant, WakerInvariant, PTL DEF Spec

\* One sender's messages leave the channel in the order it sent them, though
\* the list of waiting senders is served last in, first out: a sender waits
\* with one message at a time, its newest.
THEOREM SendersKeepOrder == Spec => []SenderOrder
<1>1. TypeInv /\ OrderInv => SenderOrder
  <2> SUFFICES ASSUME TypeInv, OrderInv, NEW i \in DOMAIN taken, NEW j \in DOMAIN taken,
                      i < j, taken[i][1] = taken[j][1]
               PROVE  taken[i][2] < taken[j][2]
    BY DEF SenderOrder
  <2>1. taken \in Seq(Messages) /\ buffer \in Seq(Messages)
    BY DEF TypeInv, TypeOK
  <2>2. /\ i \in DOMAIN Stream /\ j \in DOMAIN Stream
        /\ Stream[i] = taken[i] /\ Stream[j] = taken[j]
    BY <2>1 DEF Stream
  <2> QED
    BY <2>2 DEF OrderInv, StreamOrder
<1> QED
  BY <1>1, TypeInvariant, OrderInvariant, PTL

-----------------------------------------------------------------------------
(* Values on their way                                                     *)
(*                                                                         *)
(* A wake-up with a value is owed by the sender of the value, is the only  *)
(* one it owes and carries its newest message; a thread woken with a value *)
(* has it in its result field.                                             *)

ValueOwed ==
  \A u \in Users : \A i \in DOMAIN owes[u] :
    owes[u][i].how = "value" =>
      owes[u][i].val = <<u, sent[u]>> /\ owes[u][i].val \in Messages /\ Len(owes[u]) = 1
ValueHeld == \A t \in Tasks : woken[t] = "value" => result[t] \in Messages

ValueInv == ValueOwed /\ ValueHeld

\* A critical section of an idle user that owes nothing, or one plain wake-up.
LEMMA ValueKeeps ==
  ASSUME TypeInv, ValueInv, NEW u \in Users, pc[u] # "waking",
         \A v \in Users : v # u => owes'[v] = owes[v] /\ sent'[v] = sent[v],
         \A i \in DOMAIN owes'[u] : owes'[u][i].how = "value" =>
            owes'[u][i].val = <<u, sent'[u]>> /\ owes'[u][i].val \in Messages /\ Len(owes'[u]) = 1,
         UNCHANGED <<woken, result>>
  PROVE  ValueInv'
<1>1. ValueOwed'
  BY DEF ValueInv, ValueOwed
<1>2. ValueHeld'
  BY DEF ValueInv, ValueHeld
<1> QED
  BY <1>1, <1>2 DEF ValueInv

LEMMA ValueSend ==
  ASSUME TypeInv, WakerInv, ValueInv, NEW u \in Users, Send(u)
  PROVE  ValueInv'
<1>0. CallsSend(u)
  BY DEF Send, SendClosed, SendDirect, SendBuffer, SendRefused, SendEnlist
<1>1. /\ pc[u] = "idle" /\ Message(u) \in Messages /\ Message(u) = <<u, sent'[u]>>
      /\ owes[u] = <<>> /\ UNCHANGED <<woken, result>>
      /\ \A v \in Users : v # u => sent'[v] = sent[v]
  BY <1>0, MessageType, OwesNothing DEF CallsSend, Message, taskVars
<1>2. ASSUME UNCHANGED owes PROVE ValueInv'
  <2>1. DOMAIN owes[u] = {}
    BY <1>1
  <2> QED
    BY <1>1, <1>2, <2>1, ValueKeeps
<1>3. CASE SendClosed(u)
  BY <1>1, <1>2, <1>3, NobodyWakes DEF SendClosed
<1>4. CASE SendDirect(u)
  <2> DEFINE w == Wakeup(recv_waiters[Len(recv_waiters)], "value", Message(u))
  <2>1. w \in Wakeups /\ w.val = Message(u)
    BY <1>1, <1>4, PopsRecv, OneWakeup DEF SendDirect, DirectDelivery, WakerInv, Wakeup
  <2>2. Owe(u, <<w>>)
    BY <1>4 DEF SendDirect
  <2> HIDE DEF w
  <2>3. /\ owes'[u] = <<w>> /\ DOMAIN owes'[u] = {1} /\ owes'[u][1] = w /\ Len(owes'[u]) = 1
        /\ \A v \in Users : v # u => owes'[v] = owes[v]
    BY <1>1, <2>1, <2>2, OwesOne DEF TypeInv, TypeOK
  <2> QED
    BY <1>1, <2>1, <2>3, ValueKeeps
<1>5. ASSUME NEW kind, SendBuffer(u, kind) PROVE ValueInv'
  <2>1. CASE kind # "try" /\ recv_waiters # <<>>
    <3> DEFINE w == Wakeup(recv_waiters[Len(recv_waiters)], "plain", Nil)
    <3>1. Owe(u, <<w>>) /\ recv_waiters' = Rest(recv_waiters)
      BY <1>5, <2>1 DEF SendBuffer
    <3>2. w \in Wakeups /\ w.how = "plain"
      BY <2>1, <3>1, PopsRecv, OneWakeup DEF WakerInv, Wakeup
    <3> HIDE DEF w
    <3>3. /\ DOMAIN owes'[u] = {1} /\ owes'[u][1] = w
          /\ \A v \in Users : v # u => owes'[v] = owes[v]
      BY <1>1, <3>1, <3>2, OwesOne
    <3> QED
      BY <1>1, <3>2, <3>3, ValueKeeps
  <2>2. CASE ~(kind # "try" /\ recv_waiters # <<>>)
    BY <1>1, <1>2, <1>5, <2>2, NobodyWakes DEF SendBuffer
  <2> QED
    BY <2>1, <2>2
<1>6. ASSUME NEW kind, SendRefused(u, kind) PROVE ValueInv'
  BY <1>1, <1>2, <1>6, NobodyWakes DEF SendRefused
<1>7. CASE SendEnlist(u)
  BY <1>2, <1>7 DEF SendEnlist
<1> QED
  BY <1>3, <1>4, <1>5, <1>6, <1>7 DEF Send

LEMMA ValueReceive ==
  ASSUME TypeInv, WakerInv, ValueInv, NEW u \in Users, Receive(u)
  PROVE  ValueInv'
<1>1. pc[u] = "idle" /\ owes[u] = <<>> /\ UNCHANGED <<woken, result, sent>>
  BY OwesNothing DEF Receive, ReceiveBuffered, ReceiveNothing, ReceiveEnlist, CallsReceive, taskVars
<1>2. ASSUME UNCHANGED owes PROVE ValueInv'
  BY <1>1, <1>2 DEF ValueInv, ValueOwed, ValueHeld
<1>3. CASE ReceiveBuffered(u) /\ send_waiters # <<>>
  <2> DEFINE w == Wakeup(send_waiters[Len(send_waiters)][1], "plain", Nil)
  <2>1. Owe(u, <<w>>) /\ send_waiters' = Rest(send_waiters)
    BY <1>3 DEF ReceiveBuffered
  <2>2. w \in Wakeups /\ w.how = "plain"
    <3>1. send_waiters[Len(send_waiters)][1] \in Tasks
      BY <1>3, <2>1, PopsSend DEF WakerInv
    <3> QED
      BY <3>1, OneWakeup DEF Wakeup
  <2> HIDE DEF w
  <2>3. /\ DOMAIN owes'[u] = {1} /\ owes'[u][1] = w
        /\ \A v \in Users : v # u => owes'[v] = owes[v]
    BY <1>1, <2>1, <2>2, OwesOne
  <2> QED
    BY <1>1, <2>2, <2>3, ValueKeeps
<1>4. CASE ReceiveBuffered(u) /\ send_waiters = <<>>
  BY <1>1, <1>2, <1>4, NobodyWakes DEF ReceiveBuffered
<1>5. ASSUME NEW kind, ReceiveNothing(u, kind) PROVE ValueInv'
  BY <1>1, <1>2, <1>5, NobodyWakes DEF ReceiveNothing
<1>6. CASE ReceiveEnlist(u)
  BY <1>2, <1>6 DEF ReceiveEnlist
<1> QED
  BY <1>3, <1>4, <1>5, <1>6 DEF Receive

LEMMA ValueNext == TypeInv /\ WakerInv /\ ValueInv /\ [Next]_vars => ValueInv'
<1> SUFFICES ASSUME TypeInv, WakerInv, ValueInv, [Next]_vars PROVE ValueInv'
  OBVIOUS
<1>1. ASSUME UNCHANGED <<owes, sent, woken, result>> PROVE ValueInv'
  BY <1>1 DEF ValueInv, ValueOwed, ValueHeld
<1>2. CASE MainSpin
  <2>0. Main \in Users
    BY DEF Users
  <2>1. CASE SendSpin
    <3>1. /\ pc[Main] = "idle" /\ UNCHANGED <<owes, woken, result>>
          /\ \A v \in Users : v # Main => sent'[v] = sent[v]
      BY <2>0, <2>1, MessageType DEF SendSpin, CallsSend, taskVars
    <3>2. DOMAIN owes[Main] = {}
      BY <2>0, <3>1, OwesNothing
    <3> QED
      BY <2>0, <3>1, <3>2, ValueKeeps
  <2>2. CASE ReceiveSpin
    BY <1>1, <2>2 DEF ReceiveSpin, CallsReceive, taskVars
  <2>3. CASE SpinSendDone \/ SpinSendTimeout \/ SpinReceiveDone \/ SpinReceiveGivesUp
    <3>1. Return(Main) /\ pc[Main] # "waking" /\ UNCHANGED <<sent, woken, result>>
      BY <2>3 DEF SpinSendDone, SpinSendTimeout, SpinReceiveDone, SpinReceiveGivesUp, taskVars
    <3> QED
      BY <1>1, <2>0, <3>1, NobodyWakes
  <2> QED
    BY <1>2, <2>1, <2>2, <2>3 DEF MainSpin
<1>3. ASSUME NEW u \in Users, Close(u) PROVE ValueInv'
  <2>1. pc[u] = "idle" /\ UNCHANGED <<sent, woken, result>>
    BY <1>3 DEF Close, taskVars
  <2> QED
    BY <1>3, <2>1, CloseOwes, ValueKeeps DEF WakerInv
<1>4. ASSUME NEW u \in Users, WakeNext(u) PROVE ValueInv'
  <2> DEFINE w == Head(owes[u])
  <2>1. /\ w = owes[u][1] /\ 1 \in DOMAIN owes[u] /\ Len(owes'[u]) = Len(owes[u]) - 1
        /\ \A i \in DOMAIN owes'[u] : i + 1 \in DOMAIN owes[u] /\ owes'[u][i] = owes[u][i + 1]
        /\ \A v \in Users : v # u => owes'[v] = owes[v]
    BY <1>4, PaysOne DEF WakerInv
  <2>2. /\ UNCHANGED sent /\ w.to \in Tasks
        /\ owes[u] \in Seq(Wakeups)
    BY <1>4, HeadType DEF WakeNext
  <2>3. CASE pc[w.to] = "died"
    <3>1. UNCHANGED <<woken, result>>
      BY <1>4, <2>3 DEF WakeNext
    <3>2. ValueHeld'
      BY <3>1 DEF ValueInv, ValueHeld
    <3> QED
      <4>1. \A i \in DOMAIN owes'[u] : owes'[u][i].how # "value"
        BY <2>1, <2>2 DEF ValueInv, ValueOwed
      <4>2. ValueOwed'
        BY <2>1, <2>2, <4>1 DEF ValueInv, ValueOwed
      <4> QED
        BY <3>2, <4>2 DEF ValueInv
  <2>4. CASE pc[w.to] # "died"
    <3>1. /\ woken' = [woken EXCEPT ![w.to] = w.how]
          /\ result' = IF w.how = "value" THEN [result EXCEPT ![w.to] = w.val] ELSE result
      BY <1>4, <2>4 DEF WakeNext
    <3>2. w.how = "value" => w.val \in Messages
      BY <2>1 DEF ValueInv, ValueOwed
    <3> HIDE DEF w
    <3>3. ValueHeld'
      BY <2>2, <3>1, <3>2 DEF ValueInv, ValueHeld, TypeInv, TypeOK
    <3>4. \A i \in DOMAIN owes'[u] : owes'[u][i].how # "value"
      BY <2>1, <2>2 DEF ValueInv, ValueOwed
    <3>5. ValueOwed'
      BY <2>1, <2>2, <3>4 DEF ValueInv, ValueOwed
    <3> QED
      BY <3>3, <3>5 DEF ValueInv
  <2> QED
    BY <2>3, <2>4
<1>5. ASSUME NEW t \in Tasks, TaskStep(t) PROVE ValueInv'
  <2>1. UNCHANGED <<owes, sent, result>>
    BY <1>5 DEF TaskStep, SwitchOut, Resume, Cancel, DieCancelled, taskVars
  <2>2. \A s \in Tasks : woken'[s] = "value" => woken[s] = "value"
    BY <1>5 DEF TaskStep, SwitchOut, Resume, Cancel, DieCancelled, taskVars, TypeInv, TypeOK
  <2> QED
    BY <2>1, <2>2 DEF ValueInv, ValueOwed, ValueHeld
<1>6. CASE UNCHANGED vars
  BY <1>1, <1>6 DEF vars, taskVars
<1> QED
  BY <1>2, <1>3, <1>4, <1>5, <1>6, ValueSend, ValueReceive DEF Next

LEMMA ValueInvariant == Spec => []ValueInv
<1>1. Init => ValueInv
  BY DEF Init, ValueInv, ValueOwed, ValueHeld
<1> QED
  BY <1>1, ValueNext, TypeInvariant, WakerInvariant, PTL DEF Spec

-----------------------------------------------------------------------------
(* Each message is in one place                                            *)
(*                                                                         *)
(* While the channel is open, nobody is cancelled and the entry thread has *)
(* not touched the buffer, every wake-up reaches the wait it is meant for: *)
(* a value or a close reaches a receiver, room reaches a sender.           *)

Quiet == ~mainSpun /\ ~closed /\ \A t \in Tasks : ~cancelRequested[t]

QuietWakes ==
  /\ \A t \in Tasks : pc[t] # "died" /\ ~errorFlag[t] /\ woken[t] # "error"
  /\ \A u \in Users : \A i \in DOMAIN owes[u] :
       \/ owes[u][i].how = "value" /\ pc[owes[u][i].to] \in RecvPcs
       \/ owes[u][i].how = "plain" /\ pc[owes[u][i].to] \in SendPcs
  /\ \A t \in Tasks : (woken[t] = "value" => pc[t] \in RecvPcs) /\ (woken[t] = "plain" => pc[t] \in SendPcs)

AsNat(b) == IF b THEN 1 ELSE 0

InBuffer(m) == \E i \in DOMAIN buffer : buffer[i] = m
InLine(m) == \E i \in DOMAIN send_waiters : send_waiters[i][2] = m
InFlight(m) == \E u \in Users : \E i \in DOMAIN owes[u] : owes[u][i].how = "value" /\ owes[u][i].val = m
InHand(m) == \E t \in Tasks : woken[t] = "value" /\ result[t] = m
Spinning(m) == pc[Main] = "spinSend" /\ m = <<Main, sent[Main]>>

Count(m) ==
  AsNat(InBuffer(m)) + AsNat(InLine(m)) + AsNat(InFlight(m)) + AsNat(InHand(m)) + AsNat(Spinning(m)) + obtained[m]
Expected(m) == IF m[2] <= sent[m[1]] /\ m \notin refused THEN 1 ELSE 0

Counted == \A m \in Messages : Count(m) = Expected(m)
OneHand == \A s, t \in Tasks : woken[s] = "value" /\ woken[t] = "value" /\ result[s] = result[t] => s = t

QuietInv == Quiet => QuietWakes /\ Counted /\ OneHand

\* Quiet, once over, does not come back.
LEMMA QuietBefore ==
  ASSUME TypeInv, [Next]_vars, Quiet'
  PROVE  Quiet
<1>1. /\ mainSpun => mainSpun'
      /\ closed => closed'
      /\ \A t \in Tasks : cancelRequested[t] => cancelRequested'[t]
  <2>1. ASSUME NEW u \in Users, Send(u) \/ Receive(u) \/ Close(u) \/ WakeNext(u)
        PROVE  UNCHANGED <<mainSpun, cancelRequested>> /\ (closed => closed')
    BY <2>1 DEF Send, SendClosed, SendDirect, SendBuffer, SendRefused, SendEnlist, Receive, ReceiveBuffered,
       ReceiveNothing, ReceiveEnlist, Close, WakeNext, CallsSend, CallsReceive, stateVars, taskVars, historyVars
  <2>2. ASSUME MainSpin PROVE UNCHANGED <<closed, cancelRequested>> /\ (mainSpun => mainSpun')
    BY <2>2 DEF MainSpin, SendSpin, SpinSendDone, SpinSendTimeout, ReceiveSpin, SpinReceiveDone,
       SpinReceiveGivesUp, CallsSend, CallsReceive, stateVars, taskVars, historyVars
  <2>3. ASSUME NEW t \in Tasks, TaskStep(t)
        PROVE  UNCHANGED <<closed, mainSpun>> /\ \A s \in Tasks : cancelRequested[s] => cancelRequested'[s]
    BY <2>3 DEF TaskStep, SwitchOut, Resume, Cancel, DieCancelled, stateVars, taskVars, historyVars, TypeInv, TypeOK
  <2>4. CASE UNCHANGED vars
    BY <2>4 DEF vars, stateVars, taskVars, historyVars
  <2> QED
    BY <2>1, <2>2, <2>3, <2>4 DEF Next
<1> QED
  BY <1>1 DEF Quiet

\* A message is buffered once, and waits in one sender's hand.
LEMMA OnceBuffered ==
  ASSUME TypeInv, OrderInv, NEW i \in DOMAIN buffer, NEW j \in DOMAIN buffer, buffer[i] = buffer[j]
  PROVE  i = j
<1>1. taken \in Seq(Messages) /\ buffer \in Seq(Messages)
  BY DEF TypeInv, TypeOK
<1>2. /\ i \in 1..Len(buffer) /\ j \in 1..Len(buffer) /\ Len(taken) \in Nat /\ Len(buffer) \in Nat
      /\ buffer[i][2] \in Int /\ buffer[j][2] \in Int
  BY <1>1, SentType
<1>3. /\ Len(taken) + i \in DOMAIN Stream /\ Stream[Len(taken) + i] = buffer[i]
      /\ Len(taken) + j \in DOMAIN Stream /\ Stream[Len(taken) + j] = buffer[j]
  BY <1>1, <1>2 DEF Stream
<1>4. CASE i < j
  <2>1. Len(taken) + i < Len(taken) + j
    BY <1>2, <1>4
  <2>2. buffer[i][2] < buffer[j][2]
    BY <1>3, <2>1 DEF OrderInv, StreamOrder
  <2> QED
    BY <1>2, <2>2
<1>5. CASE j < i
  <2>1. Len(taken) + j < Len(taken) + i
    BY <1>2, <1>5
  <2>2. buffer[j][2] < buffer[i][2]
    BY <1>3, <2>1 DEF OrderInv, StreamOrder
  <2> QED
    BY <1>2, <2>2
<1>6. i < j \/ j < i \/ i = j
  <2>1. i \in Int /\ j \in Int
    BY <1>2
  <2>2. \A a, b \in Int : a < b \/ b < a \/ a = b
    OBVIOUS
  <2> QED
    BY <2>1, <2>2
<1> QED
  BY <1>4, <1>5, <1>6, Zenon

LEMMA OnceInLine ==
  ASSUME TypeInv, WakerInv, OrderInv, NEW i \in DOMAIN send_waiters, NEW j \in DOMAIN send_waiters,
         send_waiters[i][2] = send_waiters[j][2]
  PROVE  i = j
<1>1. /\ send_waiters[i][2] = <<send_waiters[i][1], sent[send_waiters[i][1]]>>
      /\ send_waiters[j][2] = <<send_waiters[j][1], sent[send_waiters[j][1]]>>
  BY DEF OrderInv, LineFresh
<1>2. \A a, b, c, d : <<a, b>> = <<c, d>> => a = c
  OBVIOUS
<1>3. send_waiters[i][1] = send_waiters[j][1]
  <2>1. <<send_waiters[i][1], sent[send_waiters[i][1]]>> = <<send_waiters[j][1], sent[send_waiters[j][1]]>>
    BY <1>1
  <2> QED
    BY <1>2, <2>1, Zenon
<1> QED
  BY <1>3 DEF WakerInv, SendDistinct

\* Where a message is after a critical section that leaves the place alone.
LEMMA SamePlaces ==
  /\ UNCHANGED buffer => \A m : InBuffer(m)' <=> InBuffer(m)
  /\ UNCHANGED send_waiters => \A m : InLine(m)' <=> InLine(m)
  /\ UNCHANGED owes => \A m : InFlight(m)' <=> InFlight(m)
  /\ UNCHANGED <<woken, result>> => \A m : InHand(m)' <=> InHand(m)
<1>1. UNCHANGED buffer => \A m : InBuffer(m)' <=> InBuffer(m)
  BY DEF InBuffer
<1>2. UNCHANGED send_waiters => \A m : InLine(m)' <=> InLine(m)
  BY DEF InLine
<1>3. UNCHANGED owes => \A m : InFlight(m)' <=> InFlight(m)
  BY DEF InFlight
<1>4. UNCHANGED <<woken, result>> => \A m : InHand(m)' <=> InHand(m)
  BY DEF InHand
<1> QED
  BY <1>1, <1>2, <1>3, <1>4

LEMMA SameHands == OneHand /\ UNCHANGED <<woken, result>> => OneHand'
BY DEF OneHand

\* A wake-up owed by a critical section joins the messages on their way if it
\* carries one.
LEMMA FlightOwed ==
  ASSUME TypeInv, NEW u \in Users, pc[u] = "idle", NEW w \in Wakeups, Owe(u, <<w>>)
  PROVE  \A m : InFlight(m)' <=> InFlight(m) \/ (w.how = "value" /\ w.val = m)
<1>1. /\ DOMAIN owes'[u] = {1} /\ owes'[u][1] = w
      /\ \A v \in Users : v # u => owes'[v] = owes[v]
  BY OwesOne
<1>2. DOMAIN owes[u] = {}
  BY OwesNothing
<1> QED
  BY <1>1, <1>2, Zenon DEF InFlight

\* The message of a send that begins is new: nowhere, and not counted before.
LEMMA NewMessage ==
  ASSUME TypeInv, OrderInv, NEW u \in Users, CallsSend(u)
  PROVE  /\ \A m \in Messages : m # Message(u) => (m[2] <= sent'[m[1]] <=> m[2] <= sent[m[1]])
         /\ Message(u)[2] <= sent'[Message(u)[1]] /\ ~(Message(u)[2] <= sent[Message(u)[1]])
         /\ Message(u) \notin refused
<1>1. /\ Message(u) = <<u, sent[u] + 1>> /\ sent'[u] = sent[u] + 1 /\ Message(u) \in Messages
      /\ \A v \in Users : v # u => sent'[v] = sent[v]
      /\ \A v \in Users : sent[v] \in Int
  BY MessageType, SentType
<1>2. Message(u)[2] <= sent'[Message(u)[1]] /\ ~(Message(u)[2] <= sent[Message(u)[1]])
  BY <1>1
<1>3. Message(u) \notin refused
  BY <1>2 DEF OrderInv, RefusedSent
<1>4. ASSUME NEW m \in Messages, m # Message(u)
      PROVE  m[2] <= sent'[m[1]] <=> m[2] <= sent[m[1]]
  <2>1. m[1] \in Users /\ m[2] \in Int /\ m = <<m[1], m[2]>>
    BY SentType DEF Messages
  <2>2. CASE m[1] = u
    <3>1. m[2] # sent[u] + 1
      BY <1>1, <1>4, <2>1, <2>2
    <3> QED
      BY <1>1, <2>1, <2>2, <3>1
  <2>3. CASE m[1] # u
    BY <1>1, <2>1, <2>3
  <2> QED
    BY <2>2, <2>3
<1> QED
  BY <1>2, <1>3, <1>4

\* A send puts its message in one place or has it refused.
LEMMA CountSends ==
  ASSUME TypeInv, OrderInv, Counted, NEW u \in Users, CallsSend(u), UNCHANGED obtained,
         NEW new, new = Message(u),
         \A m \in Messages : m # new =>
           /\ InBuffer(m)' <=> InBuffer(m)
           /\ InLine(m)' <=> InLine(m)
           /\ InFlight(m)' <=> InFlight(m)
           /\ InHand(m)' <=> InHand(m)
           /\ Spinning(m)' <=> Spinning(m),
         \/ /\ refused' = refused
            /\ AsNat(InBuffer(new)') + AsNat(InLine(new)') + AsNat(InFlight(new)')
                 + AsNat(InHand(new)') + AsNat(Spinning(new)') = 1
         \/ /\ refused' = refused \cup {new}
            /\ AsNat(InBuffer(new)') + AsNat(InLine(new)') + AsNat(InFlight(new)')
                 + AsNat(InHand(new)') + AsNat(Spinning(new)') = 0
  PROVE  Counted'
<1>1. /\ new \in Messages /\ \A m \in Messages : obtained[m] \in Nat
      /\ new[2] <= sent'[new[1]] /\ ~(new[2] <= sent[new[1]]) /\ new \notin refused
      /\ \A m \in Messages : m # new => (m[2] <= sent'[m[1]] <=> m[2] <= sent[m[1]])
  BY MessageType, NewMessage DEF TypeInv, TypeOK
<1>2. ASSUME NEW m \in Messages, m # new PROVE Count(m)' = Expected(m)'
  <2>1. Count(m)' = Count(m)
    BY <1>2 DEF Count, AsNat
  <2>2. Expected(m)' = Expected(m)
    BY <1>1, <1>2 DEF Expected
  <2> QED
    BY <2>1, <2>2 DEF Counted
<1>3. Count(new)' = Expected(new)'
  <2>1. Expected(new) = 0 /\ Count(new) = Expected(new)
    BY <1>1 DEF Expected, Counted
  <2>2. obtained[new] = 0
    BY <1>1, <2>1 DEF Count, AsNat
  <2>3. CASE refused' = refused
    <3>1. Expected(new)' = 1
      BY <1>1, <2>3 DEF Expected
    <3> QED
      BY <1>1, <2>2, <2>3, <3>1 DEF Count
  <2>4. CASE refused' = refused \cup {new}
    <3>1. Expected(new)' = 0
      BY <2>4 DEF Expected
    <3> QED
      BY <1>1, <2>2, <2>4, <3>1 DEF Count
  <2> QED
    BY <2>3, <2>4
<1> QED
  BY <1>2, <1>3 DEF Counted

\* Where the places of a message stand while Main is not the one who acts.
LEMMA SpinningKeeps ==
  ASSUME pc'[Main] = "spinSend" <=> pc[Main] = "spinSend",
         pc[Main] = "spinSend" => sent'[Main] = sent[Main]
  PROVE  \A m : Spinning(m)' <=> Spinning(m)
BY DEF Spinning

\* In a quiet channel a send takes no receiver off the list but to hand it the
\* value: one that waits has found the buffer empty.
LEMMA QuietSend ==
  ASSUME TypeInv, StateInv, WakerInv, OrderInv, ValueInv, QuietInv, NEW u \in Users, Send(u), Quiet
  PROVE  QuietWakes' /\ Counted' /\ OneHand'
<1>0. CallsSend(u)
  BY DEF Send, SendClosed, SendDirect, SendBuffer, SendRefused, SendEnlist
<1>1. /\ pc[u] = "idle" /\ Message(u) \in Messages /\ owes[u] = <<>> /\ UNCHANGED taskVars
      /\ \A v \in Users : v # u => sent'[v] = sent[v]
      /\ QuietWakes /\ Counted /\ OneHand /\ OneHand'
      /\ Main \in Users
  BY <1>0, MessageType, OwesNothing, SameHands DEF CallsSend, QuietInv, taskVars, Users
<1>2. PICK new : new = Message(u)
  OBVIOUS
<1>3. /\ new \in Messages
      /\ ~InBuffer(new) /\ ~InLine(new) /\ ~InFlight(new) /\ ~InHand(new) /\ ~Spinning(new)
  <2>1. Count(new) = 0 /\ obtained[new] \in Nat
    BY <1>0, <1>1, <1>2, NewMessage DEF Counted, Expected, TypeInv, TypeOK
  <2> QED
    BY <1>1, <1>2, <2>1 DEF Count, AsNat
<1>4. \A m : InHand(m)' <=> InHand(m)
  BY <1>1, SamePlaces DEF taskVars
<1>5. ASSUME Return(u) 
      PROVE  QuietWakes' /\ \A m : (InFlight(m)' <=> InFlight(m)) /\ (Spinning(m)' <=> Spinning(m))
  <2>1. UNCHANGED <<owes, pc>>
    BY <1>1, <1>5, NobodyWakes DEF TypeInv, TypeOK
  <2>2. pc[Main] = "spinSend" => sent'[Main] = sent[Main]
    BY <1>1
  <2> QED
    BY <1>1, <2>1, <2>2, SamePlaces, SpinningKeeps DEF QuietWakes, taskVars
<1>6. CASE SendClosed(u)
  BY <1>6 DEF SendClosed, Quiet
<1>7. CASE SendDirect(u)
  <2> DEFINE last == recv_waiters[Len(recv_waiters)]
             w == Wakeup(last, "value", Message(u))
  <2>1. /\ last \in Tasks /\ InRecv(last)
        /\ w \in Wakeups /\ w.to = last /\ w.how = "value" /\ w.val = new
    BY <1>1, <1>2, <1>7, PopsRecv, OneWakeup DEF SendDirect, DirectDelivery, WakerInv, Wakeup
  <2>2. Owe(u, <<w>>) /\ UNCHANGED <<buffer, send_waiters, obtained, refused>>
    BY <1>7 DEF SendDirect
  <2> HIDE DEF w, last
  <2>3. /\ pc' = [pc EXCEPT ![u] = "waking"] /\ DOMAIN owes'[u] = {1} /\ owes'[u][1] = w
        /\ \A v \in Users : v # u => owes'[v] = owes[v]
    BY <1>1, <2>1, <2>2, OwesOne
  <2>4. pc[last] \in RecvPcs /\ last # u
    BY <1>1, <2>1 DEF WakerInv, OneWaker, QuietWakes, RecvPcs
  <2>5. /\ \A t \in Tasks : t # u => pc'[t] = pc[t]
        /\ pc'[u] = "waking" /\ pc[u] \notin SendPcs \cup RecvPcs
        /\ \A v \in Users : \A i \in DOMAIN owes[v] : owes[v][i].to \in Tasks
    <3>1. \A v \in Users : \A i \in DOMAIN owes[v] : owes[v][i] \in Wakeups
      BY DEF TypeInv, TypeOK
    <3> QED
      BY <1>1, <2>3, <3>1 DEF SendPcs, RecvPcs, Wakeups, TypeInv, TypeOK, Users
  <2>6. QuietWakes'
    BY <1>1, <2>1, <2>3, <2>4, <2>5 DEF QuietWakes, taskVars, SendPcs, RecvPcs
  <2>7. /\ \A m : InFlight(m)' <=> InFlight(m) \/ m = new
        /\ \A m : InBuffer(m)' <=> InBuffer(m)
        /\ \A m : InLine(m)' <=> InLine(m)
    BY <1>1, <2>1, <2>2, FlightOwed, SamePlaces
  <2>8. \A m : Spinning(m)' <=> Spinning(m)
    <3>1. pc'[Main] = "spinSend" <=> pc[Main] = "spinSend"
      BY <1>1, <2>3 DEF TypeInv, TypeOK
    <3> QED
      BY <1>1, <3>1, SpinningKeeps
  <2>9. Counted'
    <3>1. AsNat(InBuffer(new)') + AsNat(InLine(new)') + AsNat(InFlight(new)')
            + AsNat(InHand(new)') + AsNat(Spinning(new)') = 1
      BY <1>3, <1>4, <2>7, <2>8 DEF AsNat
    <3> QED
      BY <1>0, <1>1, <1>2, <1>4, <2>2, <2>7, <2>8, <3>1, CountSends
  <2> QED
    BY <1>1, <2>6, <2>9
<1>8. ASSUME NEW kind, SendBuffer(u, kind) PROVE QuietWakes' /\ Counted'
  <2>1. recv_waiters = <<>>
    BY <1>8 DEF SendBuffer, DirectDelivery, StateInv, WaitersMatchBuffer, Quiet
  <2>2. Return(u) /\ UNCHANGED <<send_waiters, refused, obtained>> /\ buffer' = Append(buffer, Message(u))
    BY <1>8, <2>1 DEF SendBuffer
  <2>3. \A m : InBuffer(m)' <=> InBuffer(m) \/ m = new
    <3>1. /\ Len(buffer) \in Nat /\ DOMAIN buffer = 1..Len(buffer) /\ DOMAIN buffer' = 1..(Len(buffer) + 1)
          /\ \A i \in 1..Len(buffer) : buffer'[i] = buffer[i]
          /\ buffer'[Len(buffer) + 1] = new
      <4>1. buffer \in Seq(Messages) /\ buffer' \in Seq(Messages) /\ Len(buffer') = Len(buffer) + 1
        BY <1>1, <2>2, AppendType DEF TypeInv, TypeOK
      <4> QED
        BY <1>1, <1>2, <2>2, <4>1, AppendType
    <3> QED
      BY <3>1 DEF InBuffer
  <2>4. /\ \A m : InLine(m)' <=> InLine(m)
        /\ \A m : InFlight(m)' <=> InFlight(m)
        /\ \A m : Spinning(m)' <=> Spinning(m)
    BY <1>5, <2>2, SamePlaces
  <2>5. AsNat(InBuffer(new)') + AsNat(InLine(new)') + AsNat(InFlight(new)')
          + AsNat(InHand(new)') + AsNat(Spinning(new)') = 1
    BY <1>3, <1>4, <2>3, <2>4 DEF AsNat
  <2>6. Counted'
    BY <1>0, <1>1, <1>2, <1>4, <2>2, <2>3, <2>4, <2>5, CountSends
  <2> QED
    BY <1>5, <2>2, <2>6
<1>9. ASSUME NEW kind, SendRefused(u, kind) PROVE QuietWakes' /\ Counted'
  <2>1. /\ Return(u) /\ UNCHANGED <<buffer, send_waiters, obtained>> /\ refused' = refused \cup {Message(u)}
    BY <1>9 DEF SendRefused, stateVars
  <2>2. /\ \A m : InBuffer(m)' <=> InBuffer(m)
        /\ \A m : InLine(m)' <=> InLine(m)
        /\ \A m : InFlight(m)' <=> InFlight(m)
        /\ \A m : Spinning(m)' <=> Spinning(m)
    BY <1>5, <2>1, SamePlaces
  <2>3. AsNat(InBuffer(new)') + AsNat(InLine(new)') + AsNat(InFlight(new)')
          + AsNat(InHand(new)') + AsNat(Spinning(new)') = 0
    BY <1>3, <1>4, <2>2 DEF AsNat
  <2>4. Counted'
    BY <1>0, <1>1, <1>2, <1>4, <2>1, <2>2, <2>3, CountSends
  <2> QED
    BY <1>5, <2>1, <2>4
<1>10. CASE SendEnlist(u)
  <2>1. /\ u \in Tasks /\ UNCHANGED <<buffer, owes, refused, obtained>>
        /\ send_waiters' = Append(send_waiters, <<u, Message(u)>>)
        /\ pc' = [pc EXCEPT ![u] = "sendParking"]
    BY <1>10 DEF SendEnlist, GoTo, historyVars
  <2>2. \A m : InLine(m)' <=> InLine(m) \/ m = new
    <3> DEFINE n == Len(send_waiters)
    <3>1. /\ n \in Nat /\ DOMAIN send_waiters = 1..n /\ DOMAIN send_waiters' = 1..(n + 1)
          /\ \A i \in 1..n : send_waiters'[i] = send_waiters[i]
          /\ send_waiters'[n + 1][2] = new
      <4>1. send_waiters \in Seq(Tasks \X Messages) /\ <<u, Message(u)>> \in Tasks \X Messages
        BY <1>1, <2>1 DEF TypeInv, TypeOK
      <4>2. send_waiters' \in Seq(Tasks \X Messages) /\ Len(send_waiters') = n + 1
        BY <2>1, <4>1, AppendType
      <4> QED
        BY <1>2, <2>1, <4>1, <4>2, AppendType
    <3> HIDE DEF n
    <3> QED
      BY <3>1 DEF InLine
  <2>3. /\ \A m : InBuffer(m)' <=> InBuffer(m)
        /\ \A m : InFlight(m)' <=> InFlight(m)
    BY <2>1, SamePlaces
  <2>4. \A m : Spinning(m)' <=> Spinning(m)
    <3>1. pc'[Main] = "spinSend" <=> pc[Main] = "spinSend"
      BY <1>1, <2>1 DEF TypeInv, TypeOK
    <3> QED
      BY <1>1, <3>1, SpinningKeeps
  <2>5. AsNat(InBuffer(new)') + AsNat(InLine(new)') + AsNat(InFlight(new)')
          + AsNat(InHand(new)') + AsNat(Spinning(new)') = 1
    BY <1>3, <1>4, <2>2, <2>3, <2>4 DEF AsNat
  <2>6. QuietWakes'
    <3>1. ~Owed(u) /\ woken[u] = "no"
      BY <1>1, <2>1, Unclaimed DEF WakerInv
    <3>2. \A v \in Users : \A i \in DOMAIN owes[v] : owes[v][i].to # u
      BY <3>1 DEF Owed
    <3>3. \A v \in Users : v # u => pc'[v] = pc[v]
      BY <2>1 DEF TypeInv, TypeOK
    <3>4. \A v \in Users : \A i \in DOMAIN owes[v] : owes[v][i].to \in Users
      <4>1. \A v \in Users : \A i \in DOMAIN owes[v] : owes[v][i] \in Wakeups
        BY DEF TypeInv, TypeOK
      <4> QED
        BY <4>1 DEF Wakeups, Users
    <3>5. pc'[u] = "sendParking" /\ \A t \in Tasks : t \in Users
      BY <2>1 DEF TypeInv, TypeOK, Users
    <3> QED
      BY <1>1, <2>1, <3>1, <3>2, <3>3, <3>4, <3>5 DEF QuietWakes, taskVars
  <2> QED
    BY <1>0, <1>1, <1>2, <1>4, <2>1, <2>2, <2>3, <2>4, <2>5, <2>6, CountSends
<1> QED
  BY <1>1, <1>6, <1>7, <1>8, <1>9, <1>10 DEF Send

\* Who a wake-up is for is a green thread.
LEMMA WakesTasks ==
  ASSUME TypeInv
  PROVE  \A u \in Users : \A i \in DOMAIN owes[u] : owes[u][i].to \in Tasks /\ owes[u][i].to \in Users
<1>1. \A u \in Users : \A i \in DOMAIN owes[u] : owes[u][i] \in Wakeups
  BY DEF TypeInv, TypeOK
<1> QED
  BY <1>1 DEF Wakeups, Users

\* The front of the buffer leaves it.
LEMMA FrontLeaves ==
  ASSUME TypeInv, OrderInv, buffer # <<>>
  PROVE  /\ Head(buffer) \in Messages /\ InBuffer(Head(buffer))
         /\ buffer' = Tail(buffer) => \A m : InBuffer(m)' <=> InBuffer(m) /\ m # Head(buffer)
         /\ \A a \in Messages : buffer' = Append(Tail(buffer), a) =>
              \A m : InBuffer(m)' <=> (InBuffer(m) /\ m # Head(buffer)) \/ m = a
<1> DEFINE n == Len(buffer)
<1>1. /\ n \in Nat \ {0} /\ DOMAIN buffer = 1..n /\ Head(buffer) = buffer[1] /\ Head(buffer) \in Messages
      /\ Tail(buffer) \in Seq(Messages) /\ Len(Tail(buffer)) = n - 1 /\ DOMAIN Tail(buffer) = 1..(n - 1)
      /\ \A i \in 1..(n - 1) : Tail(buffer)[i] = buffer[i + 1] /\ i + 1 \in 1..n
      /\ \A i \in 1..n : i = 1 \/ (i - 1 \in 1..(n - 1) /\ Tail(buffer)[i - 1] = buffer[i])
  <2>1. /\ n \in Nat \ {0} /\ DOMAIN buffer = 1..n /\ Head(buffer) = buffer[1] /\ Head(buffer) \in Messages
        /\ Tail(buffer) \in Seq(Messages) /\ Len(Tail(buffer)) = n - 1
        /\ \A i \in 1..(n - 1) : Tail(buffer)[i] = buffer[i + 1]
    BY TailType DEF TypeInv, TypeOK
  <2> HIDE DEF n
  <2>2. \A i \in 1..(n - 1) : i + 1 \in 1..n
    BY <2>1
  <2>3. \A i \in 1..n : i = 1 \/ (i - 1 \in 1..(n - 1) /\ Tail(buffer)[i - 1] = buffer[i])
    BY <2>1
  <2> QED
    BY <2>1, <2>2, <2>3
<1>2. \A i, j \in 1..n : buffer[i] = buffer[j] => i = j
  BY <1>1, OnceBuffered
<1> HIDE DEF n
<1>3. InBuffer(Head(buffer))
  BY <1>1 DEF InBuffer
<1>4. ASSUME NEW m
      PROVE  (\E i \in 1..(n - 1) : Tail(buffer)[i] = m) <=> InBuffer(m) /\ m # Head(buffer)
  <2>1. ASSUME NEW i \in 1..(n - 1), Tail(buffer)[i] = m PROVE InBuffer(m) /\ m # Head(buffer)
    <3>1. buffer[i + 1] = m /\ i + 1 \in 1..n /\ i + 1 # 1 /\ 1 \in 1..n
      BY <1>1, <2>1
    <3> QED
      BY <1>1, <1>2, <3>1 DEF InBuffer
  <2>2. ASSUME InBuffer(m), m # Head(buffer) PROVE \E i \in 1..(n - 1) : Tail(buffer)[i] = m
    BY <1>1, <2>2 DEF InBuffer
  <2> QED
    BY <2>1, <2>2
<1>5. ASSUME buffer' = Tail(buffer), NEW m PROVE InBuffer(m)' <=> InBuffer(m) /\ m # Head(buffer)
  <2>1. InBuffer(m)' <=> \E i \in 1..(n - 1) : Tail(buffer)[i] = m
    BY <1>1, <1>5 DEF InBuffer
  <2> QED
    BY <1>4, <2>1
<1>6. ASSUME NEW a \in Messages, buffer' = Append(Tail(buffer), a), NEW m
      PROVE  InBuffer(m)' <=> (InBuffer(m) /\ m # Head(buffer)) \/ m = a
  <2>1. /\ DOMAIN buffer' = 1..n /\ n \in 1..n /\ buffer'[n] = a
        /\ \A i \in 1..(n - 1) : buffer'[i] = Tail(buffer)[i] /\ i \in 1..n
        /\ \A i \in 1..n : i = n \/ i \in 1..(n - 1)
    <3>1. /\ buffer' \in Seq(Messages) /\ Len(buffer') = (n - 1) + 1
          /\ \A i \in 1..(n - 1) : buffer'[i] = Tail(buffer)[i]
          /\ buffer'[(n - 1) + 1] = a
      BY <1>1, <1>6, AppendType
    <3>2. (n - 1) + 1 = n /\ n \in 1..n /\ \A i \in 1..n : i = n \/ i \in 1..(n - 1)
      BY <1>1
    <3> QED
      BY <1>1, <3>1, <3>2
  <2>2. InBuffer(m)' <=> (\E i \in 1..(n - 1) : Tail(buffer)[i] = m) \/ m = a
    BY <2>1 DEF InBuffer
  <2> QED
    BY <1>4, <2>2
<1> QED
  BY <1>1, <1>3, <1>5, <1>6

\* A receive takes the front of the buffer, and lets in the last sender enlisted.
LEMMA QuietReceive ==
  ASSUME TypeInv, StateInv, WakerInv, OrderInv, ValueInv, QuietInv, NEW u \in Users, Receive(u), Quiet
  PROVE  QuietWakes' /\ Counted' /\ OneHand'
<1>1. /\ pc[u] = "idle" /\ owes[u] = <<>> /\ UNCHANGED taskVars /\ UNCHANGED <<sent, refused>>
      /\ QuietWakes /\ Counted /\ OneHand /\ OneHand' /\ Main \in Users
  BY OwesNothing, SameHands DEF Receive, ReceiveBuffered, ReceiveNothing, ReceiveEnlist, CallsReceive,
     QuietInv, taskVars, historyVars, Users
<1>2. \A m : InHand(m)' <=> InHand(m)
  BY <1>1, SamePlaces DEF taskVars
<1>3. \A m : Expected(m)' = Expected(m)
  BY <1>1 DEF Expected
<1>4. ASSUME Return(u)
      PROVE  QuietWakes' /\ \A m : (InFlight(m)' <=> InFlight(m)) /\ (Spinning(m)' <=> Spinning(m))
  <2>1. UNCHANGED <<owes, pc>>
    BY <1>1, <1>4, NobodyWakes DEF TypeInv, TypeOK
  <2> QED
    BY <1>1, <2>1, SamePlaces, SpinningKeeps DEF QuietWakes, taskVars
<1>5. CASE ReceiveBuffered(u) /\ send_waiters = <<>>
  <2>1. /\ buffer # <<>> /\ buffer' = Tail(buffer) /\ Return(u) /\ UNCHANGED send_waiters
        /\ obtained' = [obtained EXCEPT ![Head(buffer)] = @ + 1]
    BY <1>5 DEF ReceiveBuffered, Obtain
  <2> DEFINE h == Head(buffer)
  <2>2. h \in Messages /\ InBuffer(h) /\ \A m : InBuffer(m)' <=> InBuffer(m) /\ m # h
    BY <2>1, FrontLeaves
  <2>3. /\ \A m : InLine(m)' <=> InLine(m)
        /\ \A m : InFlight(m)' <=> InFlight(m)
        /\ \A m : Spinning(m)' <=> Spinning(m)
    BY <1>4, <2>1, SamePlaces
  <2> HIDE DEF h
  <2>4. /\ obtained[h] \in Nat /\ obtained'[h] = obtained[h] + 1
        /\ \A m \in Messages : obtained[m] \in Nat /\ (m # h => obtained'[m] = obtained[m])
    BY <2>1, <2>2 DEF TypeInv, TypeOK, h
  <2>5. ASSUME NEW m \in Messages PROVE Count(m)' = Count(m)
    <3>1. CASE m = h
      BY <1>2, <2>2, <2>3, <2>4, <3>1 DEF Count, AsNat
    <3>2. CASE m # h
      BY <1>2, <2>2, <2>3, <2>4, <3>2 DEF Count, AsNat
    <3> QED
      BY <3>1, <3>2
  <2>6. Counted'
    BY <1>1, <1>3, <2>5 DEF Counted
  <2> QED
    BY <1>1, <1>4, <2>1, <2>6
<1>6. CASE ReceiveBuffered(u) /\ send_waiters # <<>>
  <2> DEFINE n == Len(send_waiters)
             t == send_waiters[n][1]
             a == send_waiters[n][2]
             w == Wakeup(t, "plain", Nil)
             h == Head(buffer)
  <2>1. /\ buffer # <<>> /\ buffer' = Append(Tail(buffer), a) /\ send_waiters' = Rest(send_waiters)
        /\ Owe(u, <<w>>) /\ obtained' = [obtained EXCEPT ![h] = @ + 1]
    BY <1>6 DEF ReceiveBuffered, Obtain
  <2>2. t \in Tasks /\ a \in Messages /\ InSend(t) /\ w \in Wakeups /\ w.to = t /\ w.how = "plain"
    <3>1. send_waiters[n] \in Tasks \X Messages /\ InSend(t)
      BY <1>6, <2>1, PopsSend DEF WakerInv
    <3> QED
      BY <3>1, OneWakeup DEF Wakeup
  <2>3. InLine(a) /\ \A m : InLine(m)' <=> InLine(m) /\ m # a
    <3>1. /\ n \in Nat \ {0} /\ DOMAIN send_waiters = 1..n /\ DOMAIN send_waiters' = 1..(n - 1)
          /\ \A i \in 1..(n - 1) : send_waiters'[i] = send_waiters[i]
      <4>1. send_waiters \in Seq(Tasks \X Messages)
        BY DEF TypeInv, TypeOK
      <4>2. /\ n \in Nat \ {0} /\ Rest(send_waiters) \in Seq(Tasks \X Messages) /\ Len(Rest(send_waiters)) = n - 1
            /\ \A i \in 1..(n - 1) : Rest(send_waiters)[i] = send_waiters[i]
        BY <1>6, <4>1, RestType
      <4> QED
        BY <2>1, <4>1, <4>2
    <3>2. \A i, j \in 1..n : send_waiters[i][2] = send_waiters[j][2] => i = j
      BY <3>1, OnceInLine
    <3> HIDE DEF n
    <3> QED
      BY <3>1, <3>2 DEF InLine
  <2>4. /\ h \in Messages /\ InBuffer(h)
        /\ \A m : InBuffer(m)' <=> (InBuffer(m) /\ m # h) \/ m = a
    BY <2>1, <2>2, FrontLeaves
  <2> HIDE DEF w, t, a, h, n
  <2>5. /\ pc' = [pc EXCEPT ![u] = "waking"] /\ DOMAIN owes'[u] = {1} /\ owes'[u][1] = w
        /\ \A v \in Users : v # u => owes'[v] = owes[v]
    BY <1>1, <2>1, <2>2, OwesOne
  <2>6. pc[t] \in SendPcs /\ t # u
    BY <1>1, <2>2 DEF WakerInv, OneWaker, QuietWakes, SendPcs
  <2>7. QuietWakes'
    <3>1. /\ \A s \in Users : s # u => pc'[s] = pc[s]
          /\ pc'[u] = "waking" /\ pc[u] \notin SendPcs \cup RecvPcs /\ \A s \in Tasks : s \in Users
      BY <1>1, <2>5 DEF SendPcs, RecvPcs, TypeInv, TypeOK, Users
    <3> QED
      BY <1>1, <2>2, <2>5, <2>6, <3>1, WakesTasks DEF QuietWakes, taskVars, SendPcs, RecvPcs
  <2>8. \A m : InFlight(m)' <=> InFlight(m)
    BY <1>1, <2>1, <2>2, FlightOwed
  <2>9. \A m : Spinning(m)' <=> Spinning(m)
    <3>1. pc'[Main] = "spinSend" <=> pc[Main] = "spinSend"
      BY <1>1, <2>5 DEF TypeInv, TypeOK
    <3> QED
      BY <1>1, <3>1, SpinningKeeps
  <2>10. /\ obtained[h] \in Nat /\ obtained'[h] = obtained[h] + 1
         /\ \A m \in Messages : obtained[m] \in Nat /\ (m # h => obtained'[m] = obtained[m])
    BY <2>1, <2>4 DEF TypeInv, TypeOK
  <2>11. Count(a) <= 1 /\ Count(a) \in Int
    BY <1>1, <2>2 DEF Counted, Expected
  <2>12. ~InBuffer(a) /\ a # h
    <3>1. ~InBuffer(a)
      BY <2>2, <2>3, <2>10, <2>11 DEF Count, AsNat
    <3> QED
      BY <2>4, <3>1
  <2>13. ASSUME NEW m \in Messages PROVE Count(m)' = Count(m)
    <3>1. CASE m = h
      <4>1. InBuffer(m) /\ ~InBuffer(m)' /\ (InLine(m)' <=> InLine(m))
        BY <2>3, <2>4, <2>12, <3>1
      <4> QED
        BY <1>2, <2>8, <2>9, <2>10, <3>1, <4>1 DEF Count, AsNat
    <3>2. CASE m = a
      <4>1. ~InBuffer(m) /\ InBuffer(m)' /\ InLine(m) /\ ~InLine(m)' /\ obtained'[m] = obtained[m]
        BY <2>3, <2>4, <2>10, <2>12, <3>2
      <4> QED
        BY <1>2, <2>8, <2>9, <2>10, <4>1 DEF Count, AsNat
    <3>3. CASE m # h /\ m # a
      <4>1. (InBuffer(m)' <=> InBuffer(m)) /\ (InLine(m)' <=> InLine(m)) /\ obtained'[m] = obtained[m]
        BY <2>3, <2>4, <2>10, <3>3
      <4> QED
        BY <1>2, <2>8, <2>9, <4>1 DEF Count, AsNat
    <3> QED
      BY <3>1, <3>2, <3>3
  <2>14. Counted'
    BY <1>1, <1>3, <2>13 DEF Counted
  <2> QED
    BY <1>1, <2>7, <2>14
<1>7. ASSUME UNCHANGED <<buffer, send_waiters, obtained>>,
             \A m : (InFlight(m)' <=> InFlight(m)) /\ (Spinning(m)' <=> Spinning(m))
      PROVE  Counted'
  <2>1. \A m : Count(m)' = Count(m)
    BY <1>2, <1>7, SamePlaces DEF Count, AsNat
  <2> QED
    BY <1>1, <1>3, <2>1 DEF Counted
<1>8. ASSUME NEW kind, ReceiveNothing(u, kind) PROVE QuietWakes' /\ Counted'
  BY <1>4, <1>7, <1>8 DEF ReceiveNothing, stateVars, historyVars
<1>9. CASE ReceiveEnlist(u)
  <2>1. /\ u \in Tasks /\ UNCHANGED <<buffer, send_waiters, owes, obtained>>
        /\ pc' = [pc EXCEPT ![u] = "recvParking"]
    BY <1>9 DEF ReceiveEnlist, GoTo, historyVars
  <2>2. \A m : (InFlight(m)' <=> InFlight(m)) /\ (Spinning(m)' <=> Spinning(m))
    <3>1. pc'[Main] = "spinSend" <=> pc[Main] = "spinSend"
      BY <1>1, <2>1 DEF TypeInv, TypeOK
    <3> QED
      BY <1>1, <2>1, <3>1, SamePlaces, SpinningKeeps
  <2>3. QuietWakes'
    <3>1. woken[u] = "no" /\ \A v \in Users : \A i \in DOMAIN owes[v] : owes[v][i].to # u
      BY <1>1, <2>1, Unclaimed DEF WakerInv, Owed
    <3>2. /\ \A s \in Users : s # u => pc'[s] = pc[s]
          /\ pc'[u] = "recvParking" /\ \A s \in Tasks : s \in Users
      BY <2>1 DEF TypeInv, TypeOK, Users
    <3> QED
      BY <1>1, <2>1, <3>1, <3>2, WakesTasks DEF QuietWakes, taskVars
  <2> QED
    BY <1>1, <1>7, <2>1, <2>2, <2>3
<1> QED
  BY <1>1, <1>5, <1>6, <1>8, <1>9 DEF Receive

\* In a quiet channel the entry thread may spin, but gives up.
LEMMA QuietSpin ==
  ASSUME TypeInv, OrderInv, QuietInv, MainSpin, Quiet, Quiet'
  PROVE  QuietWakes' /\ Counted' /\ OneHand'
<1>0. Main \in Users /\ Main \notin Tasks
  BY UsersOK DEF Users
<1>1. QuietWakes /\ Counted /\ OneHand
  BY DEF QuietInv
<1>2. UNCHANGED <<owes, taskVars, buffer, send_waiters, obtained>> /\ \A t \in Tasks : pc'[t] = pc[t]
  <2>1. CASE SendSpin \/ ReceiveSpin
    BY <1>0, <2>1 DEF SendSpin, ReceiveSpin, CallsSend, CallsReceive, GoTo, stateVars, historyVars, TypeInv, TypeOK, Users
  <2>2. CASE SpinSendDone \/ SpinReceiveDone
    BY <2>2 DEF SpinSendDone, SpinReceiveDone, Quiet
  <2>3. CASE SpinSendTimeout \/ SpinReceiveGivesUp
    <3>1. Return(Main) /\ pc[Main] # "waking" /\ UNCHANGED <<taskVars, buffer, send_waiters, obtained>>
      BY <2>3 DEF SpinSendTimeout, SpinReceiveGivesUp, stateVars, historyVars
    <3> QED
      BY <1>0, <3>1, NobodyWakes DEF TypeInv, TypeOK, Users
  <2> QED
    BY <2>1, <2>2, <2>3 DEF MainSpin
<1>3. QuietWakes' /\ OneHand'
  BY <1>1, <1>2, WakesTasks DEF QuietWakes, OneHand, taskVars
<1>4. /\ \A m : InBuffer(m)' <=> InBuffer(m)
      /\ \A m : InLine(m)' <=> InLine(m)
      /\ \A m : InFlight(m)' <=> InFlight(m)
      /\ \A m : InHand(m)' <=> InHand(m)
  BY <1>2, SamePlaces DEF taskVars
<1>5. CASE SendSpin
  <2>1. /\ CallsSend(Main) /\ pc[Main] = "idle" /\ pc'[Main] = "spinSend" /\ UNCHANGED refused
        /\ Message(Main) = <<Main, sent'[Main]>> /\ Message(Main) \in Messages
    BY <1>0, <1>5, MessageType DEF SendSpin, CallsSend, GoTo, historyVars, TypeInv, TypeOK, Message
  <2>2. PICK new : new = Message(Main)
    OBVIOUS
  <2>3. /\ \A m : Spinning(m)' <=> m = new
        /\ \A m : ~Spinning(m)
    BY <2>1, <2>2 DEF Spinning
  <2>4. ~InBuffer(new) /\ ~InLine(new) /\ ~InFlight(new) /\ ~InHand(new)
    <3>1. Count(new) = 0 /\ obtained[new] \in Nat
      BY <1>0, <1>1, <2>1, <2>2, NewMessage DEF Counted, Expected, TypeInv, TypeOK
    <3> QED
      BY <3>1 DEF Count, AsNat
  <2>5. AsNat(InBuffer(new)') + AsNat(InLine(new)') + AsNat(InFlight(new)')
          + AsNat(InHand(new)') + AsNat(Spinning(new)') = 1
    BY <1>4, <2>3, <2>4 DEF AsNat
  <2>6. Counted'
    BY <1>0, <1>1, <1>2, <1>4, <2>1, <2>2, <2>3, <2>5, CountSends
  <2> QED
    BY <1>3, <2>6
<1>6. CASE SpinSendTimeout
  <2>1. /\ pc[Main] = "spinSend" /\ pc'[Main] = "idle" /\ UNCHANGED sent
        /\ refused' = refused \cup {<<Main, sent[Main]>>}
    BY <1>0, <1>6 DEF SpinSendTimeout, Return, Owe, GoTo, TypeInv, TypeOK
  <2>2. PICK m0 : m0 = <<Main, sent[Main]>>
    OBVIOUS
  <2>3. m0 \in Messages /\ \A m \in Messages : obtained[m] \in Nat
    BY <2>1, <2>2 DEF TypeInv, TypeOK, SpinSends
  <2>4. /\ \A m : Spinning(m) <=> m = m0
        /\ \A m : ~Spinning(m)'
    BY <2>1, <2>2 DEF Spinning
  <2>5. ASSUME NEW m \in Messages PROVE Count(m)' = Expected(m)'
    <3>1. CASE m = m0
      <4>1. Count(m) = Expected(m) /\ Expected(m) <= 1 /\ Expected(m)' = 0
        BY <1>1, <2>1, <2>2, <3>1 DEF Counted, Expected
      <4>2. Spinning(m) /\ ~Spinning(m)'
        BY <2>4, <3>1
      <4>3. Count(m)' = Count(m) - 1 /\ Count(m) >= 1
        BY <1>2, <1>4, <2>3, <4>2 DEF Count, AsNat
      <4> QED
        BY <4>1, <4>3 DEF Expected
    <3>2. CASE m # m0
      <4>1. Count(m)' = Count(m)
        BY <1>2, <1>4, <2>4, <3>2 DEF Count, AsNat
      <4>2. Expected(m)' = Expected(m)
        BY <2>1, <2>2, <3>2 DEF Expected
      <4> QED
        BY <1>1, <4>1, <4>2 DEF Counted
    <3> QED
      BY <3>1, <3>2
  <2> QED
    BY <1>3, <2>5 DEF Counted
<1>7. CASE ReceiveSpin \/ SpinReceiveGivesUp
  <2>1. /\ pc[Main] # "spinSend" /\ pc'[Main] # "spinSend" /\ UNCHANGED <<sent, refused>>
    BY <1>0, <1>7 DEF ReceiveSpin, SpinReceiveGivesUp, CallsReceive, Return, Owe, GoTo, historyVars, TypeInv, TypeOK
  <2>2. \A m : Spinning(m)' <=> Spinning(m)
    BY <2>1, SpinningKeeps
  <2>3. \A m : Count(m)' = Count(m) /\ Expected(m)' = Expected(m)
    BY <1>2, <1>4, <2>1, <2>2 DEF Count, AsNat, Expected
  <2> QED
    BY <1>1, <1>3, <2>3 DEF Counted
<1>8. CASE SpinSendDone \/ SpinReceiveDone
  BY <1>8 DEF SpinSendDone, SpinReceiveDone, Quiet
<1> QED
  BY <1>5, <1>6, <1>7, <1>8 DEF MainSpin

\* A wake-up with a value moves the message into its receiver's hand.
LEMMA QuietWake ==
  ASSUME TypeInv, WakerInv, ValueInv, QuietInv, NEW u \in Users, WakeNext(u), Quiet
  PROVE  QuietWakes' /\ Counted' /\ OneHand'
<1> DEFINE w == Head(owes[u])
<1>0. QuietWakes /\ Counted /\ OneHand /\ Main \in Users
  BY DEF QuietInv, Users
<1>1. /\ w = owes[u][1] /\ 1 \in DOMAIN owes[u] /\ Owed(w.to)
      /\ pc' = [pc EXCEPT ![u] = IF Tail(owes[u]) = <<>> THEN "idle" ELSE "waking"]
      /\ \A i \in DOMAIN owes'[u] : i + 1 \in DOMAIN owes[u] /\ owes'[u][i] = owes[u][i + 1]
      /\ \A v \in Users : v # u => owes'[v] = owes[v]
      /\ Len(owes'[u]) = Len(owes[u]) - 1
  BY PaysOne DEF WakerInv
<1>2. /\ pc[u] = "waking" /\ w.to \in Tasks /\ w.how \in {"value", "plain", "error"}
      /\ owes[u] \in Seq(Wakeups) /\ owes[u] # <<>> /\ Tail(owes[u]) \in Seq(Wakeups)
  BY HeadType DEF WakeNext
<1>3. /\ (w.how = "value" /\ pc[w.to] \in RecvPcs) \/ (w.how = "plain" /\ pc[w.to] \in SendPcs)
      /\ pc[w.to] # "died" /\ woken[w.to] = "no" /\ w.to # u
  <2>1. (w.how = "value" /\ pc[w.to] \in RecvPcs) \/ (w.how = "plain" /\ pc[w.to] \in SendPcs)
    BY <1>0, <1>1 DEF QuietWakes
  <2>2. woken[w.to] = "no"
    BY <1>1, <1>2 DEF WakerInv, OneWaker
  <2> QED
    BY <1>2, <2>1, <2>2 DEF SendPcs, RecvPcs
<1>4. /\ woken' = [woken EXCEPT ![w.to] = w.how]
      /\ result' = IF w.how = "value" THEN [result EXCEPT ![w.to] = w.val] ELSE result
      /\ UNCHANGED <<errorFlag, stateVars, sent, refused, obtained>>
  BY <1>3, StepsOutside DEF WakeNext
<1>5. \A i \in DOMAIN owes[u] : i = 1 \/ (i - 1 \in DOMAIN owes'[u] /\ owes'[u][i - 1] = owes[u][i])
  <2>1. owes'[u] = Tail(owes[u])
    BY DEF WakeNext, Owe, TypeInv, TypeOK
  <2>2. /\ Len(owes[u]) \in Nat \ {0} /\ DOMAIN owes[u] = 1..Len(owes[u])
        /\ DOMAIN owes'[u] = 1..(Len(owes[u]) - 1)
        /\ \A i \in 1..(Len(owes[u]) - 1) : owes'[u][i] = owes[u][i + 1]
    <3>1. /\ Len(owes[u]) \in Nat \ {0} /\ Len(Tail(owes[u])) = Len(owes[u]) - 1
          /\ \A i \in 1..(Len(owes[u]) - 1) : Tail(owes[u])[i] = owes[u][i + 1]
      BY <1>2, TailType
    <3> QED
      BY <1>2, <2>1, <3>1
  <2> QED
    BY <2>2
<1> HIDE DEF w
<1>6. /\ \A s \in Users : s # u => pc'[s] = pc[s]
      /\ pc'[u] \in {"idle", "waking"} /\ pc[u] \notin SendPcs \cup RecvPcs /\ \A s \in Tasks : s \in Users
  BY <1>1, <1>2 DEF SendPcs, RecvPcs, TypeInv, TypeOK, Users
<1>7. \A t \in Tasks : t # w.to => woken'[t] = woken[t] /\ result'[t] = result[t]
  BY <1>2, <1>4 DEF TypeInv, TypeOK
<1>8. woken'[w.to] = w.how
  BY <1>2, <1>4 DEF TypeInv, TypeOK
<1>9. QuietWakes'
  <2>1. ASSUME NEW t \in Tasks
        PROVE  /\ pc'[t] # "died" /\ ~errorFlag'[t] /\ woken'[t] # "error"
               /\ woken'[t] = "value" => pc'[t] \in RecvPcs
               /\ woken'[t] = "plain" => pc'[t] \in SendPcs
    <3>1. pc'[t] # "died" /\ ~errorFlag'[t]
      BY <1>0, <1>4, <1>6 DEF QuietWakes
    <3>2. CASE t = w.to
      BY <1>3, <1>6, <1>8, <3>1, <3>2
    <3>3. CASE t # w.to
      BY <1>0, <1>6, <1>7, <3>1, <3>3 DEF QuietWakes
    <3> QED
      BY <3>2, <3>3
  <2>2. ASSUME NEW v \in Users, NEW i \in DOMAIN owes'[v]
        PROVE  \/ owes'[v][i].how = "value" /\ pc'[owes'[v][i].to] \in RecvPcs
               \/ owes'[v][i].how = "plain" /\ pc'[owes'[v][i].to] \in SendPcs
    <3>1. \E x \in Users : \E k \in DOMAIN owes[x] : owes'[v][i] = owes[x][k]
      BY <1>1, <2>2
    <3>2. PICK x \in Users : \E k \in DOMAIN owes[x] : owes'[v][i] = owes[x][k]
      BY <3>1
    <3>k. PICK k \in DOMAIN owes[x] : owes'[v][i] = owes[x][k]
      BY <3>2
    <3>3. /\ \/ owes[x][k].how = "value" /\ pc[owes[x][k].to] \in RecvPcs
             \/ owes[x][k].how = "plain" /\ pc[owes[x][k].to] \in SendPcs
          /\ owes[x][k].to \in Users
      BY <1>0, WakesTasks DEF QuietWakes
    <3>4. pc'[owes[x][k].to] = pc[owes[x][k].to]
      BY <1>6, <3>3
    <3> QED
      BY <3>k, <3>3, <3>4
  <2> QED
    BY <2>1, <2>2 DEF QuietWakes, SendPcs, RecvPcs
<1>10. /\ \A m : InBuffer(m)' <=> InBuffer(m)
       /\ \A m : InLine(m)' <=> InLine(m)
       /\ \A m : Spinning(m)' <=> Spinning(m)
       /\ \A m : Expected(m)' = Expected(m)
  <2>1. pc'[Main] = "spinSend" <=> pc[Main] = "spinSend"
    BY <1>0, <1>2, <1>6
  <2> QED
    BY <1>4, <2>1, SamePlaces, SpinningKeeps DEF stateVars, Expected
<1>11. CASE w.how = "value"
  <2>1. w.val = <<u, sent[u]>> /\ w.val \in Messages /\ Len(owes[u]) = 1
    BY <1>1, <1>11 DEF ValueInv, ValueOwed
  <2>2. DOMAIN owes'[u] = {}
    <3>1. DOMAIN owes[u] = {1} /\ \A i \in DOMAIN owes'[u] : i \in Nat /\ i >= 1
      <4>1. owes' \in [Users -> Seq(Wakeups)]
        BY <1>2, OweType DEF WakeNext
      <4> QED
        BY <1>2, <2>1, <4>1
    <3> QED
      BY <1>1, <3>1
  <2>3. PICK m0 : m0 = w.val
    OBVIOUS
  <2>4. InFlight(m0) /\ \A m : InFlight(m)' <=> InFlight(m) /\ m # m0
    <3>1. InFlight(m0)
      BY <1>1, <1>11, <2>3 DEF InFlight
    <3>2. ASSUME NEW v \in Users, v # u, NEW i \in DOMAIN owes[v], owes[v][i].how = "value"
          PROVE  owes[v][i].val # m0
      <4>1. owes[v][i].val = <<v, sent[v]>>
        BY <3>2 DEF ValueInv, ValueOwed
      <4>2. \A a, b, c, d : <<a, b>> = <<c, d>> => a = c
        OBVIOUS
      <4>3. <<v, sent[v]>> # <<u, sent[u]>>
        BY <3>2, <4>2, Zenon
      <4> QED
        BY <2>1, <2>3, <4>1, <4>3
    <3>3. \A i \in DOMAIN owes[u] : i = 1
      BY <1>5, <2>2
    <3>4. ASSUME NEW m PROVE InFlight(m)' <=> InFlight(m) /\ m # m0
      <4>1. ASSUME InFlight(m)' PROVE InFlight(m) /\ m # m0
        <5>1. PICK v \in Users : \E i \in DOMAIN owes'[v] : owes'[v][i].how = "value" /\ owes'[v][i].val = m
          BY <4>1 DEF InFlight
        <5>2. v # u
          BY <2>2, <5>1
        <5> QED
          BY <1>1, <3>2, <5>1, <5>2 DEF InFlight
      <4>2. ASSUME InFlight(m), m # m0 PROVE InFlight(m)'
        <5>1. PICK v \in Users : \E i \in DOMAIN owes[v] : owes[v][i].how = "value" /\ owes[v][i].val = m
          BY <4>2 DEF InFlight
        <5>2. v # u
          BY <1>1, <2>3, <3>3, <4>2, <5>1
        <5> QED
          BY <1>1, <5>1, <5>2 DEF InFlight
      <4> QED
        BY <4>1, <4>2
    <3> QED
      BY <3>1, <3>4
  <2>5. result'[w.to] = m0
    BY <1>2, <1>4, <1>11, <2>3 DEF TypeInv, TypeOK
  <2>6. \A m : InHand(m)' <=> InHand(m) \/ m = m0
    <3> SUFFICES ASSUME NEW m PROVE InHand(m)' <=> InHand(m) \/ m = m0
      OBVIOUS
    <3>1. InHand(m) => InHand(m)'
      BY <1>3, <1>7 DEF InHand
    <3>2. m = m0 => InHand(m)'
      BY <1>2, <1>8, <1>11, <2>5 DEF InHand
    <3>3. InHand(m)' => InHand(m) \/ m = m0
      BY <1>7, <2>5 DEF InHand
    <3> QED
      BY <3>1, <3>2, <3>3
  <2>7. /\ m0 \in Messages /\ \A m \in Messages : obtained[m] \in Nat
        /\ Count(m0) <= 1
    <3>1. m0 \in Messages /\ \A m \in Messages : obtained[m] \in Nat
      BY <2>1, <2>3 DEF TypeInv, TypeOK
    <3>2. Count(m0) <= 1
      BY <1>0, <3>1 DEF Counted, Expected
    <3> QED
      BY <3>1, <3>2
  <2>8. ~InHand(m0)
    BY <2>4, <2>7 DEF Count, AsNat
  <2>9. ASSUME NEW m \in Messages PROVE Count(m)' = Count(m)
    <3>1. CASE m = m0
      <4>1. InFlight(m) /\ ~InFlight(m)' /\ ~InHand(m) /\ InHand(m)'
        BY <2>4, <2>6, <2>8, <3>1
      <4> QED
        BY <1>4, <1>10, <2>7, <4>1 DEF Count, AsNat
    <3>2. CASE m # m0
      <4>1. (InFlight(m)' <=> InFlight(m)) /\ (InHand(m)' <=> InHand(m))
        BY <2>4, <2>6, <3>2
      <4> QED
        BY <1>4, <1>10, <4>1 DEF Count, AsNat
    <3> QED
      BY <3>1, <3>2
  <2>10. OneHand'
    <3> SUFFICES ASSUME NEW s \in Tasks, NEW t \in Tasks, woken'[s] = "value", woken'[t] = "value",
                        result'[s] = result'[t]
                 PROVE  s = t
      BY DEF OneHand
    <3>1. \A x \in Tasks : x # w.to /\ woken'[x] = "value" => result'[x] # m0
      BY <1>7, <2>8 DEF InHand
    <3>2. CASE s = w.to \/ t = w.to
      BY <2>5, <3>1, <3>2
    <3>3. CASE s # w.to /\ t # w.to
      BY <1>0, <1>7, <3>3 DEF OneHand
    <3> QED
      BY <3>2, <3>3
  <2> QED
    BY <1>0, <1>9, <1>10, <2>9, <2>10 DEF Counted
<1>12. CASE w.how = "plain"
  <2>1. UNCHANGED result
    BY <1>4, <1>12
  <2>2. \A t \in Tasks : woken'[t] = "value" <=> woken[t] = "value"
    BY <1>3, <1>7, <1>8, <1>12
  <2>3. OneHand' /\ \A m : InHand(m)' <=> InHand(m)
    BY <1>0, <2>1, <2>2 DEF OneHand, InHand
  <2>4. \A m : InFlight(m)' <=> InFlight(m)
    <3> SUFFICES ASSUME NEW m PROVE InFlight(m)' <=> InFlight(m)
      OBVIOUS
    <3>1. InFlight(m)' => InFlight(m)
      BY <1>1 DEF InFlight
    <3>2. ASSUME InFlight(m) PROVE InFlight(m)'
      <4>0. PICK v \in Users : \E i \in DOMAIN owes[v] : owes[v][i].how = "value" /\ owes[v][i].val = m
        BY <3>2 DEF InFlight
      <4>1. PICK i \in DOMAIN owes[v] : owes[v][i].how = "value" /\ owes[v][i].val = m
        BY <4>0
      <4>2. CASE v = u
        <5>1. i # 1
          BY <1>1, <1>12, <4>1, <4>2
        <5> QED
          BY <1>5, <4>1, <4>2, <5>1 DEF InFlight
      <4>3. CASE v # u
        BY <1>1, <4>1, <4>3 DEF InFlight
      <4> QED
        BY <4>2, <4>3
    <3> QED
      BY <3>1, <3>2
  <2>5. \A m : Count(m)' = Count(m)
    BY <1>4, <1>10, <2>3, <2>4 DEF Count, AsNat
  <2> QED
    BY <1>0, <1>9, <1>10, <2>3, <2>5 DEF Counted
<1> QED
  BY <1>3, <1>11, <1>12

\* A receiver resumed with a value returns it; a sender resumed returns nothing.
LEMMA QuietTask ==
  ASSUME TypeInv, WakerInv, ValueInv, QuietInv, NEW t \in Tasks, TaskStep(t), Quiet, Quiet'
  PROVE  QuietWakes' /\ Counted' /\ OneHand'
<1>0. /\ QuietWakes /\ Counted /\ OneHand /\ Main \in Users /\ t \in Users /\ t # Main
      /\ UNCHANGED <<stateVars, owes, result, sent, refused>>
  BY UsersOK DEF QuietInv, Users, TaskStep, SwitchOut, Resume, Cancel, DieCancelled, taskVars, historyVars
<1>1. /\ \A m : InBuffer(m)' <=> InBuffer(m)
      /\ \A m : InLine(m)' <=> InLine(m)
      /\ \A m : InFlight(m)' <=> InFlight(m)
      /\ \A m : Spinning(m)' <=> Spinning(m)
      /\ \A m : Expected(m)' = Expected(m)
  <2>1. pc'[Main] = pc[Main]
    BY <1>0 DEF TaskStep, SwitchOut, Resume, Cancel, DieCancelled, GoTo, TypeInv, TypeOK
  <2> QED
    BY <1>0, <2>1, SamePlaces, SpinningKeeps DEF stateVars, Expected
<1>2. CASE SwitchOut(t)
  <2>1. /\ \/ pc[t] = "sendParking" /\ pc'[t] = "sendParked"
           \/ pc[t] = "recvParking" /\ pc'[t] = "recvParked"
        /\ \A s \in Users : s # t => pc'[s] = pc[s]
        /\ UNCHANGED <<woken, obtained>> /\ errorFlag' = [errorFlag EXCEPT ![t] = FALSE]
    BY <1>0, <1>2 DEF SwitchOut, GoTo, TypeInv, TypeOK, historyVars
  <2>2. /\ \A s \in Users : (pc[s] \in SendPcs => pc'[s] \in SendPcs) /\ (pc[s] \in RecvPcs => pc'[s] \in RecvPcs)
        /\ \A s \in Tasks : pc'[s] # "died" /\ s \in Users /\ ~errorFlag'[s]
    <3>1. ASSUME NEW s \in Users
          PROVE  (pc[s] \in SendPcs => pc'[s] \in SendPcs) /\ (pc[s] \in RecvPcs => pc'[s] \in RecvPcs)
      BY <2>1 DEF SendPcs, RecvPcs
    <3>2. \A s \in Tasks : s \in Users
      BY DEF Users
    <3>3. \A s \in Tasks : pc'[s] # "died"
      BY <1>0, <2>1, <3>2 DEF QuietWakes
    <3>4. \A s \in Tasks : ~errorFlag'[s]
      BY <1>0, <2>1 DEF QuietWakes, TypeInv, TypeOK
    <3> QED
      BY <3>1, <3>2, <3>3, <3>4
  <2>3. QuietWakes'
    BY <1>0, <2>1, <2>2, WakesTasks DEF QuietWakes, SendPcs, RecvPcs
  <2>4. \A m : InHand(m)' <=> InHand(m)
    BY <1>0, <2>1, SamePlaces
  <2>5. \A m : Count(m)' = Count(m)
    BY <1>1, <2>1, <2>4 DEF Count, AsNat
  <2> QED
    BY <1>0, <1>1, <2>1, <2>3, <2>5 DEF Counted, OneHand
<1>3. CASE Resume(t)
  <2>1. /\ pc[t] \in {"sendParked", "recvParked"} /\ woken[t] # "no"
        /\ woken' = [woken EXCEPT ![t] = "no"] /\ errorFlag' = [errorFlag EXCEPT ![t] = FALSE]
        /\ pc' = [pc EXCEPT ![t] = "idle"]
    BY <1>3 DEF Resume, GoTo
  <2>2. /\ \A s \in Tasks : woken'[s] = IF s = t THEN "no" ELSE woken[s]
        /\ \A s \in Users : pc'[s] = IF s = t THEN "idle" ELSE pc[s]
        /\ \A s \in Tasks : ~errorFlag'[s] /\ s \in Users
    BY <1>0, <2>1 DEF TypeInv, TypeOK, QuietWakes, Users
  <2>3. \A v \in Users : \A i \in DOMAIN owes[v] : owes[v][i].to # t
    BY <2>1 DEF WakerInv, OneWaker, Owed
  <2>4. QuietWakes'
    BY <1>0, <2>2, <2>3, WakesTasks DEF QuietWakes
  <2>5. OneHand'
    BY <1>0, <2>2 DEF OneHand
  <2>6. CASE woken[t] = "value"
    <3>1. PICK m0 : m0 = result[t]
      OBVIOUS
    <3>2. m0 \in Messages
      BY <2>6, <3>1 DEF ValueInv, ValueHeld
    <3>3. obtained' = [obtained EXCEPT ![m0] = @ + 1]
      <4>1. pc[t] = "recvParked"
        BY <1>0, <2>1, <2>6 DEF QuietWakes, RecvPcs
      <4>2. m0 # Nil
        BY <3>2 DEF Messages, Nil
      <4>3. ~errorFlag[t]
        BY <1>0 DEF QuietWakes
      <4> QED
        BY <1>3, <3>1, <4>1, <4>2, <4>3 DEF Resume, Obtain
    <3>4. InHand(m0) /\ \A m : InHand(m)' <=> InHand(m) /\ m # m0
      <4>1. InHand(m0)
        BY <2>6, <3>1 DEF InHand
      <4>2. ASSUME NEW m PROVE InHand(m)' <=> InHand(m) /\ m # m0
        <5>1. ASSUME InHand(m)' PROVE InHand(m) /\ m # m0
          <6>1. PICK s \in Tasks : woken'[s] = "value" /\ result[s] = m
            BY <1>0, <5>1 DEF InHand
          <6>2. s # t /\ woken[s] = "value"
            BY <2>2, <6>1
          <6> QED
            BY <1>0, <2>6, <3>1, <6>1, <6>2 DEF InHand, OneHand
        <5>2. ASSUME InHand(m), m # m0 PROVE InHand(m)'
          <6>1. PICK s \in Tasks : woken[s] = "value" /\ result[s] = m
            BY <5>2 DEF InHand
          <6>2. s # t
            BY <3>1, <5>2, <6>1
          <6> QED
            BY <1>0, <2>2, <6>1, <6>2 DEF InHand
        <5> QED
          BY <5>1, <5>2
      <4> QED
        BY <4>1, <4>2
    <3>5. /\ obtained'[m0] = obtained[m0] + 1
          /\ \A m \in Messages : obtained[m] \in Nat /\ (m # m0 => obtained'[m] = obtained[m])
      BY <3>2, <3>3 DEF TypeInv, TypeOK
    <3>6. ASSUME NEW m \in Messages PROVE Count(m)' = Count(m)
      <4>1. CASE m = m0
        <5>1. InHand(m) /\ ~InHand(m)' /\ obtained'[m] = obtained[m] + 1
          BY <3>4, <3>5, <4>1
        <5> QED
          BY <1>1, <3>5, <5>1 DEF Count, AsNat
      <4>2. CASE m # m0
        <5>1. (InHand(m)' <=> InHand(m)) /\ obtained'[m] = obtained[m]
          BY <3>4, <3>5, <4>2
        <5> QED
          BY <1>1, <5>1 DEF Count, AsNat
      <4> QED
        BY <4>1, <4>2
    <3> QED
      BY <1>0, <1>1, <2>4, <2>5, <3>6 DEF Counted
  <2>7. CASE woken[t] # "value"
    <3>1. UNCHANGED obtained
      <4>1. woken[t] = "plain"
        BY <1>0, <2>1, <2>7 DEF QuietWakes, TypeInv, TypeOK
      <4>2. pc[t] # "recvParked"
        BY <1>0, <4>1 DEF QuietWakes, SendPcs
      <4> QED
        BY <1>3, <4>2 DEF Resume
    <3>2. \A m : InHand(m)' <=> InHand(m)
      BY <1>0, <2>2, <2>7 DEF InHand
    <3>3. \A m : Count(m)' = Count(m)
      BY <1>1, <3>1, <3>2 DEF Count, AsNat
    <3> QED
      BY <1>0, <1>1, <2>4, <2>5, <3>3 DEF Counted
  <2> QED
    BY <2>6, <2>7
<1>4. CASE Cancel(t)
  BY <1>4 DEF Cancel, Quiet, TypeInv, TypeOK
<1>5. CASE DieCancelled(t)
  BY <1>5 DEF DieCancelled, Quiet
<1> QED
  BY <1>2, <1>3, <1>4, <1>5 DEF TaskStep

LEMMA QuietNext ==
  TypeInv /\ StateInv /\ WakerInv /\ OrderInv /\ ValueInv /\ QuietInv /\ [Next]_vars => QuietInv'
<1> SUFFICES ASSUME TypeInv, StateInv, WakerInv, OrderInv, ValueInv, QuietInv, [Next]_vars, Quiet'
             PROVE  QuietWakes' /\ Counted' /\ OneHand'
  BY DEF QuietInv
<1>1. Quiet
  BY QuietBefore
<1>2. ASSUME NEW u \in Users, Close(u) PROVE FALSE
  BY <1>2 DEF Close, Quiet
<1>3. CASE UNCHANGED vars
  <2>1. UNCHANGED <<buffer, send_waiters, owes, woken, result, errorFlag, pc, sent, refused, obtained>>
    BY <1>3 DEF vars, stateVars, taskVars, historyVars
  <2>2. QuietWakes' /\ OneHand'
    BY <1>1, <2>1 DEF QuietInv, QuietWakes, OneHand
  <2>3. \A m : Count(m)' = Count(m) /\ Expected(m)' = Expected(m)
    BY <2>1, SamePlaces, SpinningKeeps DEF Count, Expected, AsNat
  <2> QED
    BY <1>1, <2>2, <2>3 DEF QuietInv, Counted
<1> QED
  BY <1>1, <1>2, <1>3, QuietSend, QuietReceive, QuietSpin, QuietWake, QuietTask DEF Next

LEMMA QuietInit == Init => QuietInv
<1> SUFFICES ASSUME Init PROVE QuietInv
  OBVIOUS
<1>1. QuietWakes /\ OneHand
  BY DEF Init, QuietWakes, OneHand, Users
<1>2. ASSUME NEW m \in Messages PROVE Count(m) = Expected(m)
  <2>1. m[1] \in Users /\ m[2] \in 1..MaxSends
    BY UsersOK DEF Messages
  <2>2. Expected(m) = 0
    BY <2>1, BoundsOK DEF Init, Expected
  <2>3. ~InBuffer(m) /\ ~InLine(m) /\ ~InFlight(m) /\ ~InHand(m) /\ ~Spinning(m)
    BY DEF Init, InBuffer, InLine, InFlight, InHand, Spinning, Users
  <2>4. obtained[m] = 0
    BY DEF Init
  <2> QED
    BY <2>2, <2>3, <2>4 DEF Count, AsNat
<1> QED
  BY <1>1, <1>2 DEF QuietInv, Counted

LEMMA QuietInvariant == Spec => []QuietInv
BY QuietInit, QuietNext, TypeInvariant, StateInvariant, WakerInvariant, OrderInvariant, ValueInvariant, PTL DEF Spec

\* A set without two different elements has at most one.
LEMMA AtMostOne ==
  ASSUME NEW S, \A x, y \in S : x = y
  PROVE  Cardinality(S) = AsNat(S # {})
<1>1. CASE S = {}
  BY <1>1, FS_EmptySet DEF AsNat
<1>2. CASE S # {}
  <2>1. PICK x : x \in S
    BY <1>2
  <2>2. S = {x}
    BY <2>1
  <2> QED
    BY <1>2, <2>2, FS_Singleton DEF AsNat
<1> QED
  BY <1>1, <1>2

LEMMA CopiesCounted ==
  ASSUME TypeInv, WakerInv, OrderInv, ValueInv, OneHand, NEW m \in Messages
  PROVE  Copies(m) = Count(m)
<1>1. Cardinality({i \in DOMAIN buffer : buffer[i] = m}) = AsNat(InBuffer(m))
  <2> DEFINE S == {i \in DOMAIN buffer : buffer[i] = m}
  <2>1. \A x, y \in S : x = y
    BY OnceBuffered
  <2>2. InBuffer(m) <=> S # {}
    BY DEF InBuffer
  <2> HIDE DEF S
  <2>3. Cardinality(S) = AsNat(InBuffer(m))
    BY <2>1, <2>2, AtMostOne DEF AsNat
  <2> QED
    BY <2>3 DEF S
<1>2. Cardinality({i \in DOMAIN send_waiters : send_waiters[i][2] = m}) = AsNat(InLine(m))
  <2> DEFINE S == {i \in DOMAIN send_waiters : send_waiters[i][2] = m}
  <2>1. \A x, y \in S : x = y
    BY OnceInLine
  <2>2. InLine(m) <=> S # {}
    BY DEF InLine
  <2> HIDE DEF S
  <2>3. Cardinality(S) = AsNat(InLine(m))
    BY <2>1, <2>2, AtMostOne DEF AsNat
  <2> QED
    BY <2>3 DEF S
<1>3. Cardinality({u \in Users : \E i \in DOMAIN owes[u] : owes[u][i].how = "value" /\ owes[u][i].val = m})
        = AsNat(InFlight(m))
  <2> DEFINE S == {u \in Users : \E i \in DOMAIN owes[u] : owes[u][i].how = "value" /\ owes[u][i].val = m}
  <2>1. \A x \in S : m = <<x, sent[x]>>
    BY DEF ValueInv, ValueOwed
  <2>2. \A x, y \in S : x = y
    <3>1. \A x \in S : x = m[1]
      BY <2>1
    <3> QED
      BY <3>1
  <2>3. InFlight(m) <=> S # {}
    BY DEF InFlight
  <2> HIDE DEF S
  <2>4. Cardinality(S) = AsNat(InFlight(m))
    BY <2>2, <2>3, AtMostOne DEF AsNat
  <2> QED
    BY <2>4 DEF S
<1>4. Cardinality({t \in Tasks : woken[t] = "value" /\ result[t] = m}) = AsNat(InHand(m))
  <2> DEFINE S == {t \in Tasks : woken[t] = "value" /\ result[t] = m}
  <2>1. \A x, y \in S : x = y
    BY DEF OneHand
  <2>2. InHand(m) <=> S # {}
    BY DEF InHand
  <2> HIDE DEF S
  <2>3. Cardinality(S) = AsNat(InHand(m))
    BY <2>1, <2>2, AtMostOne DEF AsNat
  <2> QED
    BY <2>3 DEF S
<1>5. (IF pc[Main] = "spinSend" /\ m = <<Main, sent[Main]>> THEN 1 ELSE 0) = AsNat(Spinning(m))
  BY DEF Spinning, AsNat
<1> QED
  BY <1>1, <1>2, <1>3, <1>4, <1>5 DEF Copies, Count

\* Among green threads, on an open channel and with nobody cancelled, no message
\* is lost and none is received twice, whatever flavours of send and receive
\* meet: each is in the buffer, in one waiting sender's hand, on its way to one
\* receiver, or was returned by exactly one receive, unless a full buffer refused it.
THEOREM DeliveredOnce == Spec => []ExactlyOnce
<1>1. TypeInv /\ WakerInv /\ OrderInv /\ ValueInv /\ QuietInv => ExactlyOnce
  <2> SUFFICES ASSUME TypeInv, WakerInv, OrderInv, ValueInv, QuietInv, Quiet
               PROVE  \A m \in Messages : Copies(m) = Expected(m)
    BY DEF ExactlyOnce, Quiet, Expected
  <2> QED
    BY CopiesCounted DEF QuietInv, Counted
<1> QED
  BY <1>1, TypeInvariant, WakerInvariant, OrderInvariant, ValueInvariant, QuietInvariant, PTL
=============================================================================
