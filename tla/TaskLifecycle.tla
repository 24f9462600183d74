--------------------------- MODULE TaskLifecycle ---------------------------
(***************************************************************************)
(* What the green-thread runtime promises to the holder of a Task[T]: a    *)
(* task runs to exactly one outcome, a cancellation accepted while it is   *)
(* pending makes that outcome Cancelled, and at most one resolver is given *)
(* the outcome.  Workers, queues, stacks and suspension are invisible      *)
(* here; Scheduler is shown to implement this specification for programs   *)
(* whose tasks never suspend.                                              *)
(***************************************************************************)

CONSTANTS Tasks,   \* green threads
          Clients  \* those who may resolve a task: other tasks and main

VARIABLES phase,      \* where each task is in its life
          requested,  \* cancel_requested, as a client sees it
          takers      \* the clients that were given the task's outcome

vars == <<phase, requested, takers>>

Outcomes == {"Ready", "Failed", "Cancelled"}

TypeOK ==
  /\ phase \in [Tasks -> {"unborn", "pending"} \cup Outcomes]
  /\ requested \in [Tasks -> BOOLEAN]
  /\ takers \in [Tasks -> SUBSET Clients]

Init ==
  /\ phase = [t \in Tasks |-> "unborn"]
  /\ requested = [t \in Tasks |-> FALSE]
  /\ takers = [t \in Tasks |-> {}]

Spawn(t) ==
  /\ phase[t] = "unborn"
  /\ phase' = [phase EXCEPT ![t] = "pending"]
  /\ UNCHANGED <<requested, takers>>

\* A request is recorded whenever it comes; it may take effect at once, and it
\* changes nothing any more once the task has its outcome.
Cancel(t) ==
  /\ phase[t] # "unborn"
  /\ requested' = [requested EXCEPT ![t] = TRUE]
  /\ \/ UNCHANGED phase
     \/ /\ phase[t] = "pending"
        /\ phase' = [phase EXCEPT ![t] = "Cancelled"]
  /\ UNCHANGED takers

Finish(t) ==
  /\ phase[t] = "pending"
  /\ \E o \in IF requested[t] THEN {"Cancelled"} ELSE {"Ready", "Failed"} :
       phase' = [phase EXCEPT ![t] = o]
  /\ UNCHANGED <<requested, takers>>

Resolve(c, t) ==
  /\ phase[t] \in Outcomes
  /\ takers[t] = {}
  /\ takers' = [takers EXCEPT ![t] = {c}]
  /\ UNCHANGED <<phase, requested>>

Next == \E t \in Tasks :
          Spawn(t) \/ Cancel(t) \/ Finish(t) \/ \E c \in Clients : Resolve(c, t)

Spec == Init /\ [][Next]_vars /\ \A t \in Tasks : WF_vars(Finish(t))

-----------------------------------------------------------------------------
\* No task's outcome is given to two resolvers, and none is given before the
\* task has one.
TakenOnce ==
  \A t \in Tasks : /\ \A c, d \in takers[t] : c = d
                   /\ takers[t] # {} => phase[t] \in Outcomes

\* An outcome never changes once it is there.
OutcomeStable ==
  [][\A t \in Tasks : phase[t] \in Outcomes => phase'[t] = phase[t]]_vars

\* A task that is asked to stop while it is pending never succeeds or fails.
CancelWins ==
  [][\A t \in Tasks : requested[t] /\ phase[t] = "pending"
                        => phase'[t] \in {"pending", "Cancelled"}]_vars
=============================================================================
