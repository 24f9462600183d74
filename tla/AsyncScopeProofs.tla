-------------------------- MODULE AsyncScopeProofs --------------------------
(***************************************************************************)
(* What AsyncScope's runs check on two tasks, proved for any number of     *)
(* them: reference counts agree with the holders, a scope exit leaves no   *)
(* task behind, handles stay alive while the functions above are running,  *)
(* and every step is a step of TaskLifecycle or invisible to it; the last  *)
(* three for as long as no task is overtaken by a worker's late status.    *)
(***************************************************************************)
EXTENDS AsyncScope, FiniteSetTheorems, TLAPS

\* TypeOK but for the strong counts, which are not negative as they count holders.
TypeInv ==
  /\ status \in [Tasks -> Statuses]
  /\ cancelRequested \in [Tasks -> BOOLEAN]
  /\ consumed \in [Tasks -> BOOLEAN]
  /\ strong \in [Tasks -> Int]
  /\ place \in [Tasks -> {"none", "queue", "worker", "asks", "waiting"} \cup Lists]
  /\ waitOn \in [Tasks -> Tasks \cup {NoTask}]
  /\ late \in [Tasks -> Nat]
  /\ pc \in [Actors -> BodyPcs]
  /\ target \in [Actors -> Tasks \cup {NoTask}]
  /\ goal \in [Actors -> Goals]
  /\ todo \in [Actors -> SUBSET Tasks]
  /\ knows \in [Actors -> SUBSET Tasks]
  /\ fuel \in [Actors -> Nat]
  /\ scope \in [Actors -> {"none", "open", "freed"}]
  /\ tasks \in [Actors -> SUBSET Tasks]
  /\ parent \in [Tasks -> Actors \cup {NoTask}]
  /\ takers \in [Tasks -> SUBSET Actors]
  /\ overtaken \in BOOLEAN

\* Tasks are allocated in order, and one that is not allocated is untouched.
InOrder == \A t \in Born : \A u \in Tasks : u < t => u \in Born

UnbornUntouched ==
  \A t \in Tasks : status[t] = "unborn" =>
    /\ strong[t] = 0 /\ place[t] = "none" /\ late[t] = 0
    /\ ~consumed[t] /\ parent[t] = NoTask /\ pc[t] = "enter"

\* Who is on a worker runs; at most one worker still has to write the status of
\* a task, which has not ended nor been run since.
Orderly(t) ==
  /\ place[t] \in {"worker", "asks"} => status[t] = "Running" /\ late[t] = 0
  /\ late[t] # 0 => late[t] = 1 /\ status[t] \in {"Running", "Runnable"}

\* A task has a spawner that exists; who was given its outcome was given it by
\* the first consume_thread_result, after it had one.
ThreadInv ==
  \A t \in Tasks :
    /\ status[t] # "unborn" => parent[t] \in {Main} \cup Born
    /\ takers[t] # {} => consumed[t]
    /\ ~overtaken => Orderly(t) /\ (consumed[t] => is_terminal(t))

\* A spawned task that its spawner's scope does not know yet, or never will:
\* between spawn and registration, and for all of a block_on.
Unscoped(a, t) == t \in Born /\ parent[t] = a /\ t \notin tasks[a] /\ ~consumed[t]

AtSpawn(a) == pc[a] = "register" \/ (pc[a] \in {"wait", "consume"} /\ goal[a] = "blockOn")

\* A scope is open from enter to the end of pass 3, and has the tasks that its
\* own body registered; handles are of registered tasks.
ScopeInv(a) ==
  /\ scope[a] = IF pc[a] = "enter" THEN "none"
                ELSE IF pc[a] \in {"return", "done"} THEN "freed" ELSE "open"
  /\ pc[a] = "enter" => tasks[a] = {} /\ todo[a] = {}
  /\ \A t \in tasks[a] : t \in Born /\ parent[t] = a
  /\ \A t \in knows[a] : t \in Born /\ t \in tasks[parent[t]]

\* What a body works on in the middle of a runtime call.
CallInv(a) ==
  /\ pc[a] \notin ExitPcs \cup {"return", "done"} => todo[a] \subseteq knows[a]
  /\ AtSpawn(a) => Unscoped(a, target[a])
  /\ pc[a] \in {"wait", "consume"} /\ goal[a] # "blockOn" => target[a] \in knows[a]
  /\ pc[a] = "losers" => target[a] \in knows[a]
  /\ ~overtaken /\ pc[a] = "consume" => is_terminal(target[a])

\* What each pass of a scope exit leaves behind.
ExitInv(a) ==
  /\ pc[a] \in ExitPcs => todo[a] \subseteq tasks[a]
  /\ ~overtaken =>
       /\ pc[a] = "exitWait" => \A t \in tasks[a] \ todo[a] : is_terminal(t)
       /\ pc[a] \in {"exitFree", "return", "done"} => \A t \in tasks[a] : is_terminal(t)
       /\ pc[a] = "done" /\ a # Main => is_terminal(a)

BodyInv(a) == ScopeInv(a) /\ CallInv(a) /\ ExitInv(a)

\* A child is registered, or being registered, or waited for by a block_on, or
\* its outcome was taken.
ChildInv ==
  \A t \in Born :
    \/ t \in tasks[parent[t]]
    \/ consumed[t]
    \/ AtSpawn(parent[t]) /\ target[parent[t]] = t

\* Handles go down only: who has one of a task it did not spawn is below a
\* child of the one that did.
HandedDown ==
  \A line \in SUBSET ({Main} \cup Born) :
    (\A a \in line : a # Main => parent[a] \in line) =>
      \A a \in line : \A t \in knows[a] :
        \/ parent[t] = a
        \/ \E c \in line : c # Main /\ parent[c] = parent[t]

Inv ==
  /\ TypeInv
  /\ InOrder /\ UnbornUntouched /\ ThreadInv
  /\ \A a \in Actors : BodyInv(a)
  /\ ChildInv /\ HandedDown
  /\ CountMatchesHolders

-----------------------------------------------------------------------------
(* What a step does to the state of threads and to the bodies it is not of *)

\* Every step but a spawn: no task appears, and an outcome stays if none was
\* overtaken.
Steady ==
  /\ overtaken => overtaken'
  /\ \A t \in Tasks : /\ (status'[t] = "unborn") <=> (status[t] = "unborn")
                      /\ ~overtaken' /\ is_terminal(t) => status'[t] = status[t]

\* Places, statuses and late writers agree, and nothing is set for no task.
PlacesKept ==
  \A t \in Tasks :
    /\ ~overtaken' => Orderly(t)'
    /\ status[t] = "unborn" => place'[t] = "none" /\ late'[t] = 0 /\ strong'[t] = strong[t]

\* A place or a late writer gained or lost is counted, and nothing else is.
PlacesCounted ==
  \A t \in Tasks :
    strong'[t] - One(place'[t] # "none") - late'[t] = strong[t] - One(place[t] # "none") - late[t]

Untouched(b) ==
  /\ pc'[b] = pc[b] /\ target'[b] = target[b] /\ goal'[b] = goal[b] /\ todo'[b] = todo[b]
  /\ knows'[b] = knows[b] /\ scope'[b] = scope[b] /\ tasks'[b] = tasks[b]

LEMMA SteadyBorn ==
  ASSUME Steady
  PROVE  /\ Born' = Born
         /\ \A t \in Tasks : ~overtaken' /\ is_terminal(t) => is_terminal(t)'
  BY DEF Steady, Born, is_terminal

LEMMA TerminalBorn == ASSUME NEW t \in Tasks, is_terminal(t) PROVE t \in Born
  BY DEF is_terminal, Terminal, Born

LEMMA ActorsTasks == Tasks \subseteq Actors /\ Main \in Actors /\ Main \notin Tasks
  BY NamesDistinct DEF Actors

\* Who executes exists.
LEMMA ExecutingBorn ==
  ASSUME UnbornUntouched, NEW a \in Actors, Executing(a)
  PROVE  a \in {Main} \cup Born
  BY ActorsTasks DEF UnbornUntouched, Executing, Born, Actors

LEMMA AtExecutes ==
  ASSUME NEW a, NEW label, At(a, label) PROVE Executing(a) /\ pc[a] = label
  BY DEF At

\* A body keeps its invariant while others make progress.
LEMMA OtherBodies ==
  ASSUME NEW b \in Actors, BodyInv(b), Untouched(b), overtaken => overtaken',
         \A t \in Born : /\ t \in Born' /\ parent'[t] = parent[t]
                         /\ ~overtaken' /\ is_terminal(t) => is_terminal(t)',
         \A t \in Born : t \in tasks[parent[t]] => t \in tasks'[parent[t]],
         \A t \in Tasks : is_terminal(t) => t \in Born,
         target[b] \in Tasks \cup {NoTask}, tasks[b] \subseteq Tasks, NoTask \notin Tasks,
         AtSpawn(b) => consumed'[target[b]] = consumed[target[b]]
  PROVE  BodyInv(b)'
<1>1. ScopeInv(b)'
  BY DEF BodyInv, ScopeInv, Untouched
<1>2. AtSpawn(b)' <=> AtSpawn(b)
  BY DEF Untouched, AtSpawn
<1>3. AtSpawn(b) => Unscoped(b, target[b])'
  BY DEF BodyInv, CallInv, Unscoped, Untouched
<1>4. ~overtaken' /\ pc[b] = "consume" => is_terminal(target[b])'
  <2> SUFFICES ASSUME ~overtaken', pc[b] = "consume" PROVE is_terminal(target[b])'
    OBVIOUS
  <2>1. is_terminal(target[b])
    BY DEF BodyInv, CallInv
  <2>2. target[b] \in Born
    BY <2>1 DEF BodyInv, ScopeInv, CallInv, AtSpawn, Unscoped
  <2> QED BY <2>1, <2>2 DEF Untouched, is_terminal
<1>5. CallInv(b)'
  BY <1>2, <1>3, <1>4 DEF BodyInv, CallInv, Untouched, is_terminal
<1>6. ExitInv(b)'
  BY DEF BodyInv, ExitInv, ScopeInv, Untouched, Actors
<1> QED BY <1>1, <1>5, <1>6 DEF BodyInv

\* What a step that neither spawns nor registers keeps of the family of tasks.
LEMMA FamilyKept ==
  ASSUME TypeInv, InOrder, ChildInv, HandedDown, Steady, UNCHANGED <<knows, parent, tasks>>,
         \A t \in Born : parent[t] \in Actors /\ (consumed[t] => consumed'[t]),
         \A a \in Actors : AtSpawn(a) => \/ AtSpawn(a)' /\ target'[a] = target[a]
                                         \/ consumed'[target[a]]
  PROVE  InOrder' /\ ChildInv' /\ HandedDown'
<1>1. Born' = Born
  BY SteadyBorn
<1>2. InOrder'
  BY <1>1 DEF InOrder
<1>3. ChildInv'
  <2> SUFFICES ASSUME NEW t \in Born
               PROVE  \/ t \in tasks[parent[t]]
                      \/ consumed'[t]
                      \/ AtSpawn(parent[t])' /\ target'[parent[t]] = t
    BY <1>1 DEF ChildInv
  <2>1. t \in Tasks
    BY DEF Born
  <2>2. CASE AtSpawn(parent[t]) /\ target[parent[t]] = t
    BY <2>1, <2>2, <1>1
  <2> QED BY <2>1, <2>2, <1>1 DEF ChildInv
<1>4. HandedDown'
  BY <1>1 DEF HandedDown
<1> QED BY <1>2, <1>3, <1>4

LEMMA EndsAsFacts ==
  ASSUME TypeInv, ThreadInv, UnbornUntouched, NEW t \in Born, place[t] # "none",
         NEW outcome \in Terminal, EndsAs(t, outcome), UNCHANGED late, overtaken => overtaken',
         ~overtaken' => late[t] = 0 /\ (is_terminal(t) => outcome = status[t])
  PROVE  /\ status' \in [Tasks -> Statuses]
         /\ place' \in [Tasks -> {"none", "queue", "worker", "asks", "waiting"} \cup Lists]
         /\ strong' \in [Tasks -> Int]
         /\ Steady /\ PlacesKept /\ PlacesCounted
<1>0. t \in Tasks /\ status[t] # "unborn" /\ outcome \in Statuses
  BY DEF Born, Statuses
<1>1. status' \in [Tasks -> Statuses]
  BY <1>0 DEF EndsAs, TypeInv
<1>2. place' \in [Tasks -> {"none", "queue", "worker", "asks", "waiting"} \cup Lists]
  BY <1>0 DEF EndsAs, TypeInv, WaitersQueued
<1>3. strong' \in [Tasks -> Int]
  BY <1>0 DEF EndsAs, TypeInv
<1>4. Steady
  BY <1>0 DEF EndsAs, TypeInv, Steady, is_terminal, Terminal
<1>5. \A u \in Tasks : /\ place'[u] \in {"worker", "asks"} => u # t /\ place[u] = place'[u]
                       /\ u # t => (place'[u] = "none" <=> place[u] = "none")
                       /\ place'[t] = "none"
  BY <1>0 DEF EndsAs, TypeInv, WaitersQueued
<1>6. PlacesKept
  <2>1. ASSUME NEW u \in Tasks, ~overtaken' PROVE Orderly(u)'
    <3>1. CASE u = t
      BY <1>0, <1>5, <2>1, <3>1 DEF Orderly
    <3>2. CASE u # t
      <4>1. Orderly(u) /\ status'[u] = status[u] /\ late'[u] = late[u]
        BY <1>0, <2>1, <3>2 DEF ThreadInv, EndsAs, TypeInv
      <4> QED BY <1>5, <4>1 DEF Orderly
    <3> QED BY <3>1, <3>2
  <2>2. \A u \in Tasks : status[u] = "unborn" => place'[u] = "none" /\ late'[u] = 0 /\ strong'[u] = strong[u]
    BY <1>0, <1>5 DEF EndsAs, TypeInv, UnbornUntouched
  <2> QED BY <2>1, <2>2 DEF PlacesKept
<1>7. PlacesCounted
  BY <1>0, <1>5 DEF PlacesCounted, EndsAs, TypeInv, One
<1> QED BY <1>1, <1>2, <1>3, <1>4, <1>6, <1>7

LEMMA CancelFacts ==
  ASSUME TypeInv, ThreadInv, UnbornUntouched, NEW t \in Born, cancel_thread(t), UNCHANGED strong
  PROVE  /\ status' \in [Tasks -> Statuses]
         /\ place' \in [Tasks -> {"none", "queue", "worker", "asks", "waiting"} \cup Lists]
         /\ cancelRequested' \in [Tasks -> BOOLEAN] /\ overtaken' \in BOOLEAN
         /\ Steady /\ PlacesKept /\ PlacesCounted
<1>0. t \in Tasks /\ status[t] # "unborn"
  BY DEF Born
<1>1. status' \in [Tasks -> Statuses]
  BY <1>0 DEF cancel_thread, TypeInv, Statuses, Terminal
<1>2. place' \in [Tasks -> {"none", "queue", "worker", "asks", "waiting"} \cup Lists]
  BY <1>0 DEF cancel_thread, TypeInv, WaitersQueued
<1>3. cancelRequested' \in [Tasks -> BOOLEAN] /\ overtaken' \in BOOLEAN
  BY <1>0 DEF cancel_thread, TypeInv, Overtakes
<1>4. Steady
  BY <1>0 DEF cancel_thread, TypeInv, Steady, is_terminal, Terminal, Overtakes
<1>5. \A u \in Tasks : /\ place'[u] \in {"worker", "asks"} => place[u] = place'[u]
                       /\ place'[u] = "none" <=> place[u] = "none"
                       /\ late'[u] = late[u]
  BY <1>0 DEF cancel_thread, TypeInv, WaitersQueued
<1>6. \A u \in Tasks : \/ status'[u] = status[u]
                       \/ status[u] \in {"Runnable", "Suspended"} /\ (~overtaken' => ~(late[u] > 0))
  BY <1>0 DEF cancel_thread, TypeInv, Overtakes
<1>7. PlacesKept
  <2>1. ASSUME NEW u \in Tasks, ~overtaken' PROVE Orderly(u)'
    <3>1. Orderly(u) /\ late[u] \in Nat
      BY <1>4, <2>1 DEF ThreadInv, Steady, TypeInv
    <3>2. CASE status'[u] = status[u]
      BY <1>5, <3>1, <3>2 DEF Orderly
    <3>3. CASE status[u] \in {"Runnable", "Suspended"} /\ ~(late[u] > 0)
      BY <1>5, <3>1, <3>3 DEF Orderly
    <3> QED BY <1>6, <2>1, <3>2, <3>3
  <2> QED BY <1>5, <2>1 DEF PlacesKept, UnbornUntouched
<1>8. PlacesCounted
  BY <1>5 DEF PlacesCounted, One
<1> QED BY <1>1, <1>2, <1>3, <1>4, <1>7, <1>8

LEMMA CountKept ==
  ASSUME CountMatchesHolders, TypeInv, TypeInv', Born' = Born, PlacesCounted,
         \A t \in Born : consumed'[t] = consumed[t],
         \A t \in Born : HeldByScope(t)' <=> HeldByScope(t)
  PROVE  CountMatchesHolders'
<1> SUFFICES ASSUME NEW t \in Born
             PROVE  strong'[t] = One(~consumed'[t]) + One(place'[t] # "none") + late'[t] + One(HeldByScope(t)')
  BY DEF CountMatchesHolders
<1>1. strong[t] = One(~consumed[t]) + One(place[t] # "none") + late[t] + One(HeldByScope(t))
  BY DEF CountMatchesHolders
<1>2. t \in Tasks /\ strong[t] \in Int /\ strong'[t] \in Int /\ late[t] \in Nat /\ late'[t] \in Nat
  BY DEF Born, TypeInv
<1>3. strong'[t] - One(place'[t] # "none") - late'[t] = strong[t] - One(place[t] # "none") - late[t]
  BY <1>2 DEF PlacesCounted
<1>4. One(~consumed'[t]) = One(~consumed[t]) /\ One(HeldByScope(t)') = One(HeldByScope(t))
  BY DEF One
<1> QED BY <1>1, <1>2, <1>3, <1>4 DEF One

\* A step of one body, or of none, that neither spawns nor registers.
LEMMA BodyStep ==
  ASSUME Inv, TypeInv', UNCHANGED <<knows, parent, tasks>>, Steady, PlacesKept,
         NEW a \in Actors, a \in {Main} \cup Born, BodyInv(a)',
         AtSpawn(a) => (AtSpawn(a)' /\ target'[a] = target[a]) \/ consumed'[target[a]],
         \A b \in Actors \ {a} :
           /\ Untouched(b)
           /\ AtSpawn(b) => consumed'[target[b]] = consumed[target[b]],
         \A t \in Tasks : /\ takers'[t] # {} => consumed'[t]
                          /\ status[t] = "unborn" => ~consumed'[t]
                          /\ consumed[t] => consumed'[t]
                          /\ consumed'[t] => consumed[t] \/ overtaken \/ is_terminal(t),
         CountMatchesHolders'
  PROVE  Inv'
<1>1. /\ Born' = Born /\ (overtaken => overtaken')
      /\ \A t \in Tasks : ~overtaken' /\ is_terminal(t) => is_terminal(t)'
  BY SteadyBorn DEF Steady
<1>2. InOrder' /\ ChildInv' /\ HandedDown'
  <2>1. \A t \in Born : parent[t] \in Actors /\ (consumed[t] => consumed'[t])
    BY ActorsTasks DEF Inv, ThreadInv, Born
  <2>2. \A b \in Actors : AtSpawn(b) => \/ AtSpawn(b)' /\ target'[b] = target[b]
                                        \/ consumed'[target[b]]
    BY DEF Untouched, AtSpawn
  <2> QED BY <2>1, <2>2, FamilyKept DEF Inv
<1>3. UnbornUntouched'
  <2> SUFFICES ASSUME NEW t \in Tasks, status'[t] = "unborn"
               PROVE  /\ strong'[t] = 0 /\ place'[t] = "none" /\ late'[t] = 0
                      /\ ~consumed'[t] /\ parent'[t] = NoTask /\ pc'[t] = "enter"
    BY DEF UnbornUntouched
  <2>1. status[t] = "unborn" /\ t \in Actors \ {a}
    BY ActorsTasks DEF Steady, Born
  <2> QED BY <2>1 DEF Inv, UnbornUntouched, PlacesKept, Untouched
<1>4. ThreadInv'
  <2> SUFFICES ASSUME NEW t \in Tasks
               PROVE  /\ status'[t] # "unborn" => parent'[t] \in {Main} \cup Born'
                      /\ takers'[t] # {} => consumed'[t]
                      /\ ~overtaken' => Orderly(t)' /\ (consumed'[t] => is_terminal(t)')
    BY DEF ThreadInv
  <2>1. ~overtaken' => Orderly(t)'
    BY DEF PlacesKept
  <2>2. ~overtaken' /\ consumed'[t] => is_terminal(t)'
    BY <1>1 DEF Inv, ThreadInv
  <2> QED BY <1>1, <2>1, <2>2 DEF Inv, ThreadInv, Steady, Born
<1>5. \A b \in Actors : BodyInv(b)'
  <2> SUFFICES ASSUME NEW b \in Actors \ {a} PROVE BodyInv(b)'
    OBVIOUS
  <2>1. target[b] \in Tasks \cup {NoTask} /\ tasks[b] \subseteq Tasks
    BY DEF Inv, TypeInv
  <2>2. \A t \in Born : t \in Tasks
    BY DEF Born
  <2> QED BY <1>1, <2>1, <2>2, OtherBodies, TerminalBorn, NamesDistinct DEF Inv
<1> QED BY <1>2, <1>3, <1>4, <1>5 DEF Inv

\* A step of the scheduler only.
LEMMA ThreadStep ==
  ASSUME Inv, TypeInv', Steady, PlacesKept, PlacesCounted,
         UNCHANGED <<consumed, pc, target, goal, todo, knows, scope, tasks, parent, takers>>
  PROVE  Inv'
<1>1. /\ Born' = Born /\ (overtaken => overtaken')
      /\ \A t \in Tasks : ~overtaken' /\ is_terminal(t) => is_terminal(t)'
  BY SteadyBorn DEF Steady
<1>2. \A b \in Actors : Untouched(b)
  BY DEF Untouched
<1>3. BodyInv(Main)'
  <2>1. target[Main] \in Tasks \cup {NoTask} /\ tasks[Main] \subseteq Tasks
    BY ActorsTasks DEF Inv, TypeInv
  <2>2. \A t \in Born : t \in Tasks
    BY DEF Born
  <2> QED BY <1>1, <1>2, <2>1, <2>2, OtherBodies, TerminalBorn, NamesDistinct, ActorsTasks DEF Inv
<1>4. CountMatchesHolders'
  <2>1. \A t \in Born : HeldByScope(t)' <=> HeldByScope(t)
    BY DEF HeldByScope
  <2> QED BY <1>1, <2>1, CountKept DEF Inv
<1>5. \A t \in Tasks : /\ takers'[t] # {} => consumed'[t]
                       /\ status[t] = "unborn" => ~consumed'[t]
                       /\ consumed'[t] = consumed[t]
  BY DEF Inv, ThreadInv, UnbornUntouched
<1>6. AtSpawn(Main) => AtSpawn(Main)' /\ target'[Main] = target[Main]
  BY DEF AtSpawn
<1> QED BY <1>2, <1>3, <1>4, <1>5, <1>6, BodyStep, ActorsTasks

LEMMA ThreadsStill ==
  ASSUME Inv, UNCHANGED <<threadVars, overtaken>>
  PROVE  Steady /\ PlacesKept /\ PlacesCounted
  BY DEF threadVars, Inv, TypeInv, Steady, PlacesKept, PlacesCounted, UnbornUntouched, ThreadInv, One,
     Orderly

\* A runtime call of a, or a pass of its scope exit, that drops no reference.
LEMMA CallStep ==
  ASSUME Inv, TypeInv', Steady, PlacesKept, PlacesCounted, NEW a \in Actors, Executing(a),
         UNCHANGED <<consumed, takers, knows, parent, tasks, scope>>,
         \A b \in Actors \ {a} : Untouched(b),
         pc[a] \notin {"enter", "exitFree", "return", "done"}, pc'[a] \notin {"enter", "return", "done"},
         pc'[a] = "exitFree" => todo'[a] = tasks[a],
         AtSpawn(a) => AtSpawn(a)' /\ target'[a] = target[a],
         CallInv(a)', ExitInv(a)'
  PROVE  Inv'
<1>1. a \in {Main} \cup Born
  BY ExecutingBorn DEF Inv
<1>2. Born' = Born
  BY SteadyBorn
<1>3. BodyInv(a)'
  BY <1>2 DEF Inv, BodyInv, ScopeInv
<1>4. CountMatchesHolders'
  <2> SUFFICES ASSUME NEW t \in Born PROVE HeldByScope(t)' <=> HeldByScope(t)
    BY <1>2, CountKept DEF Inv
  <2> DEFINE Held(b) == t \in tasks[b] /\ scope[b] = "open" /\ (pc[b] = "exitFree" => t \in todo[b])
  <2>1. \A b \in Actors : Held(b)' <=> Held(b)
    BY DEF Untouched
  <2> QED BY <2>1 DEF HeldByScope
<1>5. \A t \in Tasks : /\ takers'[t] # {} => consumed'[t]
                       /\ status[t] = "unborn" => ~consumed'[t]
                       /\ consumed'[t] = consumed[t]
  BY DEF Inv, ThreadInv, UnbornUntouched
<1> QED BY <1>1, <1>3, <1>4, <1>5, BodyStep

-----------------------------------------------------------------------------
(* Each action keeps the invariant *)

\* A change of one task's status, place, late writers and count that keeps them
\* in order is one of threads.
LEMMA OneThread ==
  ASSUME Inv, TypeInv', NEW t \in Born, overtaken => overtaken',
         \A u \in Tasks \ {t} : /\ status'[u] = status[u] /\ place'[u] = place[u]
                                 /\ late'[u] = late[u] /\ strong'[u] = strong[u],
         status'[t] # "unborn", ~overtaken' /\ is_terminal(t) => status'[t] = status[t],
         ~overtaken' => Orderly(t)',
         strong'[t] - One(place'[t] # "none") - late'[t] = strong[t] - One(place[t] # "none") - late[t]
  PROVE  Steady /\ PlacesKept /\ PlacesCounted
<1>1. t \in Tasks /\ status[t] # "unborn"
  BY DEF Born
<1>2. Steady
  BY <1>1 DEF Steady
<1>3. ASSUME NEW u \in Tasks, ~overtaken' PROVE Orderly(u)'
  <2>1. CASE u = t
    BY <1>3, <2>1
  <2>2. CASE u # t
    BY <1>3, <2>2 DEF Inv, ThreadInv, Orderly
  <2> QED BY <2>1, <2>2
<1>4. \A u \in Tasks : status[u] = "unborn" => place'[u] = "none" /\ late'[u] = 0 /\ strong'[u] = strong[u]
  BY <1>1 DEF Inv, UnbornUntouched
<1>5. PlacesKept
  BY <1>3, <1>4 DEF PlacesKept
<1>6. PlacesCounted
  BY DEF PlacesCounted
<1> QED BY <1>2, <1>5, <1>6

LEMMA DispatchInv == ASSUME Inv, NEW t \in Tasks, Dispatch(t) PROVE Inv'
<1>1. t \in Born /\ place[t] # "none"
  BY DEF Dispatch, Inv, UnbornUntouched, Born
<1>2. /\ UNCHANGED late /\ overtaken' \in BOOLEAN /\ (overtaken => overtaken')
      /\ (~overtaken' => late[t] = 0)
  <2>1. UNCHANGED late /\ overtaken' = (overtaken \/ late[t] > 0)
    BY DEF Dispatch, Overtakes
  <2>2. late[t] \in Nat /\ overtaken \in BOOLEAN
    BY DEF Inv, TypeInv
  <2>3. late[t] > 0 \/ late[t] = 0
    BY <2>2
  <2> QED BY <2>1, <2>2, <2>3
<1>3. CASE \E o \in Terminal : EndsAs(t, o) /\ (is_terminal(t) => o = status[t])
  <2>1. /\ status' \in [Tasks -> Statuses]
        /\ place' \in [Tasks -> {"none", "queue", "worker", "asks", "waiting"} \cup Lists]
        /\ strong' \in [Tasks -> Int]
        /\ Steady /\ PlacesKept /\ PlacesCounted
    BY <1>1, <1>2, <1>3, EndsAsFacts DEF Inv
  <2>2. TypeInv'
    BY <1>2, <2>1 DEF Inv, TypeInv, Dispatch, bodyVars
  <2> QED BY <2>1, <2>2, ThreadStep DEF Dispatch, bodyVars
<1>4. CASE /\ ~is_terminal(t)
           /\ status' = [status EXCEPT ![t] = "Running"]
           /\ place' = [place EXCEPT ![t] = "worker"]
           /\ UNCHANGED strong
  <2>1. TypeInv'
    BY <1>2, <1>4 DEF Inv, TypeInv, Dispatch, bodyVars, Statuses
  <2>2. status'[t] = "Running" /\ place'[t] = "worker"
    BY <1>4 DEF Inv, TypeInv
  <2>3. Orderly(t)' \/ overtaken'
    BY <1>2, <2>2 DEF Orderly
  <2>4. Steady /\ PlacesKept /\ PlacesCounted
    BY <1>1, <1>2, <1>4, <2>1, <2>2, <2>3, OneThread DEF Inv, TypeInv, One
  <2> QED BY <2>1, <2>4, ThreadStep DEF Dispatch, bodyVars
<1> QED BY <1>3, <1>4 DEF Dispatch, is_terminal, Terminal

LEMMA safepointInv == ASSUME Inv, NEW t \in Tasks, safepoint(t) PROVE Inv'
<1>1. t \in Born /\ place[t] = "worker" /\ (~overtaken => ~is_terminal(t) /\ late[t] = 0)
  BY ActorsTasks DEF safepoint, At, Executing, Inv, UnbornUntouched, ThreadInv, Orderly, Born, is_terminal,
     Terminal
<1>2. UNCHANGED <<late, overtaken>>
  BY DEF safepoint, historyVars
<1>3. CASE EndsAs(t, "Cancelled") /\ UNCHANGED fuel
  <2>1. /\ status' \in [Tasks -> Statuses]
        /\ place' \in [Tasks -> {"none", "queue", "worker", "asks", "waiting"} \cup Lists]
        /\ strong' \in [Tasks -> Int]
        /\ Steady /\ PlacesKept /\ PlacesCounted
    BY <1>1, <1>2, <1>3, EndsAsFacts DEF Inv, Terminal
  <2>2. TypeInv'
    BY <1>3, <2>1 DEF Inv, TypeInv, safepoint, historyVars
  <2> QED BY <2>1, <2>2, ThreadStep DEF safepoint, historyVars
<1>4. CASE /\ fuel[t] > 0
           /\ fuel' = [fuel EXCEPT ![t] = @ - 1]
           /\ status' = [status EXCEPT ![t] = "Runnable"]
           /\ place' = [place EXCEPT ![t] = "queue"]
           /\ UNCHANGED strong
  <2>1. TypeInv'
    BY <1>4, ActorsTasks DEF Inv, TypeInv, safepoint, historyVars, Statuses
  <2>2. status'[t] = "Runnable" /\ place'[t] = "queue"
    BY <1>4 DEF Inv, TypeInv
  <2>3. Orderly(t)' \/ overtaken'
    BY <1>1, <1>2, <2>2 DEF Orderly
  <2>4. Steady /\ PlacesKept /\ PlacesCounted
    BY <1>1, <1>2, <1>4, <2>1, <2>2, <2>3, OneThread DEF Inv, TypeInv, One
  <2> QED BY <2>1, <2>4, ThreadStep DEF safepoint, historyVars
<1> QED BY <1>3, <1>4 DEF safepoint

LEMMA ParkInv == ASSUME Inv, NEW t \in Tasks, NEW list \in WaitLists, Park(t, list) PROVE Inv'
<1>1. t \in Born /\ place[t] = "worker" /\ status[t] # "unborn" /\ late[t] \in Nat /\ strong[t] \in Int
  BY ActorsTasks DEF Park, Calls, At, Executing, Inv, TypeInv, UnbornUntouched, Born
<1>2. list \in Lists
  BY WaitListsKnown
<1>3. TypeInv'
  BY <1>1, <1>2, ActorsTasks DEF Inv, TypeInv, Park, Calls, historyVars
<1>4. /\ place'[t] = list /\ late'[t] = late[t] + 1 /\ strong'[t] = strong[t] + 1
      /\ UNCHANGED <<status, overtaken>>
  BY DEF Park, Inv, TypeInv, historyVars
<1>5. Orderly(t)' \/ overtaken'
  BY <1>1, <1>2, <1>4 DEF Inv, ThreadInv, Orderly, Lists
<1>6. strong'[t] - One(place'[t] # "none") - late'[t] = strong[t] - One(place[t] # "none") - late[t]
  BY <1>1, <1>2, <1>4 DEF One, Lists
<1>7. Steady /\ PlacesKept /\ PlacesCounted
  BY <1>1, <1>3, <1>4, <1>5, <1>6, OneThread DEF Inv, TypeInv, Park
<1> QED BY <1>3, <1>7, ThreadStep DEF Park, historyVars

LEMMA MarkSuspendedInv == ASSUME Inv, NEW t \in Tasks, MarkSuspended(t) PROVE Inv'
<1>1. t \in Born /\ status[t] # "unborn" /\ late[t] \in Nat \ {0} /\ strong[t] \in Int
  BY DEF MarkSuspended, Inv, TypeInv, UnbornUntouched, Born
<1>2. TypeInv'
  BY <1>1 DEF Inv, TypeInv, MarkSuspended, bodyVars, historyVars, Statuses
<1>3. /\ status'[t] = "Suspended" /\ late'[t] = late[t] - 1 /\ strong'[t] = strong[t] - 1
      /\ UNCHANGED <<place, overtaken>>
  BY DEF MarkSuspended, Inv, TypeInv, historyVars
<1>4. ~overtaken => ~is_terminal(t)
  BY <1>1 DEF Inv, ThreadInv, Orderly, is_terminal, Terminal
<1>5. Orderly(t)' \/ overtaken'
  BY <1>1, <1>3 DEF Inv, ThreadInv, Orderly
<1>6. strong'[t] - One(place'[t] # "none") - late'[t] = strong[t] - One(place[t] # "none") - late[t]
  BY <1>1, <1>3 DEF One
<1>7. Steady /\ PlacesKept /\ PlacesCounted
  BY <1>1, <1>2, <1>3, <1>4, <1>5, <1>6, OneThread DEF Inv, TypeInv, MarkSuspended
<1> QED BY <1>2, <1>7, ThreadStep DEF MarkSuspended, bodyVars, historyVars

LEMMA YieldOnTaskInv == ASSUME Inv, NEW t \in Tasks, YieldOnTask(t) PROVE Inv'
<1>1. t \in Born /\ place[t] = "worker" /\ status[t] # "unborn" /\ pc[t] \in {"wait", "exitWait"}
  BY ActorsTasks DEF YieldOnTask, At, Executing, Inv, UnbornUntouched, Born
<1>2. TypeInv'
  BY ActorsTasks DEF Inv, TypeInv, YieldOnTask, bodyVars, historyVars
<1>3. place'[t] = "asks" /\ UNCHANGED <<status, late, strong, overtaken>>
  BY DEF YieldOnTask, Inv, TypeInv, historyVars
<1>4. Orderly(t)' \/ overtaken'
  BY <1>1, <1>3 DEF Inv, ThreadInv, Orderly
<1>5. Steady /\ PlacesKept /\ PlacesCounted
  BY <1>1, <1>2, <1>3, <1>4, OneThread DEF Inv, TypeInv, YieldOnTask, One
<1> QED BY <1>2, <1>5, ThreadStep DEF YieldOnTask, bodyVars, historyVars

LEMMA RequeueWaiterInv == ASSUME Inv, NEW t \in Tasks, RequeueWaiter(t) PROVE Inv'
<1>1. t \in Born /\ place[t] = "asks" /\ status[t] # "unborn"
  BY DEF RequeueWaiter, Inv, UnbornUntouched, Born
<1>2. TypeInv'
  BY DEF Inv, TypeInv, RequeueWaiter, bodyVars, historyVars, Statuses
<1>3. place'[t] = "queue" /\ status'[t] = "Runnable" /\ UNCHANGED <<late, strong, overtaken>>
  BY DEF RequeueWaiter, Inv, TypeInv, historyVars
<1>4. ~overtaken => ~is_terminal(t)
  BY <1>1 DEF Inv, ThreadInv, Orderly, is_terminal, Terminal
<1>5. Orderly(t)' \/ overtaken'
  BY <1>1, <1>3 DEF Inv, ThreadInv, Orderly
<1>6. Steady /\ PlacesKept /\ PlacesCounted
  BY <1>1, <1>2, <1>3, <1>4, <1>5, OneThread DEF Inv, TypeInv, RequeueWaiter, One
<1> QED BY <1>2, <1>6, ThreadStep DEF RequeueWaiter, bodyVars, historyVars

LEMMA EnlistWaiterInv == ASSUME Inv, NEW t \in Tasks, EnlistWaiter(t) PROVE Inv'
<1>1. t \in Born /\ place[t] = "asks" /\ status[t] # "unborn" /\ late[t] \in Nat /\ strong[t] \in Int
  BY DEF EnlistWaiter, Inv, TypeInv, UnbornUntouched, Born
<1>2. TypeInv'
  BY <1>1 DEF Inv, TypeInv, EnlistWaiter, bodyVars, historyVars
<1>3. /\ place'[t] = "waiting" /\ late'[t] = late[t] + 1 /\ strong'[t] = strong[t] + 1
      /\ UNCHANGED <<status, overtaken>>
  BY DEF EnlistWaiter, Inv, TypeInv, historyVars
<1>4. Orderly(t)' \/ overtaken'
  BY <1>1, <1>3 DEF Inv, ThreadInv, Orderly
<1>5. strong'[t] - One(place'[t] # "none") - late'[t] = strong[t] - One(place[t] # "none") - late[t]
  BY <1>1, <1>3 DEF One
<1>6. Steady /\ PlacesKept /\ PlacesCounted
  BY <1>1, <1>2, <1>3, <1>4, <1>5, OneThread DEF Inv, TypeInv, EnlistWaiter
<1> QED BY <1>2, <1>6, ThreadStep DEF EnlistWaiter, bodyVars, historyVars

LEMMA wake_threadInv == ASSUME Inv, NEW t \in Tasks, wake_thread(t) PROVE Inv'
<1>1. t \in Born /\ place[t] = "parked" /\ status[t] # "unborn" /\ strong[t] \in Int /\ late[t] \in Nat
  BY DEF wake_thread, Inv, TypeInv, UnbornUntouched, Born
<1>2. TypeInv'
  BY DEF Inv, TypeInv, wake_thread, bodyVars, historyVars, Statuses
<1>3. UNCHANGED <<late, overtaken>>
  BY DEF wake_thread, historyVars
<1>4. \/ /\ is_terminal(t) /\ place'[t] = "none" /\ status'[t] = status[t] /\ strong'[t] = strong[t] - 1
      \/ /\ ~is_terminal(t) /\ place'[t] = "queue" /\ status'[t] = "Runnable" /\ strong'[t] = strong[t]
  BY DEF wake_thread, Inv, TypeInv
<1>5. Orderly(t)' \/ overtaken'
  BY <1>1, <1>3, <1>4 DEF Inv, ThreadInv, Orderly, is_terminal, Terminal
<1>6. strong'[t] - One(place'[t] # "none") - late'[t] = strong[t] - One(place[t] # "none") - late[t]
  BY <1>1, <1>3, <1>4 DEF One
<1>7. Steady /\ PlacesKept /\ PlacesCounted
  BY <1>1, <1>2, <1>3, <1>4, <1>5, <1>6, OneThread DEF Inv, TypeInv, wake_thread
<1> QED BY <1>2, <1>7, ThreadStep DEF wake_thread, bodyVars, historyVars

LEMMA worker_runInv == ASSUME Inv, NEW t \in Tasks, worker_run(t) PROVE Inv'
<1>1. t \in Born /\ place[t] = "job" /\ status[t] # "unborn"
  BY DEF worker_run, Inv, UnbornUntouched, Born
<1>2. TypeInv'
  BY DEF Inv, TypeInv, worker_run, bodyVars, Statuses, is_terminal
<1>3. /\ place'[t] = "queue" /\ status'[t] = "Runnable" /\ UNCHANGED <<late, strong>>
      /\ overtaken => overtaken'
      /\ ~overtaken' => ~is_terminal(t)
  BY DEF worker_run, Inv, TypeInv
<1>4. Orderly(t)' \/ overtaken'
  BY <1>1, <1>3 DEF Inv, ThreadInv, Orderly
<1>5. Steady /\ PlacesKept /\ PlacesCounted
  BY <1>1, <1>2, <1>3, <1>4, OneThread DEF Inv, TypeInv, worker_run, One
<1> QED BY <1>2, <1>5, ThreadStep DEF worker_run, bodyVars

LEMMA poll_ioInv == ASSUME Inv, NEW t \in Tasks, poll_io(t) PROVE Inv'
<1>1. t \in Born /\ place[t] = "fd" /\ status[t] # "unborn"
  BY DEF poll_io, Inv, UnbornUntouched, Born
<1>2. TypeInv'
  BY DEF Inv, TypeInv, poll_io, bodyVars, historyVars
<1>3. place'[t] = "queue" /\ UNCHANGED <<status, late, strong, overtaken>>
  BY DEF poll_io, Inv, TypeInv, historyVars
<1>4. Orderly(t)' \/ overtaken'
  BY <1>1, <1>3 DEF Inv, ThreadInv, Orderly
<1>5. Steady /\ PlacesKept /\ PlacesCounted
  BY <1>1, <1>2, <1>3, <1>4, OneThread DEF Inv, TypeInv, poll_io, One
<1> QED BY <1>2, <1>5, ThreadStep DEF poll_io, bodyVars, historyVars

\* A handle or a registered task exists.
LEMMA HandlesBorn ==
  ASSUME Inv, NEW a \in Actors
  PROVE  knows[a] \subseteq Born /\ tasks[a] \subseteq Born /\ Born \subseteq Tasks
  BY DEF Inv, BodyInv, ScopeInv, Born

LEMMA aster_task_cancelInv ==
  ASSUME Inv, NEW a \in Actors, NEW t \in Tasks, aster_task_cancel(a, t) PROVE Inv'
<1>1. t \in Born /\ pc[a] = "run" /\ Executing(a)
  BY HandlesBorn DEF aster_task_cancel, Calls, At
<1>2. /\ status' \in [Tasks -> Statuses]
      /\ place' \in [Tasks -> {"none", "queue", "worker", "asks", "waiting"} \cup Lists]
      /\ cancelRequested' \in [Tasks -> BOOLEAN] /\ overtaken' \in BOOLEAN
      /\ Steady /\ PlacesKept /\ PlacesCounted
  BY <1>1, CancelFacts DEF aster_task_cancel, Inv
<1>3. TypeInv'
  BY <1>2 DEF aster_task_cancel, Calls, Inv, TypeInv, cancel_thread, historyVars
<1>4. CallInv(a)' /\ ExitInv(a)'
  BY <1>1 DEF aster_task_cancel, Inv, BodyInv, CallInv, ExitInv, AtSpawn, ExitPcs
<1>5. \A b \in Actors \ {a} : Untouched(b)
  BY DEF aster_task_cancel, Untouched
<1> QED BY <1>1, <1>2, <1>3, <1>4, <1>5, CallStep DEF aster_task_cancel, cancel_thread, AtSpawn

LEMMA aster_task_wait_cancelInv ==
  ASSUME Inv, NEW a \in Actors, NEW t \in Tasks, aster_task_wait_cancel(a, t) PROVE Inv'
<1>1. t \in Born /\ pc[a] = "run" /\ Executing(a)
  BY HandlesBorn DEF aster_task_wait_cancel, Calls, At
<1>2. /\ status' \in [Tasks -> Statuses]
      /\ place' \in [Tasks -> {"none", "queue", "worker", "asks", "waiting"} \cup Lists]
      /\ cancelRequested' \in [Tasks -> BOOLEAN] /\ overtaken' \in BOOLEAN
      /\ Steady /\ PlacesKept /\ PlacesCounted
  BY <1>1, CancelFacts DEF aster_task_wait_cancel, Inv
<1>3. TypeInv'
  BY <1>2 DEF aster_task_wait_cancel, Calls, GoTo, Inv, TypeInv, cancel_thread, historyVars, BodyPcs, Goals
<1>4. pc'[a] = "wait" /\ goal'[a] = "waitCancel" /\ target'[a] = t /\ t \in knows[a]
  BY DEF aster_task_wait_cancel, GoTo, Inv, TypeInv
<1>5. CallInv(a)' /\ ExitInv(a)'
  BY <1>1, <1>4 DEF aster_task_wait_cancel, Inv, BodyInv, CallInv, ExitInv, AtSpawn, ExitPcs
<1>6. \A b \in Actors \ {a} : Untouched(b)
  BY DEF aster_task_wait_cancel, GoTo, Untouched, Inv, TypeInv
<1> QED BY <1>1, <1>2, <1>3, <1>4, <1>5, <1>6, CallStep DEF aster_task_wait_cancel, cancel_thread, AtSpawn

LEMMA aster_task_resolveInv ==
  ASSUME Inv, NEW a \in Actors, NEW t \in Tasks, aster_task_resolve(a, t) PROVE Inv'
<1>1. t \in knows[a] /\ pc[a] = "run" /\ Executing(a)
  BY DEF aster_task_resolve, Calls, At
<1>2. Steady /\ PlacesKept /\ PlacesCounted
  BY ThreadsStill DEF aster_task_resolve, historyVars
<1>3. TypeInv'
  BY DEF aster_task_resolve, Calls, GoTo, Inv, TypeInv, threadVars, historyVars, BodyPcs, Goals
<1>4. pc'[a] = "wait" /\ goal'[a] = "resolve" /\ target'[a] = t
  BY DEF aster_task_resolve, GoTo, Inv, TypeInv
<1>5. CallInv(a)' /\ ExitInv(a)'
  BY <1>1, <1>4 DEF aster_task_resolve, Inv, BodyInv, CallInv, ExitInv, AtSpawn, ExitPcs
<1>6. \A b \in Actors \ {a} : Untouched(b)
  BY DEF aster_task_resolve, GoTo, Untouched, Inv, TypeInv
<1> QED BY <1>1, <1>2, <1>3, <1>4, <1>5, <1>6, CallStep DEF aster_task_resolve, threadVars, historyVars, AtSpawn

LEMMA aster_task_resolve_allInv ==
  ASSUME Inv, NEW a \in Actors, aster_task_resolve_all(a) PROVE Inv'
<1>1. pc[a] = "run" /\ Executing(a) /\ knows[a] \subseteq Tasks
  BY HandlesBorn DEF aster_task_resolve_all, Calls, At
<1>2. Steady /\ PlacesKept /\ PlacesCounted
  BY ThreadsStill DEF aster_task_resolve_all, historyVars
<1> PICK list \in SUBSET knows[a] : \E first \in list :
             /\ target' = [target EXCEPT ![a] = first]
             /\ todo' = [todo EXCEPT ![a] = list \ {first}]
  BY DEF aster_task_resolve_all
<1> PICK first \in list : /\ target' = [target EXCEPT ![a] = first]
                          /\ todo' = [todo EXCEPT ![a] = list \ {first}]
  OBVIOUS
<1>3. TypeInv'
  BY <1>1 DEF aster_task_resolve_all, Calls, GoTo, Inv, TypeInv, threadVars, historyVars, BodyPcs, Goals
<1>4. /\ pc'[a] = "wait" /\ goal'[a] = "all"
      /\ target'[a] \in knows[a] /\ todo'[a] \subseteq knows[a]
  BY DEF aster_task_resolve_all, GoTo, Inv, TypeInv
<1>5. CallInv(a)' /\ ExitInv(a)'
  BY <1>1, <1>4 DEF aster_task_resolve_all, CallInv, ExitInv, AtSpawn, ExitPcs
<1>6. \A b \in Actors \ {a} : Untouched(b)
  BY DEF aster_task_resolve_all, GoTo, Untouched, Inv, TypeInv
<1> QED BY <1>1, <1>2, <1>3, <1>4, <1>5, <1>6, CallStep DEF aster_task_resolve_all, threadVars, historyVars, AtSpawn

LEMMA aster_task_resolve_firstInv ==
  ASSUME Inv, NEW a \in Actors, aster_task_resolve_first(a) PROVE Inv'
<1>1. pc[a] = "run" /\ Executing(a) /\ knows[a] \subseteq Tasks
  BY HandlesBorn DEF aster_task_resolve_first, Calls, At
<1>2. Steady /\ PlacesKept /\ PlacesCounted
  BY ThreadsStill DEF aster_task_resolve_first, historyVars
<1> PICK list \in SUBSET knows[a] \ {{}} : todo' = [todo EXCEPT ![a] = list]
  BY DEF aster_task_resolve_first
<1>3. TypeInv'
  BY <1>1 DEF aster_task_resolve_first, Calls, GoTo, Inv, TypeInv, threadVars, historyVars, BodyPcs
<1>4. pc'[a] = "scan" /\ todo'[a] \subseteq knows[a]
  BY DEF aster_task_resolve_first, GoTo, Inv, TypeInv
<1>5. CallInv(a)' /\ ExitInv(a)'
  BY <1>1, <1>4 DEF aster_task_resolve_first, CallInv, ExitInv, AtSpawn, ExitPcs
<1>6. \A b \in Actors \ {a} : Untouched(b)
  BY DEF aster_task_resolve_first, GoTo, Untouched, Inv, TypeInv
<1> QED BY <1>1, <1>2, <1>3, <1>4, <1>5, <1>6, CallStep DEF aster_task_resolve_first, threadVars, historyVars, AtSpawn

LEMMA FirstReadyInv ==
  ASSUME Inv, NEW a \in Actors, NEW t \in Tasks, FirstReady(a, t) PROVE Inv'
<1>1. t \in todo[a] /\ pc[a] = "scan" /\ Executing(a)
  BY DEF FirstReady, At
<1>2. Steady /\ PlacesKept /\ PlacesCounted
  BY ThreadsStill DEF FirstReady, historyVars
<1>3. TypeInv'
  BY DEF FirstReady, GoTo, Inv, TypeInv, threadVars, historyVars, BodyPcs
<1>4. pc'[a] = "losers" /\ target'[a] = t /\ todo'[a] \subseteq todo[a]
  BY DEF FirstReady, GoTo, Inv, TypeInv
<1>5. CallInv(a)' /\ ExitInv(a)'
  BY <1>1, <1>4 DEF FirstReady, Inv, BodyInv, CallInv, ExitInv, AtSpawn, ExitPcs
<1>6. \A b \in Actors \ {a} : Untouched(b)
  BY DEF FirstReady, GoTo, Untouched, Inv, TypeInv
<1> QED BY <1>1, <1>2, <1>3, <1>4, <1>5, <1>6, CallStep DEF FirstReady, threadVars, historyVars, AtSpawn

LEMMA CancelLoserInv ==
  ASSUME Inv, NEW a \in Actors, NEW t \in Tasks, CancelLoser(a, t) PROVE Inv'
<1>1. t \in todo[a] /\ pc[a] = "losers" /\ Executing(a)
  BY DEF CancelLoser, At
<1>2. todo[a] \subseteq knows[a] /\ t \in Born
  BY <1>1, HandlesBorn DEF Inv, BodyInv, CallInv, ExitPcs
<1>3. /\ status' \in [Tasks -> Statuses]
      /\ place' \in [Tasks -> {"none", "queue", "worker", "asks", "waiting"} \cup Lists]
      /\ cancelRequested' \in [Tasks -> BOOLEAN] /\ overtaken' \in BOOLEAN
      /\ Steady /\ PlacesKept /\ PlacesCounted
  BY <1>2, CancelFacts DEF CancelLoser, Inv
<1>4. TypeInv'
  BY <1>3 DEF CancelLoser, Inv, TypeInv, cancel_thread, historyVars
<1>5. todo'[a] \subseteq todo[a]
  BY DEF CancelLoser, Inv, TypeInv
<1>6. CallInv(a)' /\ ExitInv(a)'
  BY <1>1, <1>2, <1>5 DEF CancelLoser, Inv, BodyInv, CallInv, ExitInv, AtSpawn, ExitPcs
<1>7. \A b \in Actors \ {a} : Untouched(b)
  BY DEF CancelLoser, Untouched, Inv, TypeInv
<1> QED BY <1>1, <1>3, <1>4, <1>6, <1>7, CallStep DEF CancelLoser, cancel_thread, AtSpawn

LEMMA ResolveWinnerInv ==
  ASSUME Inv, NEW a \in Actors, ResolveWinner(a) PROVE Inv'
<1>1. pc[a] = "losers" /\ Executing(a) /\ target[a] \in knows[a]
  BY DEF ResolveWinner, At, Inv, BodyInv, CallInv
<1>2. Steady /\ PlacesKept /\ PlacesCounted
  BY ThreadsStill DEF ResolveWinner, historyVars
<1>3. TypeInv'
  BY DEF ResolveWinner, GoTo, Inv, TypeInv, threadVars, historyVars, BodyPcs, Goals
<1>4. pc'[a] = "wait" /\ goal'[a] = "resolve"
  BY DEF ResolveWinner, GoTo, Inv, TypeInv
<1>5. CallInv(a)' /\ ExitInv(a)'
  BY <1>1, <1>4 DEF ResolveWinner, CallInv, ExitInv, AtSpawn, ExitPcs
<1>6. \A b \in Actors \ {a} : Untouched(b)
  BY DEF ResolveWinner, GoTo, Untouched, Inv, TypeInv
<1> QED BY <1>1, <1>2, <1>3, <1>4, <1>5, <1>6, CallStep DEF ResolveWinner, threadVars, historyVars, AtSpawn

LEMMA WaitOverInv ==
  ASSUME Inv, NEW a \in Actors, WaitOver(a) PROVE Inv'
<1>1. pc[a] = "wait" /\ Executing(a)
  BY DEF WaitOver, At
<1>2. Steady /\ PlacesKept /\ PlacesCounted
  BY ThreadsStill DEF WaitOver, historyVars
<1>3. TypeInv'
  BY DEF WaitOver, GoTo, Inv, TypeInv, threadVars, historyVars, BodyPcs
<1>4. pc'[a] = IF goal[a] = "waitCancel" THEN "run" ELSE "consume"
  BY DEF WaitOver, GoTo, Inv, TypeInv
<1>5. CallInv(a)' /\ ExitInv(a)'
  <2>1. BodyInv(a) /\ ~AtSpawn(a) => todo[a] \subseteq knows[a]
    BY <1>1 DEF Inv, BodyInv, CallInv, ExitPcs
  <2>2. Born' = Born
    BY <1>2, SteadyBorn
  <2>3. CASE goal[a] = "waitCancel"
    BY <1>1, <1>4, <2>3 DEF WaitOver, Inv, BodyInv, CallInv, ExitInv, AtSpawn, ExitPcs
  <2>4. CASE goal[a] # "waitCancel"
    BY <1>1, <1>4, <2>2, <2>4 DEF WaitOver, Inv, BodyInv, CallInv, ExitInv, AtSpawn, Unscoped, ExitPcs,
       is_terminal, threadVars, historyVars
  <2> QED BY <2>3, <2>4
<1>6. \A b \in Actors \ {a} : Untouched(b)
  BY DEF WaitOver, GoTo, Untouched, Inv, TypeInv
<1> QED
  BY <1>1, <1>2, <1>3, <1>4, <1>5, <1>6, CallStep DEF WaitOver, threadVars, historyVars, AtSpawn

LEMMA ScopeExitInv ==
  ASSUME Inv, NEW a \in Actors, ScopeExit(a) PROVE Inv'
<1>1. pc[a] = "run" /\ Executing(a)
  BY DEF ScopeExit, At
<1>2. Steady /\ PlacesKept /\ PlacesCounted
  BY ThreadsStill DEF ScopeExit, historyVars
<1>3. TypeInv'
  BY DEF ScopeExit, GoTo, Inv, TypeInv, threadVars, historyVars, BodyPcs, ExitPcs
<1>4. pc'[a] = "exitCancel" /\ todo'[a] = tasks[a]
  BY DEF ScopeExit, GoTo, Inv, TypeInv
<1>5. CallInv(a)' /\ ExitInv(a)'
  BY <1>4 DEF ScopeExit, CallInv, ExitInv, AtSpawn, ExitPcs
<1>6. \A b \in Actors \ {a} : Untouched(b)
  BY DEF ScopeExit, GoTo, Untouched, Inv, TypeInv
<1> QED BY <1>1, <1>2, <1>3, <1>4, <1>5, <1>6, CallStep DEF ScopeExit, threadVars, historyVars, AtSpawn

LEMMA ExitCancelInv ==
  ASSUME Inv, NEW a \in Actors, ExitCancel(a) PROVE Inv'
<1>1. pc[a] = "exitCancel" /\ Executing(a) /\ ~AtSpawn(a)
  BY DEF ExitCancel, At, AtSpawn
<1>2. todo[a] \subseteq tasks[a] /\ tasks[a] \subseteq Born
  BY <1>1, HandlesBorn DEF Inv, BodyInv, ExitInv, ExitPcs
<1>3. CASE \E t \in todo[a] : /\ cancel_thread(t)
                              /\ todo' = [todo EXCEPT ![a] = @ \ {t}]
                              /\ UNCHANGED <<pc, target>>
  <2> PICK t \in todo[a] : /\ cancel_thread(t)
                           /\ todo' = [todo EXCEPT ![a] = @ \ {t}]
                           /\ UNCHANGED <<pc, target>>
    BY <1>3
  <2>1. /\ status' \in [Tasks -> Statuses]
        /\ place' \in [Tasks -> {"none", "queue", "worker", "asks", "waiting"} \cup Lists]
        /\ cancelRequested' \in [Tasks -> BOOLEAN] /\ overtaken' \in BOOLEAN
        /\ Steady /\ PlacesKept /\ PlacesCounted
    BY <1>2, CancelFacts DEF ExitCancel, Inv
  <2>2. TypeInv'
    BY <2>1 DEF ExitCancel, Inv, TypeInv, cancel_thread, historyVars
  <2>3. todo'[a] \subseteq todo[a]
    BY DEF Inv, TypeInv
  <2>4. CallInv(a)' /\ ExitInv(a)'
    BY <1>1, <1>2, <2>3 DEF ExitCancel, CallInv, ExitInv, AtSpawn, ExitPcs
  <2>5. \A b \in Actors \ {a} : Untouched(b)
    BY DEF ExitCancel, Untouched, Inv, TypeInv
  <2> QED BY <1>1, <2>1, <2>2, <2>4, <2>5, CallStep DEF ExitCancel, cancel_thread, historyVars
<1>4. CASE /\ todo[a] = {}
           /\ todo' = [todo EXCEPT ![a] = tasks[a]]
           /\ target' = [target EXCEPT ![a] = NoTask]
           /\ GoTo(a, "exitWait")
           /\ UNCHANGED <<status, cancelRequested, place, late, historyVars>>
  <2>1. Steady /\ PlacesKept /\ PlacesCounted
    BY <1>4, ThreadsStill DEF ExitCancel, threadVars, historyVars
  <2>2. TypeInv'
    BY <1>4 DEF ExitCancel, GoTo, Inv, TypeInv, cancel_thread, historyVars, BodyPcs, ExitPcs
  <2>3. pc'[a] = "exitWait" /\ todo'[a] = tasks[a]
    BY <1>4 DEF GoTo, Inv, TypeInv
  <2>4. CallInv(a)' /\ ExitInv(a)'
    BY <2>3 DEF ExitCancel, CallInv, ExitInv, AtSpawn, ExitPcs
  <2>5. \A b \in Actors \ {a} : Untouched(b)
    BY <1>4 DEF ExitCancel, GoTo, Untouched, Inv, TypeInv
  <2> QED BY <1>1, <2>1, <2>2, <2>3, <2>4, <2>5, CallStep DEF ExitCancel, cancel_thread, historyVars
<1> QED BY <1>3, <1>4 DEF ExitCancel

LEMMA ExitWaitInv ==
  ASSUME Inv, NEW a \in Actors, ExitWait(a) PROVE Inv'
<1>1. pc[a] = "exitWait" /\ Executing(a) /\ ~AtSpawn(a)
  BY DEF ExitWait, At, AtSpawn
<1>2. /\ todo[a] \subseteq tasks[a] /\ tasks[a] \subseteq Born /\ tasks[a] \subseteq Tasks
      /\ ~overtaken => \A t \in tasks[a] \ todo[a] : is_terminal(t)
  BY <1>1, HandlesBorn DEF Inv, BodyInv, ExitInv, ExitPcs
<1>3. CASE \E t \in todo[a] : /\ target[a] = NoTask
                              /\ cancel_thread(t)
                              /\ target' = [target EXCEPT ![a] = t]
                              /\ UNCHANGED <<todo, pc>>
  <2> PICK t \in todo[a] : /\ cancel_thread(t)
                           /\ target' = [target EXCEPT ![a] = t]
                           /\ UNCHANGED <<todo, pc>>
    BY <1>3
  <2>1. /\ status' \in [Tasks -> Statuses]
        /\ place' \in [Tasks -> {"none", "queue", "worker", "asks", "waiting"} \cup Lists]
        /\ cancelRequested' \in [Tasks -> BOOLEAN] /\ overtaken' \in BOOLEAN
        /\ Steady /\ PlacesKept /\ PlacesCounted
    BY <1>2, CancelFacts DEF ExitWait, Inv
  <2>2. TypeInv'
    BY <1>2, <2>1 DEF ExitWait, Inv, TypeInv, cancel_thread, historyVars
  <2>3. /\ overtaken => overtaken'
        /\ \A u \in Tasks : ~overtaken' /\ is_terminal(u) => is_terminal(u)'
    BY <2>1, SteadyBorn DEF Steady
  <2>4. CallInv(a)' /\ ExitInv(a)'
    BY <1>1, <1>2, <2>3 DEF ExitWait, CallInv, ExitInv, AtSpawn, ExitPcs
  <2>5. \A b \in Actors \ {a} : Untouched(b)
    BY DEF ExitWait, Untouched, Inv, TypeInv
  <2> QED BY <1>1, <2>1, <2>2, <2>4, <2>5, CallStep DEF ExitWait, cancel_thread, historyVars
<1>4. CASE /\ target[a] # NoTask
           /\ is_terminal(target[a])
           /\ todo' = [todo EXCEPT ![a] = @ \ {target[a]}]
           /\ target' = [target EXCEPT ![a] = NoTask]
           /\ UNCHANGED <<status, cancelRequested, place, late, pc, historyVars>>
  <2>1. Steady /\ PlacesKept /\ PlacesCounted
    BY <1>4, ThreadsStill DEF ExitWait, threadVars, historyVars
  <2>2. TypeInv'
    BY <1>4 DEF ExitWait, Inv, TypeInv, cancel_thread, historyVars
  <2>3. todo'[a] = todo[a] \ {target[a]}
    BY <1>4 DEF Inv, TypeInv
  <2>4. ~overtaken => \A t \in tasks[a] \ todo'[a] : is_terminal(t)
    BY <1>2, <1>4, <2>3
  <2>5. CallInv(a)' /\ ExitInv(a)'
    BY <1>1, <1>2, <1>4, <2>3, <2>4 DEF ExitWait, CallInv, ExitInv, AtSpawn, ExitPcs, is_terminal, historyVars
  <2>6. \A b \in Actors \ {a} : Untouched(b)
    BY <1>4 DEF ExitWait, Untouched, Inv, TypeInv
  <2> QED BY <1>1, <1>4, <2>1, <2>2, <2>5, <2>6, CallStep DEF ExitWait, cancel_thread, historyVars
<1>5. CASE /\ target[a] = NoTask /\ todo[a] = {}
           /\ todo' = [todo EXCEPT ![a] = tasks[a]]
           /\ GoTo(a, "exitFree")
           /\ UNCHANGED <<status, cancelRequested, place, late, target, historyVars>>
  <2>1. Steady /\ PlacesKept /\ PlacesCounted
    BY <1>5, ThreadsStill DEF ExitWait, threadVars, historyVars
  <2>2. TypeInv'
    BY <1>5 DEF ExitWait, GoTo, Inv, TypeInv, cancel_thread, historyVars, BodyPcs, ExitPcs
  <2>3. pc'[a] = "exitFree" /\ todo'[a] = tasks[a]
    BY <1>5 DEF GoTo, Inv, TypeInv
  <2>4. CallInv(a)' /\ ExitInv(a)'
    BY <1>2, <1>5, <2>3 DEF ExitWait, CallInv, ExitInv, AtSpawn, ExitPcs, is_terminal, historyVars
  <2>5. \A b \in Actors \ {a} : Untouched(b)
    BY <1>5 DEF ExitWait, GoTo, Untouched, Inv, TypeInv
  <2> QED BY <1>1, <2>1, <2>2, <2>3, <2>4, <2>5, CallStep DEF ExitWait, cancel_thread, historyVars
<1> QED BY <1>3, <1>4, <1>5 DEF ExitWait

LEMMA aster_async_scope_enterInv ==
  ASSUME Inv, NEW a \in Actors, aster_async_scope_enter(a) PROVE Inv'
<1>1. pc[a] = "enter" /\ a \in {Main} \cup Born
  BY ExecutingBorn DEF aster_async_scope_enter, At, Inv
<1>2. Steady /\ PlacesKept /\ PlacesCounted
  BY ThreadsStill DEF aster_async_scope_enter, historyVars
<1>3. TypeInv'
  BY DEF aster_async_scope_enter, GoTo, Inv, TypeInv, threadVars, historyVars, BodyPcs
<1>4. pc'[a] = "run" /\ scope'[a] = "open"
  BY DEF aster_async_scope_enter, GoTo, Inv, TypeInv
<1>5. Born' = Born
  BY <1>2, SteadyBorn
<1>6. BodyInv(a)'
  BY <1>1, <1>4, <1>5 DEF aster_async_scope_enter, historyVars, Inv, BodyInv, ScopeInv, CallInv, ExitInv,
     AtSpawn, ExitPcs
<1>7. \A b \in Actors \ {a} : Untouched(b)
  BY DEF aster_async_scope_enter, GoTo, Untouched, Inv, TypeInv
<1>8. CountMatchesHolders'
  <2>1. tasks[a] = {} /\ UNCHANGED tasks
    BY <1>1 DEF aster_async_scope_enter, Inv, BodyInv, ScopeInv
  <2>2. \A t \in Born : HeldByScope(t)' <=> HeldByScope(t)
    BY <1>7, <2>1 DEF HeldByScope, Untouched
  <2> QED BY <1>2, <1>3, <1>5, <2>2, CountKept DEF aster_async_scope_enter, threadVars, Inv
<1> QED
  BY <1>1, <1>2, <1>3, <1>6, <1>7, <1>8, BodyStep
  DEF aster_async_scope_enter, threadVars, historyVars, AtSpawn, Inv, ThreadInv, UnbornUntouched

LEMMA free_scoped_threadInv ==
  ASSUME Inv, NEW a \in Actors, free_scoped_thread(a) PROVE Inv'
<1>1. pc[a] = "exitFree" /\ a \in {Main} \cup Born /\ ~AtSpawn(a)
  BY ExecutingBorn DEF free_scoped_thread, At, Inv, AtSpawn
<1>2. /\ todo[a] \subseteq tasks[a] /\ tasks[a] \subseteq Born /\ tasks[a] \subseteq Tasks
      /\ scope[a] = "open"
      /\ ~overtaken => \A t \in tasks[a] : is_terminal(t)
  BY <1>1, HandlesBorn DEF Inv, BodyInv, ExitInv, ExitPcs, ScopeInv
<1>3. CASE \E t \in todo[a] : /\ strong' = [strong EXCEPT ![t] = @ - 1]
                              /\ todo' = [todo EXCEPT ![a] = @ \ {t}]
                              /\ UNCHANGED <<pc, scope>>
  <2> PICK t \in todo[a] : /\ strong' = [strong EXCEPT ![t] = @ - 1]
                           /\ todo' = [todo EXCEPT ![a] = @ \ {t}]
                           /\ UNCHANGED <<pc, scope>>
    BY <1>3
  <2>1. TypeInv'
    BY <1>2 DEF free_scoped_thread, Inv, TypeInv, historyVars
  <2>2. Steady /\ PlacesKept
    BY <1>2 DEF free_scoped_thread, historyVars, Inv, TypeInv, ThreadInv, Orderly, UnbornUntouched, Steady,
       PlacesKept, Born
  <2>3. Born' = Born
    BY <2>2, SteadyBorn
  <2>4. todo'[a] = todo[a] \ {t}
    BY DEF Inv, TypeInv
  <2>5. BodyInv(a)'
    BY <1>1, <1>2, <2>3, <2>4 DEF free_scoped_thread, historyVars, Inv, BodyInv, ScopeInv, CallInv, ExitInv,
       AtSpawn, ExitPcs, is_terminal
  <2>6. \A b \in Actors \ {a} : Untouched(b)
    BY DEF free_scoped_thread, Untouched, Inv, TypeInv
  <2>7. CountMatchesHolders'
    <3> SUFFICES ASSUME NEW u \in Born
                 PROVE  strong'[u] = One(~consumed[u]) + One(place[u] # "none") + late[u] + One(HeldByScope(u)')
      BY <2>3 DEF CountMatchesHolders, free_scoped_thread
    <3>1. strong[u] = One(~consumed[u]) + One(place[u] # "none") + late[u] + One(HeldByScope(u))
      BY DEF Inv, CountMatchesHolders
    <3>2. u \in Tasks /\ strong[u] \in Int /\ late[u] \in Nat
      BY DEF Born, Inv, TypeInv
    <3>3. CASE u = t
      <4>1. HeldByScope(t)
        BY <1>2 DEF HeldByScope
      <4>2. \A b \in Actors : t \in tasks[b] => b = a
        BY <1>2 DEF Inv, BodyInv, ScopeInv
      <4>3. ~HeldByScope(t)'
        BY <1>1, <2>4, <4>2 DEF HeldByScope, free_scoped_thread
      <4>4. strong'[u] = strong[u] - 1
        BY <3>2, <3>3 DEF Inv, TypeInv
      <4> QED BY <3>1, <3>2, <3>3, <4>1, <4>3, <4>4 DEF One
    <3>4. CASE u # t
      <4>1. HeldByScope(u)' <=> HeldByScope(u)
        BY <2>4, <2>6, <3>4 DEF HeldByScope, Untouched, free_scoped_thread
      <4>2. strong'[u] = strong[u]
        BY <3>2, <3>4 DEF Inv, TypeInv
      <4> QED BY <3>1, <3>2, <4>1, <4>2 DEF One
    <3> QED BY <3>3, <3>4
  <2> QED
    BY <1>1, <2>1, <2>2, <2>5, <2>6, <2>7, BodyStep
    DEF free_scoped_thread, historyVars, Inv, ThreadInv, UnbornUntouched
<1>4. CASE /\ todo[a] = {}
           /\ scope' = [scope EXCEPT ![a] = "freed"]
           /\ GoTo(a, "return")
           /\ UNCHANGED <<strong, todo>>
  <2>1. Steady /\ PlacesKept /\ PlacesCounted
    BY <1>4, ThreadsStill DEF free_scoped_thread, threadVars, historyVars
  <2>2. TypeInv'
    BY <1>4 DEF free_scoped_thread, GoTo, Inv, TypeInv, historyVars, BodyPcs
  <2>3. pc'[a] = "return" /\ scope'[a] = "freed" /\ Born' = Born
    BY <1>4, <2>1, SteadyBorn DEF GoTo, Inv, TypeInv
  <2>4. BodyInv(a)'
    BY <1>2, <2>3 DEF free_scoped_thread, historyVars, Inv, BodyInv, ScopeInv, CallInv, ExitInv,
       AtSpawn, ExitPcs, is_terminal
  <2>5. \A b \in Actors \ {a} : Untouched(b)
    BY <1>4 DEF free_scoped_thread, GoTo, Untouched, Inv, TypeInv
  <2>6. CountMatchesHolders'
    <3>1. \A t \in Born : HeldByScope(t)' <=> HeldByScope(t)
      BY <1>1, <1>4, <2>3, <2>5 DEF HeldByScope, Untouched, free_scoped_thread
    <3> QED BY <1>4, <2>1, <2>2, <2>3, <3>1, CountKept DEF free_scoped_thread, Inv
  <2> QED
    BY <1>1, <2>1, <2>2, <2>4, <2>5, <2>6, BodyStep
    DEF free_scoped_thread, historyVars, Inv, ThreadInv, UnbornUntouched
<1> QED BY <1>3, <1>4 DEF free_scoped_thread

LEMMA ReturnInv ==
  ASSUME Inv, NEW a \in Actors, Return(a) PROVE Inv'
<1>1. pc[a] = "return" /\ a \in {Main} \cup Born /\ ~AtSpawn(a)
  BY ExecutingBorn DEF Return, At, Inv, AtSpawn
<1>2. /\ status' \in [Tasks -> Statuses]
      /\ place' \in [Tasks -> {"none", "queue", "worker", "asks", "waiting"} \cup Lists]
      /\ strong' \in [Tasks -> Int]
      /\ Steady /\ PlacesKept /\ PlacesCounted
  <2>1. CASE a = Main
    BY <2>1, ThreadsStill DEF Return, threadVars, historyVars, Inv, TypeInv
  <2>2. CASE a # Main
    <3>1. /\ a \in Born /\ place[a] = "worker" /\ UNCHANGED <<late, overtaken>>
          /\ ~overtaken => ~is_terminal(a) /\ late[a] = 0
      BY <1>1, <2>2 DEF Return, historyVars, At, Executing, Inv, ThreadInv, Orderly, Born, is_terminal, Terminal
    <3>2. PICK outcome \in Terminal : EndsAs(a, outcome)
      BY <2>2 DEF Return, Terminal
    <3> QED BY <3>1, <3>2, EndsAsFacts DEF Inv
  <2> QED BY <2>1, <2>2
<1>3. TypeInv'
  BY <1>2 DEF Return, GoTo, Inv, TypeInv, historyVars, BodyPcs
<1>4. /\ pc'[a] = "done" /\ Born' = Born
      /\ \A t \in Tasks : ~overtaken' /\ is_terminal(t) => is_terminal(t)'
  BY <1>2, SteadyBorn DEF Return, GoTo, Inv, TypeInv
<1>5. BodyInv(a)'
  <2>1. tasks[a] \subseteq Tasks
    BY DEF Inv, TypeInv
  <2>2. a # Main => is_terminal(a)'
    BY <1>1 DEF Return, EndsAs, Inv, TypeInv, Born, is_terminal, Terminal
  <2> QED
    BY <1>1, <1>4, <2>1, <2>2 DEF Return, historyVars, Inv, BodyInv, ScopeInv, CallInv, ExitInv, AtSpawn, ExitPcs
<1>6. \A b \in Actors \ {a} : Untouched(b)
  BY DEF Return, GoTo, Untouched, Inv, TypeInv
<1>7. CountMatchesHolders'
  <2>1. scope[a] = "freed" /\ UNCHANGED scope
    BY <1>1 DEF Return, Inv, BodyInv, ScopeInv
  <2>2. \A t \in Born : HeldByScope(t)' <=> HeldByScope(t)
    BY <1>6, <2>1 DEF HeldByScope, Untouched
  <2> QED BY <1>2, <1>3, <1>4, <2>2, CountKept DEF Return, Inv
<1> QED
  BY <1>1, <1>2, <1>3, <1>5, <1>6, <1>7, BodyStep
  DEF Return, historyVars, Inv, ThreadInv, UnbornUntouched

\* The result is given out at most once, so its reference is dropped once.
LEMMA consume_thread_resultInv ==
  ASSUME Inv, NEW a \in Actors, consume_thread_result(a) PROVE Inv'
<1> DEFINE t == target[a]
<1>1. pc[a] = "consume" /\ a \in {Main} \cup Born
  BY ExecutingBorn DEF consume_thread_result, At, Inv
<1>2. t \in Born /\ t \in Tasks /\ (~overtaken => is_terminal(t))
  BY <1>1, HandlesBorn DEF Inv, BodyInv, CallInv, AtSpawn, Unscoped
<1>3. /\ consumed' = [consumed EXCEPT ![t] = TRUE]
      /\ takers' = [takers EXCEPT ![t] = IF consumed[t] THEN @ ELSE @ \cup {a}]
      /\ strong' = [strong EXCEPT ![t] = IF consumed[t] THEN @ ELSE @ - 1]
      /\ UNCHANGED <<status, cancelRequested, place, waitOn, late, goal, knows, fuel, scope, tasks, parent,
                     overtaken>>
  BY DEF consume_thread_result
<1>4. \/ /\ goal[a] = "all" /\ todo[a] # {}
         /\ \E next \in todo[a] : /\ target' = [target EXCEPT ![a] = next]
                                  /\ todo' = [todo EXCEPT ![a] = @ \ {next}]
         /\ pc' = [pc EXCEPT ![a] = "wait"]
      \/ /\ todo' = [todo EXCEPT ![a] = {}]
         /\ pc' = [pc EXCEPT ![a] = "run"]
         /\ UNCHANGED target
  BY DEF consume_thread_result, GoTo
<1> HIDE DEF t
<1>5. todo[a] \subseteq knows[a] /\ knows[a] \subseteq Tasks
  BY <1>1, HandlesBorn DEF Inv, BodyInv, CallInv, ExitPcs
<1>6. /\ pc'[a] \in {"wait", "run"}
      /\ todo'[a] \subseteq knows[a]
      /\ pc'[a] = "wait" => goal[a] = "all" /\ target'[a] \in knows[a]
      /\ \A b \in Actors \ {a} : Untouched(b)
  <2>1. CASE /\ goal[a] = "all" /\ todo[a] # {}
             /\ \E next \in todo[a] : /\ target' = [target EXCEPT ![a] = next]
                                      /\ todo' = [todo EXCEPT ![a] = @ \ {next}]
             /\ pc' = [pc EXCEPT ![a] = "wait"]
    <3> PICK next \in todo[a] : /\ target' = [target EXCEPT ![a] = next]
                                /\ todo' = [todo EXCEPT ![a] = @ \ {next}]
      BY <2>1
    <3> QED BY <1>3, <1>5, <2>1 DEF Inv, TypeInv, Untouched
  <2>2. CASE /\ todo' = [todo EXCEPT ![a] = {}]
             /\ pc' = [pc EXCEPT ![a] = "run"]
             /\ UNCHANGED target
    BY <1>3, <2>2 DEF Inv, TypeInv, Untouched
  <2> QED BY <1>4, <2>1, <2>2
<1>7. TypeInv'
  <2>1. /\ consumed' \in [Tasks -> BOOLEAN] /\ strong' \in [Tasks -> Int]
        /\ takers' \in [Tasks -> SUBSET Actors]
    BY <1>2, <1>3 DEF Inv, TypeInv
  <2>2. pc' \in [Actors -> BodyPcs]
    BY <1>4 DEF Inv, TypeInv, BodyPcs
  <2>3. target' \in [Actors -> Tasks \cup {NoTask}] /\ todo' \in [Actors -> SUBSET Tasks]
    <3>1. CASE \E next \in todo[a] : /\ target' = [target EXCEPT ![a] = next]
                                     /\ todo' = [todo EXCEPT ![a] = @ \ {next}]
      BY <1>5, <3>1 DEF Inv, TypeInv
    <3>2. CASE todo' = [todo EXCEPT ![a] = {}] /\ UNCHANGED target
      BY <3>2 DEF Inv, TypeInv
    <3> QED BY <1>4, <3>1, <3>2
  <2> QED BY <1>3, <2>1, <2>2, <2>3 DEF Inv, TypeInv
<1>8. Steady /\ PlacesKept
  BY <1>2, <1>3 DEF Inv, TypeInv, ThreadInv, Orderly, UnbornUntouched, Steady, PlacesKept, Born
<1>9. Born' = Born
  BY <1>8, SteadyBorn
<1>10. BodyInv(a)'
  <2>1. ~AtSpawn(a)'
    BY <1>3, <1>6 DEF AtSpawn
  <2> QED
    BY <1>1, <1>3, <1>6, <1>9, <2>1 DEF Inv, BodyInv, ScopeInv, CallInv, ExitInv, ExitPcs
<1>11. \A b \in Actors \ {a} : AtSpawn(b) => consumed'[target[b]] = consumed[target[b]]
  <2> SUFFICES ASSUME NEW b \in Actors \ {a}, AtSpawn(b)
               PROVE  consumed'[target[b]] = consumed[target[b]]
    OBVIOUS
  <2>1. parent[target[b]] = b /\ target[b] \notin tasks[b] /\ target[b] \in Tasks
    BY DEF Inv, BodyInv, CallInv, Unscoped, Born
  <2>2. parent[t] = a \/ t \in tasks[parent[t]]
    BY <1>1 DEF t, Inv, BodyInv, CallInv, ScopeInv, AtSpawn, Unscoped
  <2>3. target[b] # t
    BY <2>1, <2>2
  <2> QED BY <1>3, <2>1, <2>3 DEF Inv, TypeInv
<1>12. \A u \in Tasks : /\ takers'[u] # {} => consumed'[u]
                        /\ status[u] = "unborn" => ~consumed'[u]
                        /\ consumed[u] => consumed'[u]
                        /\ consumed'[u] => consumed[u] \/ overtaken \/ is_terminal(u)
  BY <1>2, <1>3 DEF Inv, TypeInv, ThreadInv, UnbornUntouched, Born
<1>13. CountMatchesHolders'
  <2> SUFFICES ASSUME NEW u \in Born
               PROVE  strong'[u] = One(~consumed'[u]) + One(place[u] # "none") + late[u] + One(HeldByScope(u)')
    BY <1>3, <1>9 DEF CountMatchesHolders
  <2>1. strong[u] = One(~consumed[u]) + One(place[u] # "none") + late[u] + One(HeldByScope(u))
    BY DEF Inv, CountMatchesHolders
  <2>2. u \in Tasks /\ strong[u] \in Int /\ late[u] \in Nat
    BY DEF Born, Inv, TypeInv
  <2>3. HeldByScope(u)' <=> HeldByScope(u)
    BY <1>1, <1>3, <1>6 DEF HeldByScope, Untouched
  <2>4. CASE u = t /\ ~consumed[t]
    <3>1. strong'[u] = strong[u] - 1 /\ consumed'[u]
      BY <1>3, <2>2, <2>4 DEF Inv, TypeInv
    <3> QED BY <2>1, <2>2, <2>3, <2>4, <3>1 DEF One
  <2>5. CASE ~(u = t /\ ~consumed[t])
    <3>1. strong'[u] = strong[u] /\ consumed'[u] = consumed[u]
      BY <1>3, <2>2, <2>5 DEF Inv, TypeInv
    <3> QED BY <2>1, <2>3, <3>1 DEF One
  <2> QED BY <2>4, <2>5
<1>14. consumed'[target[a]]
  BY <1>2, <1>3 DEF t, Inv, TypeInv
<1> QED
  BY <1>1, <1>3, <1>6, <1>7, <1>8, <1>10, <1>11, <1>12, <1>13, <1>14, BodyStep

LEMMA register_task_with_scopeInv ==
  ASSUME Inv, NEW a \in Actors, register_task_with_scope(a) PROVE Inv'
<1>1. pc[a] = "register" /\ a \in {Main} \cup Born
  BY ExecutingBorn DEF register_task_with_scope, At, Inv
<1> PICK t \in Born : t = target[a]
  BY <1>1 DEF Inv, BodyInv, CallInv, AtSpawn, Unscoped
<1>2. t \in Tasks /\ parent[t] = a /\ t \notin tasks[a] /\ scope[a] = "open"
  BY <1>1, HandlesBorn DEF Inv, BodyInv, CallInv, ScopeInv, AtSpawn, Unscoped
<1>3. /\ strong' = [strong EXCEPT ![t] = @ + 1]
      /\ tasks' = [tasks EXCEPT ![a] = @ \cup {t}]
      /\ knows' = [knows EXCEPT ![a] = @ \cup {t}]
      /\ pc' = [pc EXCEPT ![a] = "run"]
      /\ UNCHANGED <<status, cancelRequested, consumed, place, waitOn, late, target, goal, todo, fuel,
                     scope, parent, takers, overtaken>>
  BY DEF register_task_with_scope, GoTo, historyVars
<1>4. TypeInv'
  BY <1>2, <1>3 DEF Inv, TypeInv, BodyPcs
<1>5. Born' = Born /\ \A u \in Tasks : is_terminal(u)' <=> is_terminal(u)
  BY <1>3 DEF Born, is_terminal
<1>6. /\ tasks'[a] = tasks[a] \cup {t} /\ knows'[a] = knows[a] \cup {t} /\ pc'[a] = "run"
      /\ \A b \in Actors \ {a} : Untouched(b)
      /\ \A b \in Actors : tasks[b] \subseteq tasks'[b]
  BY <1>3 DEF Inv, TypeInv, Untouched
<1>7. InOrder' /\ UnbornUntouched' /\ ThreadInv'
  <2>1. InOrder' /\ ThreadInv'
    BY <1>3, <1>5 DEF Inv, InOrder, ThreadInv, Orderly
  <2>2. UnbornUntouched'
    BY <1>1, <1>2, <1>3, ActorsTasks DEF Inv, TypeInv, UnbornUntouched, Born
  <2> QED BY <2>1, <2>2
<1>8. BodyInv(a)'
  <2>1. ScopeInv(a)'
    BY <1>1, <1>2, <1>3, <1>5, <1>6, ActorsTasks DEF Inv, BodyInv, ScopeInv
  <2>2. CallInv(a)' /\ ExitInv(a)'
    BY <1>1, <1>3, <1>6 DEF Inv, BodyInv, CallInv, ExitInv, AtSpawn, ExitPcs
  <2> QED BY <2>1, <2>2 DEF BodyInv
<1>9. \A b \in Actors : BodyInv(b)'
  <2> SUFFICES ASSUME NEW b \in Actors \ {a} PROVE BodyInv(b)'
    BY <1>8
  <2>1. target[b] \in Tasks \cup {NoTask} /\ tasks[b] \subseteq Tasks
    BY DEF Inv, TypeInv
  <2>2. \A u \in Born : /\ u \in Born' /\ parent'[u] = parent[u] /\ (is_terminal(u) => is_terminal(u)')
    BY <1>3, <1>5 DEF Born
  <2>3. \A u \in Born : u \in tasks[parent[u]] => u \in tasks'[parent[u]]
    BY <1>6, ActorsTasks DEF Inv, ThreadInv, Born
  <2> QED BY <1>3, <1>6, <2>1, <2>2, <2>3, OtherBodies, TerminalBorn, NamesDistinct DEF Inv
<1>10. ChildInv'
  <2> SUFFICES ASSUME NEW u \in Born
               PROVE  \/ u \in tasks'[parent[u]]
                      \/ consumed[u]
                      \/ AtSpawn(parent[u])' /\ target[parent[u]] = u
    BY <1>3, <1>5 DEF ChildInv
  <2>1. parent[u] \in Actors /\ u \in Tasks
    BY ActorsTasks DEF Inv, ThreadInv, Born
  <2>2. CASE parent[u] = a
    BY <1>3, <1>6, <2>2 DEF Inv, ChildInv
  <2>3. CASE parent[u] # a
    BY <1>3, <1>6, <2>1, <2>3 DEF Inv, ChildInv, Untouched, AtSpawn
  <2> QED BY <2>2, <2>3
<1>11. HandedDown'
  <2>1. \A b \in Actors : \A u \in knows'[b] : u \in knows[b] \/ parent[u] = b
    BY <1>2, <1>6 DEF Untouched
  <2>2. {Main} \cup Born \subseteq Actors
    BY ActorsTasks DEF Born
  <2> QED BY <1>3, <1>5, <2>1, <2>2 DEF Inv, HandedDown
<1>12. CountMatchesHolders'
  <2> SUFFICES ASSUME NEW u \in Born
               PROVE  strong'[u] = One(~consumed[u]) + One(place[u] # "none") + late[u] + One(HeldByScope(u)')
    BY <1>3, <1>5 DEF CountMatchesHolders
  <2>1. strong[u] = One(~consumed[u]) + One(place[u] # "none") + late[u] + One(HeldByScope(u))
    BY DEF Inv, CountMatchesHolders
  <2>2. u \in Tasks /\ strong[u] \in Int /\ late[u] \in Nat
    BY DEF Born, Inv, TypeInv
  <2>3. CASE u = t
    <3>1. \A b \in Actors : t \in tasks[b] => b = a
      BY <1>2 DEF Inv, BodyInv, ScopeInv
    <3>2. ~HeldByScope(t)
      BY <1>2, <3>1 DEF HeldByScope
    <3>3. HeldByScope(t)'
      BY <1>2, <1>3, <1>6 DEF HeldByScope
    <3>4. strong'[u] = strong[u] + 1
      BY <1>3, <2>2, <2>3 DEF Inv, TypeInv
    <3> QED BY <2>1, <2>2, <2>3, <3>2, <3>3, <3>4 DEF One
  <2>4. CASE u # t
    <3>1. HeldByScope(u)' <=> HeldByScope(u)
      BY <1>1, <1>3, <1>6, <2>4 DEF HeldByScope, Untouched
    <3>2. strong'[u] = strong[u]
      BY <1>3, <2>2, <2>4 DEF Inv, TypeInv
    <3> QED BY <2>1, <3>1, <3>2 DEF One
  <2> QED BY <2>3, <2>4
<1> QED BY <1>4, <1>7, <1>9, <1>10, <1>11, <1>12 DEF Inv

\* The next task is the first one that is not allocated.
LEMMA NextTask ==
  ASSUME InOrder, NEW t \in Tasks, t = 1 + Cardinality(Born)
  PROVE  t \notin Born /\ \A u \in Tasks : u < t => u \in Born
<1>1. NumTasks \in Nat /\ Born \subseteq Tasks
  BY BoundsNat DEF Born
<1>2. ASSUME NEW n \in Nat PROVE IsFiniteSet(1..n) /\ Cardinality(1..n) = n
  BY FS_Interval
<1>3. IsFiniteSet(Born) /\ Cardinality(Born) \in Nat
  <2>1. IsFiniteSet(Tasks)
    BY <1>1, <1>2 DEF Tasks
  <2>2. IsFiniteSet(Born)
    BY <1>1, <2>1, FS_Subset
  <2> QED BY <2>2, FS_CardinalityType
<1>4. t \notin Born
  <2> SUFFICES ASSUME t \in Born PROVE FALSE
    OBVIOUS
  <2>1. 1..t \subseteq Born
    <3> SUFFICES ASSUME NEW u \in 1..t PROVE u \in Born
      OBVIOUS
    <3>1. u \in Tasks /\ (u < t \/ u = t)
      BY <1>1 DEF Tasks
    <3> QED BY <3>1 DEF InOrder
  <2>2. Cardinality(1..t) <= Cardinality(Born)
    BY <1>3, <2>1, FS_Subset
  <2> QED BY <1>2, <1>3, <2>2 DEF Tasks
<1>5. ASSUME NEW u \in Tasks, u < t, u \notin Born PROVE FALSE
  <2>1. Born \subseteq 1..(u - 1)
    BY <1>5 DEF InOrder, Born, Tasks
  <2>2. u - 1 \in Nat /\ IsFiniteSet(1..(u - 1)) /\ Cardinality(1..(u - 1)) = u - 1
    BY <1>2 DEF Tasks
  <2>3. Cardinality(Born) <= Cardinality(1..(u - 1))
    BY <2>1, <2>2, FS_Subset
  <2> QED BY <1>3, <1>5, <2>2, <2>3 DEF Tasks
<1> QED BY <1>4, <1>5

\* A spawn, for a scope or for a block_on: the new task is only its spawner's.
LEMMA SpawnInv ==
  ASSUME Inv, TypeInv', NEW a \in Actors, NEW n \in Tasks, NEW args \in SUBSET Tasks,
         spawn_green_thread(a, n, args), AtSpawn(a)', pc'[a] \in {"register", "wait"},
         \A b \in Actors \ {a} : pc'[b] = pc[b] /\ goal'[b] = goal[b]
  PROVE  Inv'
<1>1. pc[a] = "run" /\ a \in {Main} \cup Born /\ ~AtSpawn(a)
  BY ExecutingBorn DEF spawn_green_thread, Calls, At, Inv, AtSpawn
<1>2. n \notin Born /\ \A u \in Tasks : u < n => u \in Born
  BY NextTask DEF spawn_green_thread, Inv
<1>3. /\ status' = [status EXCEPT ![n] = "Runnable"]
      /\ place' = [place EXCEPT ![n] = "queue"]
      /\ strong' = [strong EXCEPT ![n] = 2]
      /\ parent' = [parent EXCEPT ![n] = a]
      /\ target' = [target EXCEPT ![a] = n]
      /\ knows' = [knows EXCEPT ![n] = args]
      /\ args \subseteq knows[a]
      /\ UNCHANGED <<consumed, late, todo, scope, tasks, takers, overtaken>>
  BY DEF spawn_green_thread
<1>4. n \in Actors \ {a, Main} /\ n \in Tasks /\ status[n] = "unborn"
  BY <1>1, <1>2, ActorsTasks DEF Born
<1>5. /\ strong[n] = 0 /\ place[n] = "none" /\ late[n] = 0 /\ ~consumed[n] /\ parent[n] = NoTask
      /\ pc[n] = "enter" /\ scope[n] = "none" /\ tasks[n] = {} /\ todo[n] = {}
  BY <1>4 DEF Inv, UnbornUntouched, BodyInv, ScopeInv
<1>6. /\ Born' = Born \cup {n}
      /\ \A t \in Born : t # n /\ t \in Tasks /\ parent'[t] = parent[t] /\ status'[t] = status[t]
      /\ parent'[n] = a /\ target'[a] = n /\ knows'[n] = args
      /\ \A b \in Actors \ {n} : knows'[b] = knows[b]
      /\ \A b \in Actors \ {a} : target'[b] = target[b]
  BY <1>2, <1>3, <1>4 DEF Inv, TypeInv, Born
<1>7. InOrder'
  BY <1>2, <1>6 DEF Inv, InOrder
<1>8. UnbornUntouched'
  <2> SUFFICES ASSUME NEW t \in Tasks, status'[t] = "unborn"
               PROVE  /\ strong'[t] = 0 /\ place'[t] = "none" /\ late'[t] = 0
                      /\ ~consumed'[t] /\ parent'[t] = NoTask /\ pc'[t] = "enter"
    BY DEF UnbornUntouched
  <2>1. t # n /\ status[t] = "unborn" /\ t \in Actors \ {a}
    BY <1>1, <1>3, ActorsTasks DEF Inv, TypeInv, Born
  <2> QED BY <1>3, <2>1 DEF Inv, UnbornUntouched, TypeInv
<1>9. ThreadInv'
  <2> SUFFICES ASSUME NEW t \in Tasks
               PROVE  /\ status'[t] # "unborn" => parent'[t] \in {Main} \cup Born'
                      /\ takers'[t] # {} => consumed'[t]
                      /\ ~overtaken' => Orderly(t)' /\ (consumed'[t] => is_terminal(t)')
    BY DEF ThreadInv
  <2>1. CASE t = n
    BY <1>1, <1>3, <1>4, <1>5, <1>6, <2>1 DEF Inv, ThreadInv, TypeInv, Orderly
  <2>2. CASE t # n
    BY <1>3, <1>6, <2>2 DEF Inv, ThreadInv, TypeInv, Born, Orderly, is_terminal
  <2> QED BY <2>1, <2>2
<1>10. /\ \A t \in Born : t \in Born' /\ parent'[t] = parent[t] /\ (is_terminal(t) => is_terminal(t)')
       /\ \A t \in Born : t \in tasks[parent[t]] => t \in tasks'[parent[t]]
  BY <1>3, <1>6 DEF is_terminal
<1>11. BodyInv(n)'
  <2>1. args \subseteq Born /\ \A t \in args : t \in tasks[parent[t]]
    BY <1>3 DEF Inv, BodyInv, ScopeInv
  <2>2. pc'[n] = "enter" /\ scope'[n] = "none" /\ tasks'[n] = {} /\ todo'[n] = {}
    BY <1>3, <1>4, <1>5
  <2> QED BY <1>3, <1>6, <2>1, <2>2 DEF BodyInv, ScopeInv, CallInv, ExitInv, AtSpawn, ExitPcs
<1>12. BodyInv(a)'
  <2>1. n \notin tasks[a] /\ ~consumed[n]
    BY <1>2, <1>5 DEF Inv, BodyInv, ScopeInv
  <2>2. Unscoped(a, target[a])'
    BY <1>3, <1>6, <2>1 DEF Unscoped
  <2>3. scope[a] = "open" /\ todo[a] \subseteq knows[a]
    BY <1>1 DEF Inv, BodyInv, ScopeInv, CallInv, ExitPcs
  <2>4. ScopeInv(a)'
    BY <1>3, <1>4, <1>6, <2>3 DEF Inv, BodyInv, ScopeInv
  <2>5. CallInv(a)' /\ ExitInv(a)'
    BY <1>3, <1>4, <1>6, <2>2, <2>3 DEF CallInv, ExitInv, AtSpawn, ExitPcs
  <2> QED BY <2>4, <2>5 DEF BodyInv
<1>13. \A b \in Actors : BodyInv(b)'
  <2> SUFFICES ASSUME NEW b \in Actors \ {a, n} PROVE BodyInv(b)'
    BY <1>11, <1>12
  <2>1. target[b] \in Tasks \cup {NoTask} /\ tasks[b] \subseteq Tasks
    BY DEF Inv, TypeInv
  <2>2. Untouched(b)
    BY <1>3, <1>6 DEF Untouched
  <2> QED BY <1>3, <1>10, <2>1, <2>2, OtherBodies, TerminalBorn, NamesDistinct DEF Inv
<1>14. ChildInv'
  <2> SUFFICES ASSUME NEW t \in Born
               PROVE  \/ t \in tasks'[parent'[t]]
                      \/ consumed'[t]
                      \/ AtSpawn(parent[t])' /\ target'[parent'[t]] = t
    BY <1>6 DEF ChildInv
  <2>1. parent[t] \in Actors /\ parent'[t] = parent[t]
    BY <1>6, ActorsTasks DEF Inv, ThreadInv, Born
  <2>2. t \in tasks[parent[t]] \/ consumed[t] \/ (AtSpawn(parent[t]) /\ target[parent[t]] = t)
    BY DEF Inv, ChildInv
  <2>3. CASE t \in tasks[parent[t]] \/ consumed[t]
    BY <1>3, <1>10, <2>1, <2>3
  <2>4. CASE AtSpawn(parent[t]) /\ target[parent[t]] = t
    <3>1. parent[t] # a
      BY <1>1, <2>4
    <3> QED BY <1>6, <2>1, <2>4, <3>1 DEF AtSpawn
  <2> QED BY <2>2, <2>3, <2>4
<1>15. HandedDown'
  <2> SUFFICES ASSUME NEW line \in SUBSET ({Main} \cup Born'),
                      \A b \in line : b # Main => parent'[b] \in line,
                      NEW b \in line, NEW t \in knows'[b]
               PROVE  parent'[t] = b \/ \E c \in line : c # Main /\ parent'[c] = parent'[t]
    BY DEF HandedDown
  <2> DEFINE above == line \ {n}
  <2>1. above \in SUBSET ({Main} \cup Born)
    BY <1>6
  <2>2. \A c \in above : c # Main => parent'[c] = parent[c] /\ parent[c] \in above
    <3> SUFFICES ASSUME NEW c \in above, c # Main PROVE parent'[c] = parent[c] /\ parent[c] \in above
      OBVIOUS
    <3>1. c \in Born /\ parent[c] # n
      BY <1>2, <1>4, <2>1 DEF Inv, ThreadInv, Born
    <3> QED BY <1>6, <3>1
  <2>3. ASSUME NEW c \in above, NEW u \in knows[c]
        PROVE  parent[u] = c \/ \E d \in above : d # Main /\ parent[d] = parent[u]
    BY <2>1, <2>2, <2>3 DEF Inv, HandedDown
  <2>4. {Main} \cup Born \subseteq Actors
    BY ActorsTasks DEF Born
  <2> HIDE DEF above
  <2>5. CASE b # n
    <3>1. b \in above /\ t \in knows[b]
      BY <1>6, <2>1, <2>4, <2>5 DEF above
    <3>2. t \in Born
      BY <2>1, <2>4, <3>1 DEF Inv, BodyInv, ScopeInv
    <3> QED BY <1>6, <2>2, <2>3, <3>1, <3>2 DEF above
  <2>6. CASE b = n
    <3>1. a \in above /\ t \in knows[a]
      BY <1>3, <1>4, <1>6, <2>6 DEF above
    <3>2. t \in Born
      BY <3>1 DEF Inv, BodyInv, ScopeInv
    <3>3. CASE parent[t] = a
      BY <1>4, <1>6, <2>6, <3>2, <3>3
    <3>4. CASE \E d \in above : d # Main /\ parent[d] = parent[t]
      BY <1>6, <2>2, <3>2, <3>4 DEF above
    <3> QED BY <2>3, <3>1, <3>3, <3>4
  <2> QED BY <2>5, <2>6
<1>16. CountMatchesHolders'
  <2>1. pc'[a] # "exitFree" /\ pc[a] # "exitFree"
    BY <1>1
  <2>2. \A u \in Born' : HeldByScope(u)' <=> HeldByScope(u)
    BY <1>3, <2>1 DEF HeldByScope
  <2> SUFFICES ASSUME NEW u \in Born'
               PROVE  strong'[u] = One(~consumed[u]) + One(place'[u] # "none") + late[u] + One(HeldByScope(u))
    BY <1>3, <2>2 DEF CountMatchesHolders, One
  <2>3. CASE u = n
    <3>1. ~HeldByScope(n)
      BY <1>2 DEF HeldByScope, Inv, BodyInv, ScopeInv
    <3>2. strong'[n] = 2 /\ place'[n] = "queue" /\ ~consumed[n]
      BY <1>3, <1>4, <1>5 DEF Inv, TypeInv
    <3> QED BY <1>5, <2>3, <3>1, <3>2 DEF One
  <2>4. CASE u # n
    <3>1. u \in Born /\ strong'[u] = strong[u] /\ place'[u] = place[u]
      BY <1>3, <1>6, <2>4 DEF Inv, TypeInv
    <3> QED BY <3>1 DEF Inv, CountMatchesHolders
  <2> QED BY <2>3, <2>4
<1> QED BY <1>7, <1>8, <1>9, <1>13, <1>14, <1>15, <1>16 DEF Inv

LEMMA aster_task_spawnInv ==
  ASSUME Inv, NEW a \in Actors, NEW t \in Tasks, NEW args \in SUBSET Tasks, aster_task_spawn(a, t, args)
  PROVE  Inv'
<1>1. TypeInv'
  BY DEF aster_task_spawn, spawn_green_thread, Calls, GoTo, Inv, TypeInv, Statuses, BodyPcs, Actors
<1>2. pc'[a] = "register" /\ \A b \in Actors \ {a} : pc'[b] = pc[b] /\ goal'[b] = goal[b]
  BY DEF aster_task_spawn, GoTo, Inv, TypeInv
<1> QED BY <1>1, <1>2, SpawnInv DEF aster_task_spawn, AtSpawn

LEMMA aster_task_block_onInv ==
  ASSUME Inv, NEW a \in Actors, NEW t \in Tasks, NEW args \in SUBSET Tasks, aster_task_block_on(a, t, args)
  PROVE  Inv'
<1>1. TypeInv'
  BY DEF aster_task_block_on, spawn_green_thread, Calls, GoTo, Inv, TypeInv, Statuses, BodyPcs, Goals, Actors
<1>2. /\ pc'[a] = "wait" /\ goal'[a] = "blockOn"
      /\ \A b \in Actors \ {a} : pc'[b] = pc[b] /\ goal'[b] = goal[b]
  BY DEF aster_task_block_on, GoTo, Inv, TypeInv
<1> QED BY <1>1, <1>2, SpawnInv DEF aster_task_block_on, AtSpawn

LEMMA StepInv == ASSUME Inv, NEW a \in Actors, Step(a) PROVE Inv'
<1>1. CASE \E t \in Tasks, args \in SUBSET Tasks : aster_task_spawn(a, t, args) \/ aster_task_block_on(a, t, args)
  BY <1>1, aster_task_spawnInv, aster_task_block_onInv
<1>2. CASE \E t \in Tasks : aster_task_cancel(a, t) \/ aster_task_wait_cancel(a, t) \/ aster_task_resolve(a, t)
  BY <1>2, aster_task_cancelInv, aster_task_wait_cancelInv, aster_task_resolveInv
<1>3. CASE aster_async_scope_enter(a) \/ register_task_with_scope(a)
  BY <1>3, aster_async_scope_enterInv, register_task_with_scopeInv
<1>4. CASE aster_task_resolve_all(a) \/ aster_task_resolve_first(a)
  BY <1>4, aster_task_resolve_allInv, aster_task_resolve_firstInv
<1>5. CASE \E t \in Tasks : FirstReady(a, t) \/ CancelLoser(a, t)
  BY <1>5, FirstReadyInv, CancelLoserInv
<1>6. CASE ResolveWinner(a) \/ WaitOver(a) \/ consume_thread_result(a)
  BY <1>6, ResolveWinnerInv, WaitOverInv, consume_thread_resultInv
<1>7. CASE ScopeExit(a) \/ ExitCancel(a) \/ ExitWait(a) \/ free_scoped_thread(a) \/ Return(a)
  BY <1>7, ScopeExitInv, ExitCancelInv, ExitWaitInv, free_scoped_threadInv, ReturnInv
<1> QED BY <1>1, <1>2, <1>3, <1>4, <1>5, <1>6, <1>7 DEF Step

LEMMA StutterInv == ASSUME Inv, UNCHANGED vars PROVE Inv'
<1>1. Steady /\ PlacesKept /\ PlacesCounted
  BY ThreadsStill DEF vars, historyVars
<1>2. TypeInv'
  BY DEF Inv, TypeInv, vars, threadVars, bodyVars, historyVars
<1> QED BY <1>1, <1>2, ThreadStep DEF vars, threadVars, bodyVars, historyVars

LEMMA InitInv == ASSUME Init PROVE Inv
<1>1. TypeInv
  <2>1. /\ status \in [Tasks -> Statuses] /\ strong \in [Tasks -> Int] /\ late \in [Tasks -> Nat]
        /\ place \in [Tasks -> {"none", "queue", "worker", "asks", "waiting"} \cup Lists]
    BY DEF Init, Statuses
  <2>2. fuel \in [Actors -> Nat]
    BY BoundsNat DEF Init
  <2> QED BY <2>1, <2>2, ActorsTasks DEF Init, TypeInv, BodyPcs, Goals
<1>2. Born = {}
  BY DEF Init, Born
<1>3. InOrder /\ ChildInv /\ CountMatchesHolders
  BY <1>2 DEF InOrder, ChildInv, CountMatchesHolders
<1>4. UnbornUntouched /\ ThreadInv
  BY ActorsTasks DEF Init, UnbornUntouched, ThreadInv, Orderly
<1>5. \A a \in Actors : BodyInv(a)
  BY DEF Init, BodyInv, ScopeInv, CallInv, ExitInv, AtSpawn, ExitPcs
<1>6. HandedDown
  BY <1>2, ActorsTasks DEF Init, HandedDown
<1> QED BY <1>1, <1>3, <1>4, <1>5, <1>6 DEF Inv

LEMMA NextInv == ASSUME Inv, [Next]_vars PROVE Inv'
<1>1. CASE Step(Main)
  BY <1>1, StepInv, ActorsTasks
<1>2. ASSUME NEW t \in Tasks, TaskStep(t) PROVE Inv'
  BY <1>2, StepInv, ActorsTasks, safepointInv, ParkInv, YieldOnTaskInv DEF TaskStep
<1>3. ASSUME NEW t \in Tasks, WorkerStep(t) PROVE Inv'
  BY <1>3, DispatchInv, MarkSuspendedInv, RequeueWaiterInv, EnlistWaiterInv DEF WorkerStep
<1>4. ASSUME NEW t \in Tasks, Wake(t) PROVE Inv'
  BY <1>4, wake_threadInv, worker_runInv, poll_ioInv DEF Wake
<1>5. CASE UNCHANGED vars
  BY <1>5, StutterInv
<1> QED BY <1>1, <1>2, <1>3, <1>4, <1>5 DEF Next

\* The invariant holds in every state of every run.
THEOREM Invariance == Spec => []Inv
  BY InitInv, NextInv, PTL DEF Spec

-----------------------------------------------------------------------------
(* The properties *)

\* Every variable keeps its type; no strong count is ever negative.
THEOREM TypeCorrect == Spec => []TypeOK
<1>1. Inv => TypeOK
  <2> SUFFICES ASSUME Inv, NEW t \in Tasks PROVE strong[t] \in Nat
    BY DEF Inv, TypeInv, TypeOK
  <2>1. CASE t \in Born
    BY <2>1 DEF Inv, TypeInv, CountMatchesHolders, One
  <2>2. CASE t \notin Born
    BY <2>2 DEF Inv, UnbornUntouched, Born
  <2> QED BY <2>1, <2>2
<1> QED BY <1>1, Invariance, PTL

\* The strong count of every task is the number of those who will drop a
\* reference, in spawn, resolve, suspension, cancellation and scope exit alike.
THEOREM CountsAgree == Spec => []CountMatchesHolders
<1>1. Inv => CountMatchesHolders
  BY DEF Inv
<1> QED BY <1>1, Invariance, PTL

\* As long as no task was overtaken, a scope that has been freed has only tasks
\* with an outcome, which no worker runs or will write to.
THEOREM ScopeEndsTasks == Spec => []NoTaskOutlivesScope
<1>1. Inv => NoTaskOutlivesScope
  <2> SUFFICES ASSUME Inv, ~overtaken, NEW a \in Actors, scope[a] = "freed", NEW t \in tasks[a]
               PROVE  Ended(t)
    BY DEF NoTaskOutlivesScope
  <2>1. pc[a] \in {"return", "done"} /\ t \in Tasks
    BY HandlesBorn DEF Inv, BodyInv, ScopeInv
  <2>2. is_terminal(t)
    BY <2>1 DEF Inv, BodyInv, ExitInv
  <2> QED BY <2>1, <2>2 DEF Ended, Inv, ThreadInv, Orderly, is_terminal, Terminal
<1> QED BY <1>1, Invariance, PTL

\* Who holds a reference keeps the struct.
LEMMA HeldAlive ==
  ASSUME Inv, NEW t \in Born, ~consumed[t] \/ HeldByScope(t) PROVE strong[t] > 0
<1>1. strong[t] = One(~consumed[t]) + One(place[t] # "none") + late[t] + One(HeldByScope(t))
  BY DEF Inv, CountMatchesHolders
<1>2. late[t] \in Nat
  BY DEF Inv, TypeInv, Born
<1> QED BY <1>1, <1>2 DEF One

\* A handle can be used as long as the functions above its holder are running,
\* and no task was overtaken: the scope it is registered with is theirs, and cannot pass its second pass
\* before the holder's line is over.
THEOREM HandlesStayAlive == Spec => []HandlesAlive
<1>1. Inv => HandlesAlive
  <2> SUFFICES ASSUME Inv, ~overtaken, NEW line \in SUBSET ({Main} \cup Born), Unbroken(line),
                      NEW a \in line, pc[a] \notin ExitPcs \cup {"return"},
                      NEW t \in knows[a] \cup (IF pc[a] \in {"register", "wait", "consume"}
                                                 THEN {target[a]} ELSE {})
               PROVE  strong[t] > 0
    BY DEF HandlesAlive
  <2>1. line \subseteq Actors
    BY ActorsTasks DEF Born
  <2>2. CASE t \in knows[a]
    <3>1. t \in Born /\ t \in tasks[parent[t]] /\ parent[t] \in Actors
      BY <2>1, <2>2, ActorsTasks DEF Inv, BodyInv, ScopeInv, ThreadInv, Born
    <3>2. parent[t] = a \/ \E c \in line : c # Main /\ parent[c] = parent[t]
      BY <2>2 DEF Inv, HandedDown, Unbroken
    <3>3. pc[parent[t]] \notin {"exitFree", "return", "done"}
      <4>1. CASE parent[t] = a
        <5>1. ~Over(a) /\ (pc[a] = "done" /\ a # Main => is_terminal(a))
          BY <2>1 DEF Unbroken, Inv, BodyInv, ExitInv
        <5> QED BY <4>1, <5>1 DEF Over, ExitPcs
      <4>2. ASSUME NEW c \in line, c # Main, parent[c] = parent[t] PROVE pc[parent[t]] \notin {"exitFree", "return", "done"}
        <5>1. c \in Born /\ ~is_terminal(c)
          BY <4>2 DEF Unbroken, Over
        <5>2. c \in tasks[parent[c]] \/ AtSpawn(parent[c])
          BY <5>1 DEF Inv, ChildInv, ThreadInv, Born
        <5> QED BY <3>1, <4>2, <5>1, <5>2 DEF Inv, BodyInv, ExitInv, AtSpawn
      <4> QED BY <3>2, <4>1, <4>2
    <3>4. HeldByScope(t)
      BY <3>1, <3>3 DEF Inv, BodyInv, ScopeInv, HeldByScope
    <3> QED BY <3>1, <3>4, HeldAlive
  <2>3. CASE pc[a] \in {"register", "wait", "consume"} /\ t = target[a] /\ t \notin knows[a]
    <3>1. AtSpawn(a)
      BY <2>1, <2>3 DEF Inv, BodyInv, CallInv, AtSpawn
    <3>2. t \in Born /\ ~consumed[t]
      BY <2>1, <2>3, <3>1 DEF Inv, BodyInv, CallInv, Unscoped
    <3> QED BY <3>2, HeldAlive
  <2> QED BY <2>2, <2>3
<1> QED BY <1>1, Invariance, PTL

-----------------------------------------------------------------------------
(* The life cycle of a task, as a client sees it *)

Phase(t) == IF status[t] \in Terminal \cup {"unborn"} THEN status[t] ELSE "pending"

\* The abstract state that a step can leave alone or change.
SamePhases == \A t \in Tasks : Phase(t)' = Phase(t)

LEMMA StutterRefines ==
  ASSUME SamePhases, UNCHANGED <<cancelRequested, takers>> PROVE UNCHANGED Lifecycle!vars
  BY DEF SamePhases, Phase, Lifecycle!vars

LEMMA CancelRefines ==
  ASSUME TypeInv, NEW t \in Born, cancel_thread(t), UNCHANGED takers PROVE Lifecycle!Cancel(t)
<1>1. t \in Tasks /\ status[t] # "unborn"
  BY DEF Born
<1>2. CASE status[t] \in {"Runnable", "Suspended"}
  <2>1. status' = [status EXCEPT ![t] = "Cancelled"]
    BY <1>2 DEF cancel_thread
  <2> QED BY <1>1, <1>2, <2>1 DEF cancel_thread, Lifecycle!Cancel, TypeInv, Terminal
<1>3. CASE status[t] \notin {"Runnable", "Suspended"}
  BY <1>1, <1>3 DEF cancel_thread, Lifecycle!Cancel, TypeInv, Terminal
<1> QED BY <1>2, <1>3

LEMMA FinishRefines ==
  ASSUME TypeInv, NEW t \in Born, ~is_terminal(t),
         NEW outcome \in (IF cancelRequested[t] THEN {"Cancelled"} ELSE {"Ready", "Failed"}),
         EndsAs(t, outcome), UNCHANGED <<cancelRequested, takers>>
  PROVE  Lifecycle!Finish(t)
<1>1. t \in Tasks /\ status[t] \notin Terminal \cup {"unborn"} /\ outcome \in Terminal
  BY DEF Born, is_terminal, Terminal
<1>2. status' = [status EXCEPT ![t] = outcome]
  BY DEF EndsAs
<1> QED BY <1>1, <1>2 DEF Lifecycle!Finish, TypeInv, Terminal

LEMMA SpawnRefines ==
  ASSUME Inv, NEW a, NEW t \in Tasks, NEW args, spawn_green_thread(a, t, args) PROVE Lifecycle!Spawn(t)
<1>1. status[t] = "unborn"
  BY NextTask DEF spawn_green_thread, Inv, Born
<1> QED BY <1>1 DEF spawn_green_thread, Lifecycle!Spawn, Inv, TypeInv, Terminal

LEMMA ConsumeRefines ==
  ASSUME Inv, ~overtaken, NEW a \in Actors, consume_thread_result(a)
  PROVE  Lifecycle!Next \/ UNCHANGED Lifecycle!vars
<1> PICK t \in Tasks : t = target[a] /\ is_terminal(t)
  BY HandlesBorn DEF consume_thread_result, At, Inv, BodyInv, CallInv, AtSpawn, Unscoped
<1>1. UNCHANGED <<status, cancelRequested>> /\ SamePhases
  BY DEF consume_thread_result, SamePhases, Phase
<1>2. CASE consumed[t]
  <2>1. UNCHANGED takers
    BY <1>2 DEF consume_thread_result, Inv, TypeInv
  <2> QED BY <1>1, <2>1, StutterRefines
<1>3. CASE ~consumed[t]
  <2>1. takers[t] = {} /\ takers' = [takers EXCEPT ![t] = {a}]
    BY <1>3 DEF consume_thread_result, Inv, TypeInv, ThreadInv
  <2>2. Lifecycle!Resolve(a, t)
    BY <1>1, <2>1 DEF Lifecycle!Resolve, Lifecycle!Outcomes, is_terminal, Terminal
  <2> QED BY <2>2 DEF Lifecycle!Next
<1> QED BY <1>2, <1>3

LEMMA StepRefines ==
  ASSUME Inv, ~overtaken, NEW a \in Actors, Step(a) PROVE Lifecycle!Next \/ UNCHANGED Lifecycle!vars
<1>1. ASSUME NEW t \in Tasks, NEW args, spawn_green_thread(a, t, args) PROVE Lifecycle!Next
  BY <1>1, SpawnRefines DEF Lifecycle!Next
<1>2. ASSUME NEW t \in Born, cancel_thread(t) PROVE Lifecycle!Next
  <2>1. Lifecycle!Cancel(t) /\ t \in Tasks
    BY <1>2, CancelRefines DEF Inv, Born, cancel_thread
  <2> QED BY <2>1 DEF Lifecycle!Next
<1>3. ASSUME UNCHANGED <<status, cancelRequested, takers>> PROVE UNCHANGED Lifecycle!vars
  BY <1>3, StutterRefines DEF SamePhases, Phase
<1>4. knows[a] \subseteq Born /\ tasks[a] \subseteq Born
  BY HandlesBorn
<1>5. CASE \E t \in Tasks, args \in SUBSET Tasks : aster_task_spawn(a, t, args) \/ aster_task_block_on(a, t, args)
  BY <1>1, <1>5 DEF aster_task_spawn, aster_task_block_on
<1>6. CASE \E t \in Tasks : aster_task_cancel(a, t) \/ aster_task_wait_cancel(a, t)
  BY <1>2, <1>4, <1>6 DEF aster_task_cancel, aster_task_wait_cancel
<1>7. ASSUME NEW t \in Tasks, CancelLoser(a, t) PROVE Lifecycle!Next
  <2>1. t \in knows[a]
    BY <1>7 DEF CancelLoser, At, Inv, BodyInv, CallInv, ExitPcs
  <2> QED BY <1>2, <1>4, <1>7, <2>1 DEF CancelLoser
<1>8. ASSUME ExitCancel(a) \/ ExitWait(a) PROVE Lifecycle!Next \/ UNCHANGED Lifecycle!vars
  <2>1. todo[a] \subseteq Born
    BY <1>4, <1>8 DEF ExitCancel, ExitWait, At, Inv, BodyInv, ExitInv, ExitPcs
  <2>2. UNCHANGED takers
    BY <1>8 DEF ExitCancel, ExitWait, cancel_thread, historyVars
  <2>3. (\E t \in todo[a] : cancel_thread(t)) \/ UNCHANGED <<status, cancelRequested>>
    BY <1>8 DEF ExitCancel, ExitWait
  <2> QED BY <1>2, <1>3, <2>1, <2>2, <2>3
<1>9. ASSUME Return(a) PROVE Lifecycle!Next \/ UNCHANGED Lifecycle!vars
  <2>1. CASE a = Main
    BY <1>3, <1>9, <2>1 DEF Return, historyVars
  <2>2. CASE a # Main
    <3>1. a \in Born /\ a \in Tasks /\ ~is_terminal(a)
      BY <1>9, <2>2 DEF Return, At, Executing, Inv, ThreadInv, Orderly, Born, is_terminal, Terminal
    <3>2. Lifecycle!Finish(a)
      BY <1>9, <2>2, <3>1, FinishRefines DEF Return, Inv, historyVars
    <3> QED BY <3>1, <3>2 DEF Lifecycle!Next
  <2> QED BY <2>1, <2>2
<1>10. CASE consume_thread_result(a)
  BY <1>10, ConsumeRefines
<1>11. CASE aster_async_scope_enter(a) \/ register_task_with_scope(a) \/ aster_task_resolve_all(a)
              \/ aster_task_resolve_first(a) \/ (\E t \in Tasks : aster_task_resolve(a, t) \/ FirstReady(a, t))
  BY <1>3, <1>11 DEF aster_async_scope_enter, register_task_with_scope, aster_task_resolve_all,
     aster_task_resolve_first, aster_task_resolve, FirstReady, threadVars, historyVars
<1>12. CASE ResolveWinner(a) \/ WaitOver(a) \/ ScopeExit(a) \/ free_scoped_thread(a)
  BY <1>3, <1>12 DEF ResolveWinner, WaitOver, ScopeExit, free_scoped_thread, threadVars, historyVars
<1> QED BY <1>5, <1>6, <1>7, <1>8, <1>9, <1>10, <1>11, <1>12 DEF Step

\* Nothing makes up for a task that was overtaken.
LEMMA StepMonotone == ASSUME NEW a, Step(a), overtaken PROVE overtaken'
<1>1. ASSUME NEW t, cancel_thread(t) PROVE overtaken'
  BY <1>1 DEF cancel_thread, Overtakes
<1>2. CASE \E t \in Tasks : aster_task_cancel(a, t) \/ aster_task_wait_cancel(a, t) \/ CancelLoser(a, t)
  BY <1>1, <1>2 DEF aster_task_cancel, aster_task_wait_cancel, CancelLoser
<1>3. CASE ExitCancel(a) \/ ExitWait(a)
  BY <1>1, <1>3 DEF ExitCancel, ExitWait, historyVars
<1>4. CASE ~((\E t \in Tasks : aster_task_cancel(a, t) \/ aster_task_wait_cancel(a, t) \/ CancelLoser(a, t))
             \/ ExitCancel(a) \/ ExitWait(a))
  BY <1>4 DEF Step, aster_async_scope_enter, aster_task_spawn, aster_task_block_on, spawn_green_thread,
     register_task_with_scope, aster_task_resolve, aster_task_resolve_all, aster_task_resolve_first, FirstReady,
     ResolveWinner, WaitOver, consume_thread_result, ScopeExit, free_scoped_thread, Return, historyVars
<1> QED BY <1>2, <1>3, <1>4

LEMMA ThreadRefines ==
  ASSUME Inv, ~overtaken', NEW t \in Tasks,
         \/ safepoint(t) \/ (\E list \in WaitLists : Park(t, list)) \/ YieldOnTask(t)
         \/ WorkerStep(t) \/ Wake(t)
  PROVE  Lifecycle!Next \/ UNCHANGED Lifecycle!vars
<1>1. t \in Born
  <2>1. place[t] # "none" \/ late[t] > 0
    BY ActorsTasks DEF safepoint, Park, YieldOnTask, WorkerStep, Dispatch, MarkSuspended, RequeueWaiter,
       EnlistWaiter, Wake, wake_thread, worker_run, poll_io, Calls, At, Executing
  <2> QED BY <2>1 DEF Inv, UnbornUntouched, Born
<1>2. UNCHANGED <<cancelRequested, takers>> /\ (overtaken => overtaken')
  <2>1. CASE Dispatch(t) \/ worker_run(t)
    BY <2>1 DEF Dispatch, Overtakes, worker_run
  <2>2. CASE safepoint(t) \/ (\E list \in WaitLists : Park(t, list)) \/ YieldOnTask(t)
    BY <2>2 DEF safepoint, Park, YieldOnTask, historyVars
  <2>3. CASE MarkSuspended(t) \/ RequeueWaiter(t) \/ EnlistWaiter(t) \/ wake_thread(t) \/ poll_io(t)
    BY <2>3 DEF MarkSuspended, RequeueWaiter, EnlistWaiter, wake_thread, poll_io, historyVars
  <2> QED BY <2>1, <2>2, <2>3 DEF WorkerStep, Wake
<1>3. Orderly(t)
  BY <1>2 DEF Inv, ThreadInv
<1>4. CASE ~is_terminal(t) /\ cancelRequested[t] /\ EndsAs(t, "Cancelled")
  <2>1. Lifecycle!Finish(t)
    BY <1>1, <1>2, <1>4, FinishRefines DEF Inv
  <2> QED BY <2>1 DEF Lifecycle!Next
<1>5. CASE \/ UNCHANGED status
           \/ is_terminal(t) /\ status' = [status EXCEPT ![t] = status[t]]
           \/ ~is_terminal(t) /\ \E st \in {"Running", "Runnable", "Suspended"} :
                                   status' = [status EXCEPT ![t] = st]
  <2>1. SamePhases
    BY <1>1, <1>5 DEF SamePhases, Phase, Inv, TypeInv, Born, is_terminal, Terminal
  <2> QED BY <1>2, <2>1, StutterRefines
<1>6. place[t] \in {"worker", "asks"} => ~is_terminal(t)
  BY <1>3 DEF Orderly, is_terminal, Terminal
<1>7. CASE Dispatch(t)
  BY <1>4, <1>5, <1>7 DEF Dispatch, EndsAs
<1>8. CASE safepoint(t)
  BY <1>4, <1>5, <1>6, <1>8, ActorsTasks DEF safepoint, At, Executing, EndsAs
<1>9. CASE (\E list \in WaitLists : Park(t, list)) \/ YieldOnTask(t) \/ EnlistWaiter(t) \/ poll_io(t)
  BY <1>5, <1>9 DEF Park, YieldOnTask, EnlistWaiter, poll_io
<1>10. CASE MarkSuspended(t)
  <2>1. late[t] # 0
    BY <1>10 DEF MarkSuspended, Inv, TypeInv
  <2>2. ~is_terminal(t)
    BY <1>3, <2>1 DEF Orderly, is_terminal, Terminal
  <2> QED BY <1>5, <1>10, <2>2 DEF MarkSuspended
<1>11. CASE RequeueWaiter(t)
  BY <1>5, <1>6, <1>11 DEF RequeueWaiter
<1>12. CASE wake_thread(t)
  BY <1>5, <1>12 DEF wake_thread
<1>13. CASE worker_run(t)
  BY <1>5, <1>13 DEF worker_run
<1> QED BY <1>7, <1>8, <1>9, <1>10, <1>11, <1>12, <1>13 DEF WorkerStep, Wake

\* Handles and scopes keep the task life cycle, as long as no task is overtaken:
\* one outcome, Cancelled when the cancellation came first, given to one resolver
\* only.
THEOREM LifecycleKept == Spec => ImplementsLifecycle
<1>1. Init => Lifecycle!Init
  BY DEF Init, Lifecycle!Init
<1>2. Inv /\ [Next]_vars => [~overtaken' => [Lifecycle!Next]_(Lifecycle!vars)]_vars
  <2> SUFFICES ASSUME Inv, Next, ~overtaken' PROVE Lifecycle!Next \/ UNCHANGED Lifecycle!vars
    OBVIOUS
  <2>1. ASSUME NEW a \in Actors, Step(a) PROVE Lifecycle!Next \/ UNCHANGED Lifecycle!vars
    <3>1. ~overtaken
      BY <2>1, StepMonotone
    <3> QED BY <2>1, <3>1, StepRefines
  <2>2. ASSUME NEW t \in Tasks, TaskStep(t) \/ WorkerStep(t) \/ Wake(t)
        PROVE  Lifecycle!Next \/ UNCHANGED Lifecycle!vars
    BY <2>1, <2>2, ThreadRefines, ActorsTasks DEF TaskStep
  <2> QED BY <2>1, <2>2, ActorsTasks DEF Next
<1> QED BY <1>1, <1>2, Invariance, PTL DEF Spec, ImplementsLifecycle

=============================================================================
