---------------------------- MODULE ReplyProofs ----------------------------
(* Theorems about the replies of the control socket, for any number of     *)
(* clients: each waiting client's reply is in exactly one place, an answer *)
(* is final, and a parked reply has a process whose exit will release it.  *)
EXTENDS ExecutorProofs

\* The reply senders in the channel and under a service are of clients that wait.
QueuedWaits == \A m \in cmd_rx : conn[m.client] = "waiting"
ParkedWaits ==
    \A n \in Names : restart_replies[n] # NONE => conn[restart_replies[n]] = "waiting"

\* No client has two senders.
QueuedOnce == \A m1, m2 \in cmd_rx : m1.client = m2.client => m1 = m2
ParkedOnce ==
    \A n1, n2 \in Names :
        restart_replies[n1] # NONE /\ restart_replies[n1] = restart_replies[n2] => n1 = n2
QueuedNotParked == \A m \in cmd_rx, n \in Names : restart_replies[n] # m.client

\* A client that waits has one.
WaitsSomewhere ==
    \A c \in Clients : conn[c] = "waiting" =>
        (\E m \in cmd_rx : m.client = c) \/ (\E n \in Names : restart_replies[n] = c)

ReplyInv ==
    /\ QueuedWaits /\ ParkedWaits
    /\ QueuedOnce /\ ParkedOnce /\ QueuedNotParked /\ WaitsSomewhere

-----------------------------------------------------------------------------
(* What a step can mean for the replies: nothing, a request sent, a        *)
(* command answered or parked, a parked reply sent, or everything dropped. *)
NoReplyStep ==
    /\ UNCHANGED <<cmd_rx, restart_replies>>
    /\ \/ UNCHANGED conn
       \/ \E c \in Clients, word \in {"stopping", "ok", "error", "disconnected"} :
            conn[c] \in {"idle", "stopping"} /\ conn' = [conn EXCEPT ![c] = word]

SendStep(c, kind, n) ==
    /\ conn[c] = "idle"
    /\ cmd_rx' = cmd_rx \cup {[kind |-> kind, service |-> n, client |-> c]}
    /\ conn' = [conn EXCEPT ![c] = "waiting"]
    /\ UNCHANGED restart_replies

WakeStep(n, answer) ==
    /\ restart_replies' = [restart_replies EXCEPT ![n] = NONE]
    /\ conn' = [c \in Clients |-> IF c # restart_replies[n] THEN conn[c] ELSE answer]
    /\ UNCHANGED cmd_rx

ReplyStep ==
    \/ NoReplyStep
    \/ \E c \in Clients, kind \in Requests, n \in Names : SendStep(c, kind, n)
    \/ \E m \in cmd_rx : SignalAndPark(m) \/ \E answer \in {"ok", "error"} : Answer(m, answer)
    \/ \E n \in Names, answer \in {"ok", "error"} : WakeStep(n, answer)
    \/ HangUp

-----------------------------------------------------------------------------
USE DEF vars, dataVars, kernelVars, tableVars, orderVars, bookVars, readyVars,
        ctlVars, defVars, haltVars, stopFrame, execFrame

\* Every step is one of those.
LEMMA ReplyStepKinds == ASSUME IndInv, [Next]_vars PROVE ReplyStep
<1> USE DEF IndInv
<1>1. CASE UNCHANGED vars
  BY <1>1 DEF ReplyStep, NoReplyStep
<1>2. CASE \/ BeginIteration \/ EndCommands \/ EndDrain \/ EndLaunch \/ Timeout \/ EndPoll
           \/ (\E p \in Pids : PollAlive(p) \/ AutoRestart(p) \/ FinalExit(p))
           \/ (\E n \in Services : ReceiveReady(n) \/ LaunchBlocked(n) \/ LaunchSpawn(n))
  BY <1>2 DEF BeginIteration, EndCommands, EndDrain, EndLaunch, Timeout, EndPoll, PollAlive,
              AutoRestart, FinalExit, ReceiveReady, LaunchBlocked, LaunchSpawn,
              ReplyStep, NoReplyStep
<1>3. CASE \/ Finish \/ EndShutdown \/ (\E n \in Services : LaunchError(n))
           \/ (\E p \in Pids : RestartError(p))
  BY <1>3 DEF Finish, EndShutdown, LaunchError, RestartError, ReplyStep
<1>4. ASSUME NEW m \in cmd_rx, HandleStart(m) \/ HandleRestart(m) \/ HandleReload(m)
      PROVE ReplyStep
  BY <1>4, HandlerEffect DEF ReplyStep
<1>5. ASSUME NEW p \in Pids, ManualRespawn(p) PROVE ReplyStep
  <2>1. pid_to_name[p] \in Names
    BY <1>5 DEF ManualRespawn, Collected, TypeOK, ChildrenTracked, LoopPhases, Statuses
  <2>2. \E answer \in {"ok", "error"} : WakeStep(pid_to_name[p], answer)
    BY <1>5 DEF ManualRespawn, WakeStep
  <2> QED BY <2>1, <2>2 DEF ReplyStep
<1>6. CASE \/ BeginShutdown \/ NextLayer \/ StopReap \/ StopDeadline \/ KillGiveUp
           \/ BeginStragglers \/ StragglerReap \/ StragglerKill
           \/ (\E n \in Names : StopTerm(n)) \/ (\E p \in Pids : StragglerTerm(p))
  BY <1>6 DEF BeginShutdown, NextLayer, StopReap, StopDeadline, KillGiveUp, BeginStragglers,
              StragglerReap, StragglerKill, StopTerm, StragglerTerm, ReplyStep, NoReplyStep
<1>7. CASE World
  BY <1>7 DEF World, Exit, WatcherSignals, ShutdownSignal, EditFile, ReplyStep, NoReplyStep
<1>8. ASSUME NEW c \in Clients, NEW kind \in Requests, NEW n \in Names, Send(c, kind, n)
      PROVE ReplyStep
  BY <1>8 DEF Send, ReplyStep, NoReplyStep, SendStep
<1>9. ASSUME NEW c \in Clients, NEW n \in Names, StopLookup(c, n) PROVE ReplyStep
  BY <1>9 DEF StopLookup, ReplyStep, NoReplyStep
<1>10. ASSUME NEW c \in Clients, StopKill(c) \/ Status(c) \/ Refuse(c) PROVE ReplyStep
  BY <1>10 DEF StopKill, Status, Refuse, answerFrame, ReplyStep, NoReplyStep
<1> QED BY <1>1, <1>2, <1>3, <1>4, <1>5, <1>6, <1>7, <1>8, <1>9, <1>10
        DEF Next, ExecutorStep, Loop, Shutdown, Ctl, Terminated

\* The kinds of steps that move no reply, or drop them all.
LEMMA NoReplyKeeps == ASSUME TypeOK, ReplyInv, NoReplyStep \/ HangUp PROVE ReplyInv'
<1>1. CASE NoReplyStep /\ UNCHANGED conn
  BY <1>1 DEF NoReplyStep, ReplyInv, QueuedWaits, ParkedWaits, QueuedOnce, ParkedOnce,
              QueuedNotParked, WaitsSomewhere
<1>2. CASE NoReplyStep /\ ~UNCHANGED conn
  <2>1. PICK c \in Clients, word \in {"stopping", "ok", "error", "disconnected"} :
            conn[c] \in {"idle", "stopping"} /\ conn' = [conn EXCEPT ![c] = word]
    BY <1>2 DEF NoReplyStep
  <2>2. \A d \in Clients : conn'[d] = "waiting" <=> conn[d] = "waiting"
    BY <2>1 DEF TypeOK
  <2>3. UNCHANGED <<cmd_rx, restart_replies>>
    BY <1>2 DEF NoReplyStep
  <2>4. \A m \in cmd_rx : m.client \in Clients
    BY DEF TypeOK, Messages
  <2> QED BY <2>2, <2>3, <2>4 DEF ReplyInv, QueuedWaits, ParkedWaits, QueuedOnce, ParkedOnce,
              QueuedNotParked, WaitsSomewhere, TypeOK
<1>3. CASE HangUp
  BY <1>3 DEF HangUp, ReplyInv, QueuedWaits, ParkedWaits, QueuedOnce, ParkedOnce,
              QueuedNotParked, WaitsSomewhere, TypeOK
<1> QED BY <1>1, <1>2, <1>3

\* A new request comes from an idle client, which has no sender yet.
LEMMA SendKeeps ==
    ASSUME TypeOK, ReplyInv, NEW c \in Clients, NEW kind \in Requests, NEW n \in Names,
           SendStep(c, kind, n)
    PROVE  ReplyInv'
<1> DEFINE new == [kind |-> kind, service |-> n, client |-> c]
<1>1. /\ \A m \in cmd_rx : m.client \in Clients /\ m.client # c
      /\ \A k \in Names : restart_replies[k] # c
  BY ConstantShape DEF SendStep, ReplyInv, QueuedWaits, ParkedWaits, TypeOK, Messages
<1>2. /\ cmd_rx' = cmd_rx \cup {new} /\ new.client = c /\ restart_replies' = restart_replies
      /\ \A d \in Clients : conn'[d] = IF d = c THEN "waiting" ELSE conn[d]
  BY DEF SendStep, TypeOK
<1> HIDE DEF new
<1> QED BY <1>1, <1>2 DEF ReplyInv, QueuedWaits, ParkedWaits, QueuedOnce, ParkedOnce,
              QueuedNotParked, WaitsSomewhere, TypeOK

\* An answered command leaves the channel with its client's only sender.
LEMMA AnswerKeeps ==
    ASSUME TypeOK, ReplyInv, NEW m \in cmd_rx, NEW answer \in {"ok", "error"},
           Answer(m, answer)
    PROVE  ReplyInv'
<1>1. /\ \A k \in cmd_rx : k.client \in Clients
      /\ \A k \in cmd_rx \ {m} : k.client # m.client
      /\ \A n \in Names : restart_replies[n] # m.client
  BY DEF ReplyInv, QueuedOnce, QueuedNotParked, TypeOK, Messages
<1>2. /\ cmd_rx' = cmd_rx \ {m} /\ restart_replies' = restart_replies
      /\ \A d \in Clients : conn'[d] = IF d = m.client THEN answer ELSE conn[d]
  BY DEF Answer, TypeOK
<1> QED BY <1>1, <1>2 DEF ReplyInv, QueuedWaits, ParkedWaits, QueuedOnce, ParkedOnce,
              QueuedNotParked, WaitsSomewhere, TypeOK

\* Parking moves the sender of m; the client it displaces is disconnected.
LEMMA ParkKeeps ==
    ASSUME TypeOK, ReplyInv, NEW m \in cmd_rx, SignalAndPark(m)
    PROVE  ReplyInv'
<1> DEFINE n == m.service
           old == restart_replies[n]
<1>1. /\ \A k \in cmd_rx : k.client \in Clients
      /\ \A k \in cmd_rx \ {m} : k.client # m.client
      /\ \A k \in Names : restart_replies[k] # m.client
      /\ n \in Names
  BY DEF ReplyInv, QueuedOnce, QueuedNotParked, TypeOK, Messages
<1>2. /\ cmd_rx' = cmd_rx \ {m}
      /\ \A k \in Names : restart_replies'[k] = IF k = n THEN m.client ELSE restart_replies[k]
      /\ \A d \in Clients : conn'[d] = IF d = old /\ conn[d] = "waiting"
                                          THEN "disconnected" ELSE conn[d]
  BY <1>1 DEF SignalAndPark, TypeOK
<1>3. conn[m.client] = "waiting" /\ m.client # old
  BY <1>1 DEF ReplyInv, QueuedWaits
<1>4. QueuedWaits'
  BY <1>1, <1>2 DEF ReplyInv, QueuedWaits, QueuedNotParked
<1>5. ParkedWaits'
  BY <1>1, <1>2, <1>3 DEF ReplyInv, ParkedWaits, ParkedOnce, TypeOK
<1>6. QueuedOnce' /\ ParkedOnce' /\ QueuedNotParked'
  BY <1>1, <1>2 DEF ReplyInv, QueuedOnce, ParkedOnce, QueuedNotParked
<1>7. WaitsSomewhere'
  <2> SUFFICES ASSUME NEW c \in Clients, conn'[c] = "waiting"
               PROVE (\E k \in cmd_rx' : k.client = c) \/ (\E k \in Names : restart_replies'[k] = c)
    BY DEF WaitsSomewhere
  <2>1. c # old /\ conn[c] = "waiting"
    BY <1>2
  <2>2. CASE c = m.client
    BY <2>2, <1>1, <1>2
  <2>3. CASE c # m.client
    BY <2>1, <2>3, <1>2 DEF ReplyInv, WaitsSomewhere
  <2> QED BY <2>2, <2>3
<1> QED BY <1>4, <1>5, <1>6, <1>7 DEF ReplyInv

\* The exit a reply was parked for sends it and takes it away.
LEMMA WakeKeeps ==
    ASSUME TypeOK, ReplyInv, NEW n \in Names, NEW answer \in {"ok", "error"},
           WakeStep(n, answer)
    PROVE  ReplyInv'
<1>1. \A k \in cmd_rx : k.client \in Clients /\ k.client # restart_replies[n]
  BY DEF ReplyInv, QueuedNotParked, TypeOK, Messages
<1>2. /\ cmd_rx' = cmd_rx
      /\ \A k \in Names : restart_replies'[k] = IF k = n THEN NONE ELSE restart_replies[k]
      /\ \A d \in Clients : conn'[d] = IF d # restart_replies[n] THEN conn[d] ELSE answer
  BY DEF WakeStep, TypeOK
<1>3. QueuedWaits' /\ QueuedOnce' /\ ParkedOnce'
  BY <1>1, <1>2 DEF ReplyInv, QueuedWaits, QueuedOnce, ParkedOnce
<1>4. ParkedWaits'
  BY <1>2 DEF ReplyInv, ParkedWaits, ParkedOnce, TypeOK
<1>5. QueuedNotParked'
  BY <1>1, <1>2, ConstantShape DEF ReplyInv, QueuedNotParked
<1>6. WaitsSomewhere'
  BY <1>1, <1>2 DEF ReplyInv, WaitsSomewhere
<1> QED BY <1>3, <1>4, <1>5, <1>6 DEF ReplyInv

\* So every step keeps each reply where it belongs.
LEMMA StepReplyInv == IndInv /\ ReplyInv /\ [Next]_vars => ReplyInv'
<1> SUFFICES ASSUME IndInv, ReplyInv, [Next]_vars PROVE ReplyInv'
  OBVIOUS
<1>1. ReplyStep
  BY ReplyStepKinds
<1> QED BY <1>1, NoReplyKeeps, SendKeeps, AnswerKeeps, ParkKeeps, WakeKeeps DEF ReplyStep, IndInv

\* Nobody waits when run_with_marker starts.
LEMMA InitReplyInv == Init => ReplyInv
BY DEF Init, ReplyInv, QueuedWaits, ParkedWaits, QueuedOnce, ParkedOnce, QueuedNotParked,
       WaitsSomewhere

\* The types, the tracked children and the places of the replies hold throughout.
LEMMA ReplyInvariance == Spec => [](IndInv /\ ReplyInv)
BY InitIndInv, StepIndInv, InitReplyInv, StepReplyInv, PTL DEF Spec

-----------------------------------------------------------------------------
\* A set whose members are all equal has at most one.
LEMMA AtMostOne ==
    ASSUME NEW S, \A x, y \in S : x = y
    PROVE  Cardinality(S) = IF S = {} THEN 0 ELSE 1
<1>1. CASE S = {}
  BY <1>1, FS_EmptySet
<1>2. CASE S # {}
  <2>1. PICK x \in S : TRUE
    BY <1>2
  <2>2. S = {x}
    BY <2>1
  <2> QED BY <1>2, <2>2, FS_Singleton
<1> QED BY <1>1, <1>2

(* No reply is lost and none is sent twice: however restarts, reloads and  *)
(* starts of several clients cross each other, and whatever exits or       *)
(* shutdown come in between, a client that waits has exactly one reply     *)
(* sender, in the channel or parked under one service, and nobody else has *)
(* one.                                                                    *)
THEOREM RepliesAreOwned == Spec => []ReplyOwned
<1>1. IndInv /\ ReplyInv => ReplyOwned
  <2> SUFFICES ASSUME IndInv, ReplyInv, NEW c \in Clients
               PROVE Cardinality({m \in cmd_rx : m.client = c})
                       + Cardinality({n \in Names : restart_replies[n] = c})
                     = IF conn[c] = "waiting" THEN 1 ELSE 0
    BY DEF ReplyOwned
  <2> DEFINE queued == {m \in cmd_rx : m.client = c}
             parked == {n \in Names : restart_replies[n] = c}
  <2>1. Cardinality(queued) = IF queued = {} THEN 0 ELSE 1
    <3>1. \A x, y \in queued : x = y
      BY DEF ReplyInv, QueuedOnce
    <3> QED BY <3>1, AtMostOne
  <2>2. Cardinality(parked) = IF parked = {} THEN 0 ELSE 1
    <3>1. \A x, y \in parked : x = y
      BY ConstantShape DEF ReplyInv, ParkedOnce
    <3> QED BY <3>1, AtMostOne
  <2>3. queued = {} \/ parked = {}
    BY DEF ReplyInv, QueuedNotParked
  <2>4. conn[c] = "waiting" <=> queued # {} \/ parked # {}
    BY ConstantShape DEF ReplyInv, WaitsSomewhere, QueuedWaits, ParkedWaits
  <2> HIDE DEF queued, parked
  <2>5. Cardinality(queued) + Cardinality(parked) = IF conn[c] = "waiting" THEN 1 ELSE 0
    BY <2>1, <2>2, <2>3, <2>4
  <2> QED BY <2>5 DEF queued, parked
<1> QED BY <1>1, ReplyInvariance, PTL

(* An answered connection is never answered again with something else: a   *)
(* parked reply that is displaced, or dropped when the executor returns,   *)
(* and an exit that comes late, cannot reach a client a second time.       *)
THEOREM RepliesAreFinal == Spec => ReplyFinal
<1>1. IndInv /\ ReplyInv /\ [Next]_vars =>
        [\A c \in Clients :
            conn[c] \in {"ok", "error", "disconnected"} => conn'[c] = conn[c]]_vars
  <2> SUFFICES ASSUME IndInv, ReplyInv, [Next]_vars, NEW c \in Clients,
                      conn[c] \in {"ok", "error", "disconnected"}
               PROVE conn'[c] = conn[c]
    OBVIOUS
  <2>1. ReplyStep
    BY ReplyStepKinds
  <2>2. CASE NoReplyStep
    BY <2>2 DEF NoReplyStep, IndInv, TypeOK
  <2>3. ASSUME NEW d \in Clients, NEW kind \in Requests, NEW n \in Names, SendStep(d, kind, n)
        PROVE conn'[c] = conn[c]
    BY <2>3 DEF SendStep, IndInv, TypeOK
  <2>4. ASSUME NEW m \in cmd_rx, NEW answer \in {"ok", "error"}, Answer(m, answer)
        PROVE conn'[c] = conn[c]
    BY <2>4 DEF Answer, ReplyInv, QueuedWaits, IndInv, TypeOK
  <2>5. ASSUME NEW m \in cmd_rx, SignalAndPark(m) PROVE conn'[c] = conn[c]
    BY <2>5 DEF SignalAndPark
  <2>6. ASSUME NEW n \in Names, NEW answer \in {"ok", "error"}, WakeStep(n, answer)
        PROVE conn'[c] = conn[c]
    BY <2>6, ConstantShape DEF WakeStep, ReplyInv, ParkedWaits
  <2>7. CASE HangUp
    BY <2>7 DEF HangUp
  <2> QED BY <2>1, <2>2, <2>3, <2>4, <2>5, <2>6, <2>7 DEF ReplyStep
<1> QED BY <1>1, ReplyInvariance, PTL DEF Spec, ReplyFinal

-----------------------------------------------------------------------------
(* Parked replies. Any respawn may fail; where one does, a readiness       *)
(* message still to come turns the dead service Ready, and the next        *)
(* restart of it is parked for an exit that cannot come. Such services are *)
(* the members of `lost`; the invariant is about all others.               *)

\* A name without a definition has never been started.
Defined ==
    \A n \in Names : svc_by_name[n] = NONE =>
        n \notin Services /\ svc_state[n] = "Absent" /\ PidsOf(n) = {}

\* What is reported up, what has a readiness message to come and what waits
\* to be respawned has a process, unless it is lost.
ParkInv ==
    /\ ready_rx \subseteq spawned
    /\ \A n \in Names : restart_replies[n] # NONE => n \in pending_restart
    /\ pc \in LoopPhases =>
        \A n \in Names \ lost :
            /\ svc_state[n] \in {"Running", "Ready"} => PidsOf(n) # {}
            /\ n \in (spawned \cap Watched) \ ready_reported => PidsOf(n) # {}
            /\ n \in pending_restart => PidsOf(n) # {}

\* A spawn gives n a process and takes none from any name, the reaped pid's apart.
LEMMA SpawnPids ==
    ASSUME TypeOK, NEW n \in Names, NEW reaped \in SUBSET PidsOf(n), Spawn(n, reaped),
           \A p \in Pids : proc[p] = "free" <=> pid_to_name[p] = NONE
    PROVE  /\ PidsOf(n)' # {}
           /\ \A k \in Names \ {n} : PidsOf(k)' = PidsOf(k)
           /\ svc_state' = [svc_state EXCEPT ![n] = "Running"]
           /\ spawned' = spawned \cup {n}
<1>1. PICK p \in FreePids \cup reaped :
          /\ pid_to_name' = [q \in Pids |-> IF q = p THEN n
                                ELSE IF q \in reaped THEN NONE ELSE pid_to_name[q]]
          /\ svc_state' = [svc_state EXCEPT ![n] = "Running"]
          /\ spawned' = spawned \cup {n}
  BY DEF Spawn
<1>2. p \in Pids /\ pid_to_name[p] \in {n, NONE} /\ \A q \in reaped : pid_to_name[q] = n
  BY DEF FreePids, PidsOf
<1>3. NONE \notin Names
  BY ConstantShape
<1> QED BY <1>1, <1>2, <1>3 DEF PidsOf

\* The same for the steps that spawn nothing and reap nothing.
LEMMA SamePids ==
    ASSUME UNCHANGED pid_to_name
    PROVE  \A n : PidsOf(n)' = PidsOf(n)
BY DEF PidsOf

\* An invariant that speaks of no variable a step changes is kept.
LEMMA ParkQuiet ==
    ASSUME ParkInv, Defined, UNCHANGED <<pid_to_name, svc_state, spawned, pending_restart,
                                         restart_replies, svc_by_name>>,
           ready_rx' \subseteq spawned, ready_reported \subseteq ready_reported', lost' = lost,
           pc' \in LoopPhases => pc \in LoopPhases
    PROVE  ParkInv' /\ Defined'
BY SamePids DEF ParkInv, Defined

(* The commands: a reply is parked only where there is a process, and only *)
(* a name with a definition is spawned.                                    *)
LEMMA HandlerParks ==
    ASSUME IndInv, Defined, ParkInv, NEW m \in cmd_rx,
           HandleStart(m) \/ HandleRestart(m) \/ HandleReload(m)
    PROVE  \/ SignalAndPark(m) /\ (PidsOf(m.service) # {} \/ m.service \in lost)
           \/ \E answer \in {"ok", "error"} : Answer(m, answer) /\ UNCHANGED tableVars
           \/ \E answer \in {"ok", "error"} :
                Answer(m, answer) /\ Spawn(m.service, {}) /\ svc_by_name'[m.service] # NONE
<1> DEFINE n == m.service
<1>1. n \in Names
  BY DEF IndInv, TypeOK, Messages
<1>2. ASSUME NEW def, SpawnAndAnswer(m, def)
      PROVE \E answer \in {"ok", "error"} :
                Answer(m, answer) /\ (UNCHANGED tableVars \/ Spawn(n, {}))
  BY <1>2 DEF SpawnAndAnswer
<1>3. CASE HandleStart(m)
  <2>1. svc_by_name' = svc_by_name
    BY <1>3 DEF HandleStart
  <2>2. CASE svc_state[n] \in {"Running", "Ready", "Absent"} /\ Answer(m, "error") /\ UNCHANGED tableVars
    BY <2>2
  <2>3. CASE svc_state[n] \in {"Pending", "Exited", "Failed"} /\ SpawnAndAnswer(m, svc_by_name[n])
    <3>1. svc_by_name[n] # NONE
      BY <1>1, <2>3 DEF Defined
    <3> QED BY <1>2, <2>1, <2>3, <3>1
  <2> QED BY <1>3, <2>2, <2>3 DEF HandleStart
<1>4. CASE HandleRestart(m)
  <2>1. svc_by_name' = svc_by_name /\ pc = "commands"
    BY <1>4 DEF HandleRestart
  <2>2. CASE Answer(m, "error") /\ UNCHANGED tableVars
    BY <2>2
  <2>3. CASE svc_state[n] \in {"Running", "Ready"} /\ SignalAndPark(m)
    BY <1>1, <2>1, <2>3 DEF ParkInv, LoopPhases
  <2>4. CASE svc_state[n] \in {"Pending", "Exited", "Failed"} /\ SpawnAndAnswer(m, svc_by_name[n])
    <3>1. svc_by_name[n] # NONE
      BY <1>1, <2>4 DEF Defined
    <3> QED BY <1>2, <2>1, <2>4, <3>1
  <2> QED BY <1>4, <2>2, <2>3, <2>4 DEF HandleRestart
<1>5. CASE HandleReload(m)
  <2>1. CASE ~Changed(n)
    BY <1>5, <2>1 DEF HandleReload
  <2>2. CASE Changed(n)
    <3>1. svc_by_name'[n] # NONE
      BY <1>1, <1>5, <2>2 DEF HandleReload, Changed, IndInv, TypeOK
    <3>2. \/ PidsOf(n) # {} /\ SignalAndPark(m)
          \/ SpawnAndAnswer(m, disk[n])
      BY <1>5, <2>2 DEF HandleReload
    <3> QED BY <1>2, <3>1, <3>2
  <2> QED BY <2>1, <2>2
<1> QED BY <1>3, <1>4, <1>5

\* So the commands keep the invariant.
LEMMA HandlerKeepsPark ==
    ASSUME IndInv, Defined, ParkInv, NEW m \in cmd_rx,
           HandleStart(m) \/ HandleRestart(m) \/ HandleReload(m)
    PROVE  Defined' /\ ParkInv'
<1> DEFINE n == m.service
<1>1. /\ n \in Names /\ pc = "commands" /\ pc' = pc /\ m.client \in Clients /\ m.client # NONE
      /\ UNCHANGED <<ready_rx, ready_reported, lost>>
      /\ \A p \in Pids : proc[p] = "free" <=> pid_to_name[p] = NONE
  BY HandlerEffect, HandlerFrame, ConstantShape
  DEF IndInv, TypeOK, Messages, ChildrenTracked, LoopPhases
<1>2. /\ \A k \in Names : svc_by_name'[k] = NONE => svc_by_name[k] = NONE
  <2>1. CASE HandleStart(m) \/ HandleRestart(m)
    BY <2>1 DEF HandleStart, HandleRestart
  <2>2. CASE HandleReload(m)
    BY <2>2, <1>1 DEF HandleReload, Changed, IndInv, TypeOK
  <2> QED BY <2>1, <2>2
<1>3. CASE SignalAndPark(m) /\ (PidsOf(n) # {} \/ n \in lost)
  <2>1. /\ UNCHANGED tableVars /\ pending_restart' = pending_restart \cup {n}
        /\ \A k \in Names : restart_replies'[k] = IF k = n THEN m.client ELSE restart_replies[k]
    BY <1>1, <1>3 DEF SignalAndPark, IndInv, TypeOK
  <2> QED BY <1>1, <1>2, <1>3, <2>1, SamePids DEF Defined, ParkInv, LoopPhases
<1>4. ASSUME NEW answer \in {"ok", "error"}, Answer(m, answer), Spawn(n, {}), svc_by_name'[n] # NONE
      PROVE Defined' /\ ParkInv'
  <2>1. /\ PidsOf(n)' # {}
        /\ \A k \in Names \ {n} : PidsOf(k)' = PidsOf(k)
        /\ svc_state' = [svc_state EXCEPT ![n] = "Running"]
        /\ spawned' = spawned \cup {n}
    BY <1>1, <1>4, SpawnPids DEF IndInv
  <2>2. UNCHANGED <<pending_restart, restart_replies>>
    BY <1>4 DEF Answer
  <2>3. pending_restart \subseteq Names /\ spawned \subseteq Names /\ svc_state \in [Names -> States]
    BY DEF IndInv, TypeOK
  <2> QED BY <1>1, <1>2, <1>4, <2>1, <2>2, <2>3 DEF Defined, ParkInv, LoopPhases
<1>5. ASSUME NEW answer \in {"ok", "error"}, Answer(m, answer), UNCHANGED tableVars
      PROVE Defined' /\ ParkInv'
  BY <1>1, <1>2, <1>5, SamePids DEF Answer, Defined, ParkInv, LoopPhases
<1> QED BY <1>3, <1>4, <1>5, HandlerParks

\* A child that is collected belongs to a defined name.
LEMMA CollectedDefined ==
    ASSUME IndInv, Defined, NEW p \in Pids, Collected(p)
    PROVE  /\ pc = "poll"
           /\ pid_to_name[p] \in Names /\ p \in PidsOf(pid_to_name[p])
           /\ svc_by_name[pid_to_name[p]] # NONE
           /\ \A q \in Pids : proc[q] = "free" <=> pid_to_name[q] = NONE
<1>1. /\ pc = "poll" /\ pid_to_name[p] \in Names /\ p \in PidsOf(pid_to_name[p])
      /\ \A q \in Pids : proc[q] = "free" <=> pid_to_name[q] = NONE
  BY DEF Collected, Statuses, LoopPhases, PidsOf, IndInv, TypeOK, ChildrenTracked
<1>2. svc_by_name[pid_to_name[p]] # NONE
  BY <1>1 DEF Defined
<1> QED BY <1>1, <1>2

\* The poll: a respawn replaces the process, a final exit is news.
LEMMA PollKeepsPark ==
    ASSUME IndInv, Defined, ParkInv, NEW p \in Pids,
           ManualRespawn(p) \/ AutoRestart(p) \/ RestartError(p) \/ FinalExit(p)
    PROVE  Defined' /\ ParkInv'
<1>1. Collected(p)
  BY DEF ManualRespawn, AutoRestart, RestartError, FinalExit
<1>2. PICK n \in Names :
        /\ n = pid_to_name[p] /\ p \in PidsOf(n) /\ svc_by_name[n] # NONE
        /\ pc = "poll"
        /\ \A q \in Pids : proc[q] = "free" <=> pid_to_name[q] = NONE
  BY <1>1, CollectedDefined
<1>3. UNCHANGED <<ready_rx, svc_by_name>> /\ ready_reported \subseteq ready_reported'
  BY DEF ManualRespawn, AutoRestart, RestartError, FinalExit, Release
<1>4. /\ pending_restart \subseteq Names /\ spawned \subseteq Names
      /\ svc_state \in [Names -> States] /\ restart_replies \in [Names -> Clients \cup {NONE}]
  BY DEF IndInv, TypeOK
<1>5. ASSUME Spawn(n, {p}), pc' = pc, lost' = lost,
             pending_restart' \subseteq pending_restart,
             \A k \in Names : restart_replies'[k] # NONE =>
                 restart_replies[k] # NONE /\ (k \in pending_restart => k \in pending_restart')
      PROVE  Defined' /\ ParkInv'
  <2>1. /\ PidsOf(n)' # {}
        /\ \A k \in Names \ {n} : PidsOf(k)' = PidsOf(k)
        /\ svc_state' = [svc_state EXCEPT ![n] = "Running"]
        /\ spawned' = spawned \cup {n}
    BY <1>2, <1>5, SpawnPids DEF IndInv
  <2>2. Defined'
    BY <1>2, <1>3, <1>4, <2>1 DEF Defined
  <2>3. ParkInv'
    BY <1>2, <1>3, <1>4, <1>5, <2>1 DEF ParkInv, LoopPhases
  <2> QED BY <2>2, <2>3
<1>6. CASE AutoRestart(p)
  BY <1>2, <1>5, <1>6 DEF AutoRestart
<1>8. CASE ManualRespawn(p)
  <2>1. /\ pc' = pc /\ pending_restart' = pending_restart \ {n}
        /\ restart_replies' = [restart_replies EXCEPT ![n] = NONE]
        /\ ready_reported' = ready_reported
        /\ \/ Spawn(n, {p}) /\ lost' = lost
           \/ /\ Reap(p) /\ SetDown(n, "Failed") /\ spawned' = spawned
              /\ lost' = lost \cup (({n} \cap Watched) \ ready_reported)
    BY <1>2, <1>8 DEF ManualRespawn
  <2>2. \A k \in Names : restart_replies'[k] # NONE =>
            restart_replies[k] # NONE /\ (k \in pending_restart => k \in pending_restart')
    BY <1>4, <2>1
  <2>3. CASE Spawn(n, {p}) /\ lost' = lost
    BY <1>5, <2>1, <2>2, <2>3
  <2>4. CASE /\ Reap(p) /\ SetDown(n, "Failed") /\ spawned' = spawned
             /\ lost' = lost \cup (({n} \cap Watched) \ ready_reported)
    <3>1. \A k \in Names \ {n} : PidsOf(k)' = PidsOf(k) /\ svc_state'[k] = svc_state[k]
      BY <1>2, <1>4, <2>4, ConstantShape DEF Reap, SetDown, PidsOf, IndInv, TypeOK
    <3>2. svc_state'[n] = "Failed"
      BY <1>2, <1>4, <2>4 DEF SetDown
    <3>3. Defined'
      BY <1>2, <1>3, <3>1 DEF Defined
    <3>4. ParkInv'
      BY <1>2, <1>3, <1>4, <2>1, <2>2, <2>4, <3>1, <3>2 DEF ParkInv, LoopPhases
    <3> QED BY <3>3, <3>4
  <2> QED BY <2>1, <2>3, <2>4
<1>9. CASE RestartError(p)
  <2>1. /\ pc' = "error" /\ Reap(p) /\ UNCHANGED <<svc_state, spawned>>
        /\ \A k \in Names : restart_replies'[k] = NONE
    BY <1>9 DEF RestartError, HangUp
  <2>2. \A k \in Names : PidsOf(k)' \subseteq PidsOf(k)
    BY <1>2, <2>1, ConstantShape DEF Reap, PidsOf, IndInv, TypeOK
  <2> QED BY <1>2, <1>3, <2>1, <2>2 DEF Defined, ParkInv, LoopPhases
<1>7. CASE FinalExit(p)
  <2>1. /\ Reap(p) /\ (SetDown(n, "Exited") \/ SetDown(n, "Failed"))
        /\ n \in ready_reported' /\ n \notin pending_restart
        /\ UNCHANGED <<pc, spawned, pending_restart, restart_replies, lost>>
    BY <1>2, <1>7 DEF FinalExit, Release
  <2>2. \A k \in Names \ {n} : PidsOf(k)' = PidsOf(k)
    BY <1>2, <2>1, ConstantShape DEF Reap, PidsOf, IndInv, TypeOK
  <2>3. \A k \in Names \ {n} : svc_state'[k] = svc_state[k]
    BY <1>4, <2>1 DEF SetDown
  <2>4. svc_state'[n] \in {"Exited", "Failed"}
    BY <1>2, <1>4, <2>1 DEF SetDown
  <2>5. Defined'
    BY <1>2, <1>3, <2>2, <2>3 DEF Defined
  <2>6. ParkInv'
    BY <1>2, <1>3, <1>4, <2>1, <2>2, <2>3, <2>4 DEF ParkInv, LoopPhases
  <2> QED BY <2>5, <2>6
<1> QED BY <1>6, <1>7, <1>8, <1>9

\* Every step keeps the invariant.
LEMMA StepParkInv ==
    ASSUME IndInv, Defined, ParkInv, [Next]_vars
    PROVE  Defined' /\ ParkInv'
<1> USE DEF IndInv
<1>1. CASE \/ UNCHANGED vars \/ BeginIteration \/ EndCommands \/ EndDrain \/ EndLaunch \/ Timeout
           \/ EndPoll \/ (\E p \in Pids : PollAlive(p)) \/ Terminated
  BY <1>1, ParkQuiet DEF BeginIteration, EndCommands, EndDrain, EndLaunch, Timeout, EndPoll,
           PollAlive, Terminated, LoopPhases, ParkInv
<1>2. CASE \/ Finish \/ EndShutdown \/ (\E n \in Services : LaunchError(n))
  <2>1. /\ UNCHANGED <<pid_to_name, svc_state, spawned, svc_by_name, ready_rx>>
        /\ pc' \notin LoopPhases /\ \A n \in Names : restart_replies'[n] = NONE
    BY <1>2 DEF Finish, EndShutdown, LaunchError, HangUp, LoopPhases
  <2> QED BY <2>1, SamePids DEF Defined, ParkInv
<1>3. ASSUME NEW m \in cmd_rx, HandleStart(m) \/ HandleRestart(m) \/ HandleReload(m)
      PROVE Defined' /\ ParkInv'
  BY <1>3, HandlerKeepsPark
<1>4. ASSUME NEW n \in Services, ReceiveReady(n) PROVE Defined' /\ ParkInv'
  <2>1. /\ pc \in LoopPhases /\ n \in spawned \cap Watched /\ n \in Names
        /\ UNCHANGED <<pid_to_name, spawned, pending_restart, restart_replies, svc_by_name, lost>>
        /\ ready_rx' \subseteq ready_rx /\ ready_reported' = ready_reported \cup {n}
        /\ \A k \in Names : svc_state'[k] = IF k = n /\ n \notin ready_reported
                                              THEN "Ready" ELSE svc_state[k]
    BY <1>4 DEF ReceiveReady, Release, FirstReport, ParkInv, LoopPhases, Names, TypeOK
  <2>2. \A k \in Names : PidsOf(k)' = PidsOf(k)
    BY <2>1, SamePids
  <2> QED BY <2>1, <2>2 DEF Defined, ParkInv, TypeOK
<1>5. ASSUME NEW n \in Services, LaunchBlocked(n) PROVE Defined' /\ ParkInv'
  <2>1. /\ pc \in LoopPhases /\ n \in Names
        /\ UNCHANGED <<pid_to_name, spawned, pending_restart, restart_replies, svc_by_name,
                       ready_rx, ready_reported, lost>>
        /\ \A k \in Names : svc_state'[k] = IF k = n THEN "Failed" ELSE svc_state[k]
    BY <1>5 DEF LaunchBlocked, SetDown, LoopPhases, Names, TypeOK
  <2>2. \A k \in Names : PidsOf(k)' = PidsOf(k)
    BY <2>1, SamePids
  <2> QED BY <2>1, <2>2 DEF Defined, ParkInv, TypeOK
<1>6. ASSUME NEW n \in Services, LaunchSpawn(n) PROVE Defined' /\ ParkInv'
  <2>1. /\ pc \in LoopPhases /\ n \in Names /\ pc' = pc
        /\ UNCHANGED <<pending_restart, restart_replies, svc_by_name, ready_rx,
                       ready_reported, lost>>
        /\ Spawn(n, {}) /\ \A p \in Pids : proc[p] = "free" <=> pid_to_name[p] = NONE
    BY <1>6 DEF LaunchSpawn, LoopPhases, Names, ChildrenTracked
  <2>2. /\ PidsOf(n)' # {}
        /\ \A k \in Names \ {n} : PidsOf(k)' = PidsOf(k)
        /\ svc_state' = [svc_state EXCEPT ![n] = "Running"]
        /\ spawned' = spawned \cup {n}
    BY <2>1, SpawnPids
  <2>3. Defined'
    BY <2>1, <2>2 DEF Defined, TypeOK
  <2>4. ParkInv'
    BY <2>1, <2>2 DEF ParkInv, TypeOK
  <2> QED BY <2>3, <2>4
<1>7. ASSUME NEW p \in Pids,
             ManualRespawn(p) \/ AutoRestart(p) \/ RestartError(p) \/ FinalExit(p)
      PROVE Defined' /\ ParkInv'
  BY <1>7, PollKeepsPark
<1>8. CASE \/ BeginShutdown \/ NextLayer \/ StopReap \/ StopDeadline \/ KillGiveUp
           \/ BeginStragglers \/ StragglerReap \/ StragglerKill
           \/ (\E n \in Names : StopTerm(n)) \/ (\E p \in Pids : StragglerTerm(p))
  <2>1. /\ UNCHANGED <<svc_state, spawned, svc_by_name, ready_rx, pending_restart, restart_replies>>
        /\ pc' \notin LoopPhases
    BY <1>8 DEF BeginShutdown, NextLayer, StopReap, StopDeadline, KillGiveUp, BeginStragglers,
                StragglerReap, StragglerKill, StopTerm, StragglerTerm, LoopPhases
  <2>2. \A n \in Names : PidsOf(n)' \subseteq PidsOf(n)
    BY <1>8, ConstantShape
    DEF BeginShutdown, NextLayer, StopReap, StopDeadline, KillGiveUp, BeginStragglers,
        StragglerReap, StragglerKill, StopTerm, StragglerTerm, Reap, PidsOf, TypeOK
  <2> QED BY <2>1, <2>2 DEF Defined, ParkInv
<1>9. CASE World
  <2>1. ASSUME NEW n \in Watched, WatcherSignals(n) PROVE Defined' /\ ParkInv'
    BY <2>1, ParkQuiet DEF WatcherSignals, ParkInv
  <2> QED BY <1>9, <2>1, ParkQuiet DEF World, Exit, ShutdownSignal, EditFile, ParkInv
<1>10. CASE Ctl
  BY <1>10, ParkQuiet DEF Ctl, Send, StopLookup, StopKill, Status, Refuse, answerFrame, ParkInv
<1> QED BY <1>1, <1>2, <1>3, <1>4, <1>5, <1>6, <1>7, <1>8, <1>9, <1>10
        DEF Next, ExecutorStep, Loop, Shutdown

\* Nothing is parked yet.
LEMMA InitParkInv ==
    Init => Defined /\ ParkInv
<1> SUFFICES ASSUME Init PROVE Defined /\ ParkInv
  OBVIOUS
<1>1. \A s \in Services : s \in Names /\ apply_to(InitialToml[s]) # NONE
  BY LoadedType, ConstantShape DEF apply_to, Contents, Names
<1> QED BY <1>1, ConstantShape DEF Init, Defined, ParkInv, PidsOf

(* A reply is parked only for a service that is marked for a respawn and   *)
(* has a process whose exit will bring it about: no client waits for an    *)
(* exit that cannot come, whatever other clients, edits, late readiness    *)
(* messages, crashes and failed forks do; except under a service whose     *)
(* earlier respawn failed while its readiness message was still to come.   *)
THEOREM ParkedRepliesHaveAProcess ==
    Spec => []ParkedHasProcess
<1> DEFINE Inv == IndInv /\ Defined /\ ParkInv
<1>1. Init => Inv
  BY InitIndInv, InitParkInv
<1>2. Inv /\ [Next]_vars => Inv'
  BY StepIndInv, StepParkInv
<1>3. Inv => ParkedHasProcess
  BY DEF ParkInv, ParkedHasProcess
<1> QED BY <1>1, <1>2, <1>3, PTL DEF Spec
=============================================================================
