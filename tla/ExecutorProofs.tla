--------------------------- MODULE ExecutorProofs ---------------------------
(* Theorems about Executor, for every value of its constants.              *)
EXTENDS Executor, FiniteSetTheorems, TLAPS

IndInv == TypeOK /\ ChildrenTracked

\* The conjuncts of TypeOK that a spawn, and a control request, can disturb.
ProcType ==
    /\ proc \in [Pids -> {"free", "alive"} \cup Statuses]
    /\ sent \in [Pids -> {"none", "TERM", "KILL"}]
    /\ svc_state \in [Names -> States]
    /\ shared_pid \in [Names -> Pids \cup {NONE}]
    /\ pid_to_name \in [Pids -> Names \cup {NONE}]
    /\ spawned \subseteq Names

CtlType ==
    /\ cmd_rx \subseteq Messages
    /\ conn \in [Clients -> {"idle", "stopping", "waiting", "ok", "error", "disconnected"}]
    /\ stop_pid \in [Clients -> Pids \cup {NONE}]
    /\ pending_restart \subseteq Names
    /\ restart_replies \in [Names -> Clients \cup {NONE}]

\* ServiceGraph: mark_ready keeps the counters natural numbers.
LEMMA DecrementType ==
    ASSUME NEW deg \in [Services -> Nat], NEW n
    PROVE  DecrementDependents(deg, n) \in [Services -> Nat]
BY DEF DecrementDependents

\* mark_ready returns names of services.
LEMMA NewlyReadyType ==
    ASSUME NEW deg \in [Services -> Nat], NEW n
    PROVE  NewlyReady(deg, n) \subseteq Services
BY DEF NewlyReady, dependents

\* The files that were loaded and the definitions made from them.
LEMMA LoadedType ==
    /\ \A n \in Names : Loaded(n) \in Contents \cup {NONE}
    /\ \A n \in Services : apply_to(InitialToml[n]) \in Contents
BY ConstantShape DEF Loaded, apply_to, Contents

\* The counters build makes are natural numbers.
LEMMA InitialInDegreeType == InitialInDegree \in [Services -> Nat]
<1>1. ASSUME NEW s \in Services PROVE Cardinality(Deps(s)) \in Nat
  <2>1. Deps(s) \subseteq Services
    BY DEF Deps
  <2>2. IsFiniteSet(Deps(s))
    BY <2>1, GraphShape, FS_Subset
  <2> QED BY <2>2, FS_CardinalityType
<1> QED BY <1>1 DEF InitialInDegree

\* The state run_with_marker starts in satisfies the invariant.
LEMMA InitIndInv == Init => IndInv
<1> SUFFICES ASSUME Init PROVE IndInv
  OBVIOUS
<1>1. TypeOK
  BY InitialInDegreeType, LoadedType, GraphShape, ConstantShape
  DEF Init, TypeOK, LoopPhases, States, Names, initially_ready
<1>2. ChildrenTracked
  BY DEF Init, ChildrenTracked
<1> QED BY <1>1, <1>2 DEF IndInv

-----------------------------------------------------------------------------
\* What the helpers of the actions do to the typed state.
LEMMA MarkReadyType ==
    ASSUME TypeOK, NEW n \in Names, NEW news \in {"good", "bad"},
           NEW queue \in SUBSET Services, MarkReady(n, news, queue)
    PROVE  /\ in_degree' \in [Services -> Nat]
           /\ to_start' \subseteq Services
           /\ marks' \in [Names -> Nat]
           /\ verdict' \in [Names -> {"none", "good", "bad"}]
BY DecrementType, NewlyReadyType DEF MarkReady, TypeOK

\* A spawn keeps process table and names in their ranges.
LEMMA SpawnType ==
    ASSUME TypeOK, NEW n \in Names, NEW reaped \in SUBSET Pids, Spawn(n, reaped)
    PROVE  ProcType'
BY DEF ProcType, Spawn, TypeOK, FreePids, States

\* After a spawn too, the pids without a process are those without a name.
LEMMA SpawnTracked ==
    ASSUME TypeOK, NEW n \in Names, NEW reaped \in SUBSET Pids, Spawn(n, reaped),
           \A p \in Pids : proc[p] = "free" <=> pid_to_name[p] = NONE
    PROVE  \A p \in Pids : proc'[p] = "free" <=> pid_to_name'[p] = NONE
BY ConstantShape DEF Spawn, TypeOK, FreePids

-----------------------------------------------------------------------------
USE DEF vars, dataVars, kernelVars, tableVars, orderVars, bookVars, readyVars,
        ctlVars, defVars, haltVars, stopFrame, execFrame

\* The typed control state after an answer and after a parked reply.
LEMMA AnswerType ==
    ASSUME TypeOK, NEW m \in cmd_rx, NEW answer \in {"ok", "error"}, Answer(m, answer)
    PROVE  CtlType'
BY DEF CtlType, Answer, TypeOK, ctlVars

\* Signalling a service and parking the reply keeps the types.
LEMMA ParkType ==
    ASSUME TypeOK, NEW m \in cmd_rx, SignalAndPark(m)
    PROVE  /\ CtlType'
           /\ sent' \in [Pids -> {"none", "TERM", "KILL"}]
           /\ UNCHANGED <<proc, tableVars>>
<1>1. m.service \in Names /\ m.client \in Clients
  BY DEF TypeOK, Messages
<1> QED BY <1>1 DEF CtlType, SignalAndPark, Signal, PidsOf, TypeOK

\* A command either leaves the processes alone, or spawns one for its service.
LEMMA HandlerEffect ==
    ASSUME TypeOK, NEW m \in cmd_rx,
           HandleStart(m) \/ HandleRestart(m) \/ HandleReload(m)
    PROVE  /\ m.service \in Names
           /\ \/ SignalAndPark(m)
              \/ \E answer \in {"ok", "error"} :
                    /\ Answer(m, answer)
                    /\ Spawn(m.service, {}) \/ UNCHANGED <<kernelVars, tableVars>>
<1>1. m.service \in Names
  BY DEF TypeOK, Messages
<1>2. ASSUME NEW def, SpawnAndAnswer(m, def)
      PROVE \E answer \in {"ok", "error"} :
                /\ Answer(m, answer)
                /\ Spawn(m.service, {}) \/ UNCHANGED <<kernelVars, tableVars>>
  BY <1>2 DEF SpawnAndAnswer
<1> HIDE DEF vars, dataVars, kernelVars, tableVars, orderVars, bookVars, readyVars,
        ctlVars, defVars, haltVars
<1>3. CASE HandleStart(m)
  BY <1>1, <1>2, <1>3 DEF HandleStart
<1>4. CASE HandleRestart(m)
  BY <1>1, <1>2, <1>4 DEF HandleRestart
<1>5. CASE HandleReload(m)
  BY <1>1, <1>2, <1>5 DEF HandleReload
<1> QED BY <1>3, <1>4, <1>5

\* What all three handlers leave alone.
LEMMA HandlerFrame ==
    ASSUME TypeOK, NEW m \in cmd_rx,
           HandleStart(m) \/ HandleRestart(m) \/ HandleReload(m)
    PROVE  /\ pc = "commands"
           /\ UNCHANGED <<pc, orderVars, bookVars, pids, readyVars, disk, haltVars>>
           /\ svc_by_name' \in [Names -> Contents \cup {NONE}]
           /\ service_raw' \in [Names -> Contents \cup {NONE}]
<1>1. m.service \in Names
  BY DEF TypeOK, Messages
<1>2. CASE HandleStart(m) \/ HandleRestart(m)
  BY <1>2 DEF HandleStart, HandleRestart, TypeOK
<1>3. CASE HandleReload(m)
  BY <1>1, <1>3 DEF HandleReload, Changed, TypeOK
<1> QED BY <1>2, <1>3

\* Every step keeps the invariant.
LEMMA StepIndInv == IndInv /\ [Next]_vars => IndInv'
<1> SUFFICES ASSUME IndInv, [Next]_vars PROVE IndInv'
  OBVIOUS
<1> USE ConstantShape, GraphShape
<1>0. CASE UNCHANGED vars
  BY <1>0 DEF IndInv, TypeOK, ChildrenTracked
<1>1. CASE BeginIteration
  BY <1>1 DEF BeginIteration, IndInv, TypeOK, ChildrenTracked, LoopPhases
<1>2. CASE EndCommands
  BY <1>2 DEF EndCommands, IndInv, TypeOK, ChildrenTracked, LoopPhases
<1>3. CASE EndDrain
  BY <1>3 DEF EndDrain, IndInv, TypeOK, ChildrenTracked, LoopPhases
<1>4. CASE EndLaunch
  BY <1>4 DEF EndLaunch, IndInv, TypeOK, ChildrenTracked, LoopPhases
<1>5. CASE Timeout
  BY <1>5 DEF Timeout, Tracked, IndInv, TypeOK, ChildrenTracked, LoopPhases
<1>6. CASE EndPoll
  BY <1>6 DEF EndPoll, IndInv, TypeOK, ChildrenTracked, LoopPhases
<1>7. CASE Finish
  BY <1>7 DEF Finish, HangUp, IndInv, TypeOK, ChildrenTracked, LoopPhases, Returned
<1>8. ASSUME NEW m \in cmd_rx, HandleStart(m) \/ HandleRestart(m) \/ HandleReload(m)
      PROVE IndInv'
  <2>1. TypeOK /\ m.service \in Names
    BY HandlerEffect, <1>8 DEF IndInv
  <2>2. CASE SignalAndPark(m)
    BY <2>1, <2>2, <1>8, ParkType, HandlerFrame DEF CtlType, IndInv, TypeOK, ChildrenTracked
  <2>3. ASSUME NEW answer \in {"ok", "error"}, Answer(m, answer), Spawn(m.service, {})
        PROVE IndInv'
    <3>1. \A p \in Pids : proc'[p] = "free" <=> pid_to_name'[p] = NONE
      BY <2>1, <2>3, <1>8, SpawnTracked, HandlerFrame DEF IndInv, ChildrenTracked, LoopPhases
    <3>2. CtlType' /\ ProcType'
      BY <2>1, <2>3, AnswerType, SpawnType
    <3> QED BY <2>1, <3>1, <3>2, <1>8, HandlerFrame
            DEF CtlType, ProcType, IndInv, TypeOK, ChildrenTracked
  <2>4. ASSUME NEW answer \in {"ok", "error"}, Answer(m, answer),
               UNCHANGED <<kernelVars, tableVars>>
        PROVE IndInv'
    <3>1. CtlType'
      BY <2>1, <2>4, AnswerType
    <3> QED BY <2>1, <2>4, <3>1, <1>8, HandlerFrame DEF CtlType, IndInv, TypeOK, ChildrenTracked
  <2> QED BY <1>8, <2>1, <2>2, <2>3, <2>4, HandlerEffect
<1>11. ASSUME NEW n \in Services, ReceiveReady(n) PROVE IndInv'
  BY <1>11, MarkReadyType
  DEF ReceiveReady, Release, Tracked, States, Names, IndInv, TypeOK, ChildrenTracked, LoopPhases
<1>12. ASSUME NEW n \in Services, LaunchBlocked(n) PROVE IndInv'
  BY <1>12, MarkReadyType
  DEF LaunchBlocked, SetDown, States, Names, needs_dependents, IndInv, TypeOK, ChildrenTracked
<1>13. ASSUME NEW n \in Services, LaunchSpawn(n) PROVE IndInv'
  <2>1. /\ ProcType'
        /\ \A q \in Pids : proc'[q] = "free" <=> pid_to_name'[q] = NONE
    BY <1>13, SpawnType, SpawnTracked
    DEF LaunchSpawn, Names, IndInv, ChildrenTracked, LoopPhases
  <2> QED BY <1>13, <2>1 DEF LaunchSpawn, ProcType, IndInv, TypeOK, ChildrenTracked
<1>14. ASSUME NEW n \in Services, LaunchError(n) PROVE IndInv'
  BY <1>14 DEF LaunchError, HangUp, Returned, IndInv, TypeOK, ChildrenTracked, LoopPhases
<1>15. ASSUME NEW p \in Pids, PollAlive(p) PROVE IndInv'
  BY <1>15 DEF PollAlive, IndInv, TypeOK, ChildrenTracked
<1>16. ASSUME NEW p \in Pids, ManualRespawn(p) PROVE IndInv'
  <2>1. pc = "poll" /\ proc[p] \in Statuses /\ pids' \subseteq Pids
    BY <1>16 DEF ManualRespawn, Collected, IndInv, TypeOK
  <2>2. pid_to_name[p] \in Names
    BY <2>1 DEF IndInv, TypeOK, ChildrenTracked, LoopPhases, Statuses
  <2>3. CtlType'
    BY <1>16, <2>2 DEF ManualRespawn, CtlType, IndInv, TypeOK
  <2>4. /\ ProcType'
        /\ \A q \in Pids : proc'[q] = "free" <=> pid_to_name'[q] = NONE
    <3>1. CASE Spawn(pid_to_name[p], {p})
      BY <3>1, <2>1, <2>2, SpawnType, SpawnTracked DEF IndInv, ChildrenTracked, LoopPhases
    <3>2. CASE Reap(p) /\ SetDown(pid_to_name[p], "Failed") /\ UNCHANGED spawned
      BY <3>2, <2>1, <2>2
      DEF Reap, SetDown, ProcType, IndInv, TypeOK, ChildrenTracked, LoopPhases, States
    <3> QED BY <1>16, <3>1, <3>2 DEF ManualRespawn
  <2> QED BY <1>16, <2>1, <2>3, <2>4
          DEF ManualRespawn, CtlType, ProcType, IndInv, TypeOK, ChildrenTracked
<1>17. ASSUME NEW p \in Pids, AutoRestart(p) PROVE IndInv'
  <2>1. /\ pc = "poll" /\ proc[p] \in Statuses /\ pids' \subseteq Pids
        /\ Spawn(pid_to_name[p], {p})
    BY <1>17 DEF AutoRestart, Collected, IndInv, TypeOK
  <2>2. pid_to_name[p] \in Names
    BY <2>1 DEF IndInv, TypeOK, ChildrenTracked, LoopPhases, Statuses
  <2>3. restart_counts' \in [Names -> Nat]
    BY <1>17, <2>2 DEF AutoRestart, IndInv, TypeOK
  <2>4. /\ ProcType'
        /\ \A q \in Pids : proc'[q] = "free" <=> pid_to_name'[q] = NONE
    BY <2>1, <2>2, SpawnType, SpawnTracked DEF IndInv, ChildrenTracked, LoopPhases
  <2> QED BY <1>17, <2>1, <2>3, <2>4
          DEF AutoRestart, ProcType, IndInv, TypeOK, ChildrenTracked
<1>18. ASSUME NEW p \in Pids, RestartError(p) PROVE IndInv'
  BY <1>18
  DEF RestartError, Collected, Statuses, Reap, HangUp, Returned, IndInv, TypeOK, ChildrenTracked, LoopPhases
<1>19. ASSUME NEW p \in Pids, FinalExit(p) PROVE IndInv'
  <2>1. pc = "poll" /\ proc[p] \in Statuses /\ pids' \subseteq Pids
    BY <1>19 DEF FinalExit, Collected, IndInv, TypeOK
  <2>2. pid_to_name[p] \in Names
    BY <2>1 DEF IndInv, TypeOK, ChildrenTracked, LoopPhases, Statuses
  <2>3. /\ ready_reported' \subseteq Names /\ blocked_services' \subseteq Services
        /\ completed' \in Nat
    BY <1>19, <2>2 DEF FinalExit, Release, needs_dependents, IndInv, TypeOK
  <2>4. ProcType'
    BY <1>19, <2>2 DEF FinalExit, Reap, SetDown, States, ProcType, IndInv, TypeOK
  <2>5. /\ in_degree' \in [Services -> Nat]
        /\ to_start' \subseteq Services
        /\ marks' \in [Names -> Nat]
        /\ verdict' \in [Names -> {"none", "good", "bad"}]
    <3>1. PICK news \in {"good", "bad"} : Release(pid_to_name[p], news)
      BY <1>19 DEF FinalExit
    <3> QED BY <3>1, <2>2, MarkReadyType DEF Release, IndInv, TypeOK
  <2>6. \A q \in Pids : proc'[q] = "free" <=> pid_to_name'[q] = NONE
    BY <1>19, <2>1 DEF FinalExit, Reap, IndInv, TypeOK, ChildrenTracked, LoopPhases
  <2> QED BY <1>19, <2>1, <2>3, <2>4, <2>5, <2>6
          DEF FinalExit, ProcType, IndInv, TypeOK, ChildrenTracked
<1>20. CASE BeginShutdown
  BY <1>20 DEF BeginShutdown, Tracked, IndInv, TypeOK, ChildrenTracked, LoopPhases, StopPhases
<1>21. CASE NextLayer
  BY <1>21 DEF NextLayer, Leaves, IndInv, TypeOK, ChildrenTracked, LoopPhases
<1>22. CASE StopReap
  BY <1>22 DEF StopReap, Reap, IndInv, TypeOK, ChildrenTracked, LoopPhases, StopPhases
<1>23. CASE StopDeadline
  BY <1>23 DEF StopDeadline, Signal, IndInv, TypeOK, ChildrenTracked, LoopPhases, StopPhases
<1>24. CASE KillGiveUp
  BY <1>24 DEF KillGiveUp, IndInv, TypeOK, ChildrenTracked, LoopPhases, StopPhases
<1>25. CASE BeginStragglers
  BY <1>25 DEF BeginStragglers, Tracked, IndInv, TypeOK, ChildrenTracked, LoopPhases, StopPhases
<1>26. CASE StragglerReap
  BY <1>26 DEF StragglerReap, IndInv, TypeOK, ChildrenTracked, LoopPhases, StopPhases
<1>27. CASE StragglerKill
  BY <1>27 DEF StragglerKill, Signal, IndInv, TypeOK, ChildrenTracked, LoopPhases, StopPhases
<1>28. CASE EndShutdown
  BY <1>28 DEF EndShutdown, HangUp, IndInv, TypeOK, ChildrenTracked, LoopPhases, Returned
<1>29. ASSUME NEW n \in Names, StopTerm(n) PROVE IndInv'
  BY <1>29 DEF StopTerm, Signal, PidsOf, IndInv, TypeOK, ChildrenTracked, LoopPhases, StopPhases
<1>30. ASSUME NEW p \in Pids, StragglerTerm(p) PROVE IndInv'
  BY <1>30 DEF StragglerTerm, Signal, IndInv, TypeOK, ChildrenTracked, LoopPhases, StopPhases
<1>31. ASSUME NEW p \in Pids, NEW status \in Statuses, Exit(p, status) PROVE IndInv'
  BY <1>31 DEF Exit, Statuses, IndInv, TypeOK, ChildrenTracked
<1>32. ASSUME NEW n \in Watched, WatcherSignals(n) PROVE IndInv'
  BY <1>32 DEF WatcherSignals, IndInv, TypeOK, ChildrenTracked
<1>33. CASE ShutdownSignal
  BY <1>33 DEF ShutdownSignal, IndInv, TypeOK, ChildrenTracked
<1>34. ASSUME NEW e \in Edits, EditFile(e[1], e[2]) PROVE IndInv'
  BY <1>34 DEF EditFile, IndInv, TypeOK, ChildrenTracked
<1>35. ASSUME NEW c \in Clients, NEW kind \in Requests, NEW n \in Names, Send(c, kind, n) PROVE IndInv'
  BY <1>35 DEF Send, Messages, IndInv, TypeOK, ChildrenTracked
<1>36. ASSUME NEW c \in Clients, NEW n \in Names, StopLookup(c, n) PROVE IndInv'
  BY <1>36 DEF StopLookup, IndInv, TypeOK, ChildrenTracked
<1>37. ASSUME NEW c \in Clients, StopKill(c) PROVE IndInv'
  BY <1>37 DEF StopKill, Signal, IndInv, TypeOK, ChildrenTracked
<1>38. ASSUME NEW c \in Clients, Status(c) \/ Refuse(c) PROVE IndInv'
  BY <1>38 DEF Status, Refuse, answerFrame, IndInv, TypeOK, ChildrenTracked
<1> QED BY <1>0, <1>1, <1>2, <1>3, <1>4, <1>5, <1>6, <1>7, <1>8, <1>11, <1>12, <1>13,
          <1>14, <1>15, <1>16, <1>17, <1>18, <1>19, <1>20, <1>21, <1>22, <1>23, <1>24,
          <1>25, <1>26, <1>27, <1>28, <1>29, <1>30, <1>31, <1>32, <1>33, <1>34, <1>35,
          <1>36, <1>37, <1>38 DEF Next, ExecutorStep, Loop, Shutdown, Ctl, World,
          Terminated

(* Type correctness: in every reachable state of the executor, for any     *)
(* graph, set of processes, clients and file edits, every variable is in   *)
(* its range; in particular the counters are natural numbers and every     *)
(* queued name is a service of the graph.                                  *)
THEOREM TypeCorrect == Spec => []TypeOK
<1>1. IndInv => TypeOK
  BY DEF IndInv
<1> QED BY <1>1, InitIndInv, StepIndInv, PTL DEF Spec

(* No child is lost and none is waited for twice: while the loop runs,     *)
(* pid_to_name holds exactly the unreaped children, so waitpid in the poll *)
(* never returns ECHILD.                                                   *)
THEOREM ChildrenAreTracked == Spec => []ChildrenTracked
<1>1. IndInv => ChildrenTracked
  BY DEF IndInv
<1> QED BY <1>1, InitIndInv, StepIndInv, PTL DEF Spec
=============================================================================
