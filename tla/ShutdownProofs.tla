--------------------------- MODULE ShutdownProofs ---------------------------
(* Theorems about the shutdown branch: it leaves no process behind that    *)
(* has not been sent SIGKILL, for any clients, and stops dependents before *)
(* what they depend on, for a boot without control requests.               *)
EXTENDS StatusProofs

-----------------------------------------------------------------------------
(* Until the stragglers, a live process that is no longer tracked was      *)
(* given up on after SIGKILL; from then on, a live process is on the list, *)
(* is being waited for, or has been sent SIGKILL.                          *)
ForgottenKilled ==
    pc \in {"stopping", "stopwait", "killwait"} =>
        \A p \in Pids : proc[p] = "alive" /\ pid_to_name[p] = NONE => sent[p] = "KILL"

VictimKilled ==
    /\ pc \in {"stopwait", "killwait", "stragglerwait"} => victim \in Pids
    /\ pc = "killwait" /\ proc[victim] = "alive" => sent[victim] = "KILL"

StragglersListed ==
    pc \in {"stragglers", "stragglerwait"} =>
        \A p \in Pids : proc[p] = "alive" =>
            p \in pids \/ sent[p] = "KILL" \/ (pc = "stragglerwait" /\ p = victim)

KillInv == ForgottenKilled /\ VictimKilled /\ StragglersListed

USE DEF vars, dataVars, kernelVars, tableVars, orderVars, bookVars, readyVars,
        ctlVars, defVars, haltVars, stopFrame, execFrame

\* No signal takes back a SIGKILL; a live process that gets one has it.
LEMMA SignalKeepsKill ==
    ASSUME TypeOK, NEW p \in Pids \cup {NONE}, NEW sig \in {"TERM", "KILL"}, Signal(p, sig)
    PROVE  /\ \A q \in Pids : sent[q] = "KILL" => sent'[q] = "KILL"
           /\ p \in Pids /\ proc[p] = "alive" /\ sig = "KILL" => sent'[p] = "KILL"
BY ConstantShape DEF Signal, TypeOK

\* Nothing that ends a process, or signals one, weakens the invariant.
LEMMA WorldKeepsKill ==
    ASSUME TypeOK, KillInv, UNCHANGED <<pc, pid_to_name, pids, victim>>,
           \A p \in Pids : proc'[p] = "alive" => proc[p] = "alive",
           \A p \in Pids : sent[p] = "KILL" => sent'[p] = "KILL"
    PROVE  KillInv'
BY DEF KillInv, ForgottenKilled, VictimKilled, StragglersListed

\* Every step keeps it, whatever clients and children do meanwhile.
LEMMA StepKillInv == ASSUME IndInv, KillInv, [Next]_vars PROVE KillInv'
<1> USE DEF IndInv
<1>1. CASE pc' \notin StopPhases
  BY <1>1 DEF KillInv, ForgottenKilled, VictimKilled, StragglersListed, StopPhases
<1>2. CASE UNCHANGED vars \/ Terminated
  BY <1>2, WorldKeepsKill DEF Terminated
<1>3. CASE Loop
  <2>1. pc' \in LoopPhases \cup Returned
    <3>1. ASSUME NEW m \in cmd_rx, HandleStart(m) \/ HandleRestart(m) \/ HandleReload(m)
          PROVE pc' \in LoopPhases
      BY <3>1, HandlerFrame DEF LoopPhases
    <3>2. ASSUME NEW n \in Services,
                 ReceiveReady(n) \/ LaunchBlocked(n) \/ LaunchSpawn(n) \/ LaunchError(n)
          PROVE pc' \in LoopPhases \cup Returned
      BY <3>2 DEF ReceiveReady, LaunchBlocked, LaunchSpawn, LaunchError, LoopPhases, Returned
    <3>3. ASSUME NEW p \in Pids, \/ PollAlive(p) \/ ManualRespawn(p) \/ AutoRestart(p)
                                 \/ RestartError(p) \/ FinalExit(p)
          PROVE pc' \in LoopPhases \cup Returned
      BY <3>3 DEF PollAlive, ManualRespawn, AutoRestart, RestartError, FinalExit, Collected,
                  LoopPhases, Returned
    <3> QED BY <1>3, <3>1, <3>2, <3>3
            DEF Loop, BeginIteration, EndCommands, EndDrain, EndLaunch, Timeout, EndPoll, Finish,
                LoopPhases, Returned
  <2> QED BY <1>1, <2>1 DEF LoopPhases, Returned, StopPhases
<1>4. CASE BeginShutdown
  BY <1>4 DEF BeginShutdown, ChildrenTracked, LoopPhases,
              KillInv, ForgottenKilled, VictimKilled, StragglersListed
<1>5. CASE NextLayer
  BY <1>5, WorldKeepsKill DEF NextLayer
<1>6. ASSUME NEW n \in Names, StopTerm(n) PROVE KillInv'
  <2>1. PICK p \in PidsOf(n) : victim' = p /\ Signal(p, "TERM")
    BY <1>6 DEF StopTerm
  <2>2. p \in Pids /\ \A q \in Pids : sent[q] = "KILL" => sent'[q] = "KILL"
    BY <2>1, SignalKeepsKill DEF PidsOf
  <2> QED BY <1>6, <2>1, <2>2
          DEF StopTerm, KillInv, ForgottenKilled, VictimKilled, StragglersListed
<1>7. CASE StopReap
  BY <1>7 DEF StopReap, Reap, KillInv, ForgottenKilled, VictimKilled, StragglersListed, TypeOK
<1>8. CASE StopDeadline
  <2>1. /\ \A q \in Pids : sent[q] = "KILL" => sent'[q] = "KILL"
        /\ proc[victim] = "alive" => sent'[victim] = "KILL"
    BY <1>8, SignalKeepsKill DEF StopDeadline, KillInv, VictimKilled
  <2> QED BY <1>8, <2>1
          DEF StopDeadline, KillInv, ForgottenKilled, VictimKilled, StragglersListed
<1>9. CASE KillGiveUp
  BY <1>9 DEF KillGiveUp, KillInv, ForgottenKilled, VictimKilled, StragglersListed, TypeOK
<1>10. CASE BeginStragglers
  BY <1>10 DEF BeginStragglers, Tracked, KillInv, ForgottenKilled, VictimKilled, StragglersListed
<1>11. ASSUME NEW p \in Pids, StragglerTerm(p) PROVE KillInv'
  <2>1. \A q \in Pids : sent[q] = "KILL" => sent'[q] = "KILL"
    BY <1>11, SignalKeepsKill DEF StragglerTerm
  <2> QED BY <1>11, <2>1
          DEF StragglerTerm, KillInv, ForgottenKilled, VictimKilled, StragglersListed
<1>12. CASE StragglerReap
  BY <1>12 DEF StragglerReap, KillInv, ForgottenKilled, VictimKilled, StragglersListed, TypeOK
<1>13. CASE StragglerKill
  <2>1. /\ \A q \in Pids : sent[q] = "KILL" => sent'[q] = "KILL"
        /\ sent'[victim] = "KILL"
    BY <1>13, SignalKeepsKill DEF StragglerKill, KillInv, VictimKilled
  <2> QED BY <1>13, <2>1
          DEF StragglerKill, KillInv, ForgottenKilled, VictimKilled, StragglersListed
<1>14. CASE EndShutdown
  BY <1>1, <1>14 DEF EndShutdown, StopPhases
<1>15. CASE Ctl
  <2>1. ASSUME NEW c \in Clients, StopKill(c) PROVE KillInv'
    <3>1. \A q \in Pids : sent[q] = "KILL" => sent'[q] = "KILL"
      BY <2>1, SignalKeepsKill DEF StopKill, TypeOK
    <3> QED BY <2>1, <3>1, WorldKeepsKill DEF StopKill
  <2> QED BY <1>15, <2>1, WorldKeepsKill DEF Ctl, Send, StopLookup, Status, Refuse, answerFrame
<1>16. CASE World
  <2>1. ASSUME NEW p \in Pids, NEW status \in Statuses, Exit(p, status) PROVE KillInv'
    BY <2>1, WorldKeepsKill DEF Exit, Statuses, TypeOK
  <2> QED BY <1>16, <2>1, WorldKeepsKill DEF World, WatcherSignals, ShutdownSignal, EditFile
<1> QED BY <1>2, <1>3, <1>4, <1>5, <1>6, <1>7, <1>8, <1>9, <1>10, <1>11, <1>12, <1>13, <1>14,
           <1>15, <1>16 DEF Next, ExecutorStep, Shutdown

(* When the shutdown branch is through, each child it leaves behind has    *)
(* been sent SIGKILL: also second processes of a name, processes that      *)
(* clients signal at the same time, and those it gave up waiting for.      *)
THEOREM NoneSurvives == Spec => []NoSurvivor
<1>1. Init => KillInv
  BY DEF Init, KillInv, ForgottenKilled, VictimKilled, StragglersListed
<1>2. IndInv /\ KillInv /\ [Next]_vars => KillInv'
  BY StepKillInv
<1>3. KillInv => NoSurvivor
  BY DEF KillInv, StragglersListed, NoSurvivor
<1> QED BY <1>1, <1>2, <1>3, InitIndInv, StepIndInv, PTL DEF Spec

-----------------------------------------------------------------------------
(* The names yet to be stopped cover every tracked process but the one     *)
(* being waited for, and nobody still to be stopped depends on a name of   *)
(* the current layer, or on the one being waited for.                      *)
Unstopped == kill_rest \cup kill_layer

LayerIsFree == \A n \in kill_layer : dependents(n) \cap Unstopped = {}

TrackedUnstopped ==
    pc = "stopping" => \A p \in Tracked : pid_to_name[p] \in Unstopped

VictimIsFree ==
    pc \in {"stopwait", "killwait"} =>
        /\ victim \in Pids
        /\ \A p \in Tracked \ {victim} : pid_to_name[p] \in Unstopped
        /\ dependents(pid_to_name[victim]) \cap Unstopped = {}

OrderInv ==
    /\ pc \in LoopPhases => Unstopped = {}
    /\ LayerIsFree /\ TrackedUnstopped /\ VictimIsFree

\* A leaf of the running services has no dependent among them.
LEMMA LeavesAreFree ==
    ASSUME NEW R
    PROVE  \A n \in Leaves(R) : n \in R /\ dependents(n) \cap R = {}
BY DEF Leaves

\* A step that changes neither the order nor the tracked processes.
LEMMA OrderQuiet ==
    ASSUME OrderInv, UNCHANGED <<pid_to_name, kill_rest, kill_layer, victim>>,
           \/ pc' = pc
           \/ pc' \in LoopPhases /\ pc \in LoopPhases
           \/ pc = "stopwait" /\ pc' = "killwait"
           \/ pc' \in {"stragglers", "stragglerwait"} \cup Returned
    PROVE  OrderInv'
BY DEF OrderInv, LayerIsFree, TrackedUnstopped, VictimIsFree, Unstopped, Tracked,
       LoopPhases, Returned

\* Every step keeps the order, as long as a name has one process.
LEMMA StepOrderInv ==
    ASSUME Clients = {}, IndInv, BootInv, StatusInv, OrderInv, [Next]_vars
    PROVE  OrderInv'
<1> USE DEF IndInv
<1>1. CASE UNCHANGED vars \/ Terminated \/ Ctl \/ World
  BY <1>1, OrderQuiet
  DEF Terminated, Ctl, World, Exit, WatcherSignals, ShutdownSignal, EditFile
<1>2. CASE Loop
  <2>1. UNCHANGED <<kill_rest, kill_layer>> /\ pc \in LoopPhases /\ pc' \in LoopPhases \cup Returned
    <3>1. ASSUME NEW m \in cmd_rx PROVE FALSE
      BY DEF BootInv, NoCommands
    <3>2. ASSUME NEW n \in Services,
                 ReceiveReady(n) \/ LaunchBlocked(n) \/ LaunchSpawn(n) \/ LaunchError(n)
          PROVE /\ UNCHANGED <<kill_rest, kill_layer>> /\ pc \in LoopPhases
                /\ pc' \in LoopPhases \cup Returned
      BY <3>2 DEF ReceiveReady, LaunchBlocked, LaunchSpawn, LaunchError, LoopPhases, Returned
    <3>3. ASSUME NEW p \in Pids, \/ PollAlive(p) \/ ManualRespawn(p) \/ AutoRestart(p)
                                 \/ RestartError(p) \/ FinalExit(p)
          PROVE /\ UNCHANGED <<kill_rest, kill_layer>> /\ pc \in LoopPhases
                /\ pc' \in LoopPhases \cup Returned
      BY <3>3 DEF PollAlive, ManualRespawn, AutoRestart, RestartError, FinalExit, Collected,
                  LoopPhases, Returned
    <3> QED BY <1>2, <3>1, <3>2, <3>3
            DEF Loop, BeginIteration, EndCommands, EndDrain, EndLaunch, Timeout, EndPoll, Finish,
                LoopPhases, Returned
  <2> QED BY <2>1 DEF OrderInv, LayerIsFree, TrackedUnstopped, VictimIsFree, Unstopped,
                      LoopPhases, Returned
<1>3. CASE BeginShutdown
  <2>1. kill_layer = {} /\ kill_layer' = {} /\ pc' = "stopping"
    BY <1>3 DEF BeginShutdown, OrderInv, Unstopped, LoopPhases
  <2>2. \A p \in Tracked' : pid_to_name'[p] \in kill_rest'
    BY <1>3 DEF BeginShutdown, Tracked
  <2> QED BY <2>1, <2>2
          DEF OrderInv, LayerIsFree, TrackedUnstopped, VictimIsFree, Unstopped, LoopPhases
<1>4. CASE NextLayer
  <2>1. /\ kill_layer = {} /\ pc = "stopping" /\ pc' = "stopping" /\ UNCHANGED pid_to_name
        /\ kill_layer' = Leaves(kill_rest) /\ kill_rest' = kill_rest \ Leaves(kill_rest)
    BY <1>4 DEF NextLayer
  <2>2. Unstopped' = Unstopped
    BY <2>1, LeavesAreFree DEF Unstopped
  <2>3. LayerIsFree'
    BY <2>1, <2>2, LeavesAreFree DEF LayerIsFree, Unstopped
  <2>4. TrackedUnstopped' /\ VictimIsFree'
    BY <2>1, <2>2 DEF OrderInv, TrackedUnstopped, VictimIsFree, Tracked
  <2> QED BY <2>1, <2>3, <2>4 DEF OrderInv, LoopPhases
<1>5. ASSUME NEW n \in Names, StopTerm(n) PROVE OrderInv'
  <2>1. /\ pc = "stopping" /\ n \in kill_layer /\ kill_layer' = kill_layer \ {n}
        /\ pc' = "stopwait" /\ UNCHANGED <<pid_to_name, kill_rest>>
    BY <1>5 DEF StopTerm
  <2>2. PICK p \in PidsOf(n) : victim' = p
    BY <1>5 DEF StopTerm
  <2>3. Unstopped \ {n} \subseteq Unstopped' /\ Unstopped' \subseteq Unstopped
    BY <2>1 DEF Unstopped
  <2>4. LayerIsFree'
    BY <2>1, <2>3 DEF OrderInv, LayerIsFree
  <2>5. \A q \in Tracked' \ {p} : pid_to_name'[q] \in Unstopped'
    <3> SUFFICES ASSUME NEW q \in Tracked \ {p} PROVE pid_to_name[q] \in Unstopped \ {n}
      BY <2>1, <2>3 DEF Tracked
    <3>1. pid_to_name[q] \in Unstopped
      BY <2>1 DEF OrderInv, TrackedUnstopped
    <3>2. pid_to_name[q] # n
      BY <2>2 DEF StatusInv, OneProcess, PidsOf, Tracked
    <3> QED BY <3>1, <3>2
  <2>6. dependents(n) \cap Unstopped' = {}
    BY <2>1, <2>3 DEF OrderInv, LayerIsFree
  <2>7. p \in Pids /\ pid_to_name'[p] = n
    BY <2>1, <2>2 DEF PidsOf
  <2>8. VictimIsFree'
    BY <2>2, <2>5, <2>6, <2>7 DEF VictimIsFree
  <2> QED BY <2>1, <2>4, <2>8 DEF OrderInv, TrackedUnstopped, LoopPhases
<1>6. CASE StopReap \/ KillGiveUp
  <2>1. /\ pc \in {"stopwait", "killwait"} /\ pc' = "stopping"
        /\ UNCHANGED <<kill_rest, kill_layer>>
        /\ pid_to_name' = [pid_to_name EXCEPT ![victim] = NONE]
    BY <1>6 DEF StopReap, Reap, KillGiveUp
  <2>2. \A p \in Tracked' : p \in Tracked \ {victim} /\ pid_to_name'[p] = pid_to_name[p]
    BY <2>1 DEF Tracked, TypeOK
  <2>3. TrackedUnstopped'
    BY <2>1, <2>2 DEF OrderInv, TrackedUnstopped, VictimIsFree, Unstopped
  <2> QED BY <2>1, <2>3 DEF OrderInv, LayerIsFree, VictimIsFree, Unstopped, LoopPhases
<1>7. CASE \/ StopDeadline \/ StragglerReap \/ StragglerKill \/ EndShutdown \/ BeginStragglers
  BY <1>7, OrderQuiet
  DEF StopDeadline, StragglerReap, StragglerKill, EndShutdown, BeginStragglers, Returned
<1>8. ASSUME NEW p \in Pids, StragglerTerm(p) PROVE OrderInv'
  BY <1>8 DEF StragglerTerm, OrderInv, LayerIsFree, TrackedUnstopped, VictimIsFree, Unstopped,
              LoopPhases
<1> QED BY <1>1, <1>2, <1>3, <1>4, <1>5, <1>6, <1>7, <1>8 DEF Next, ExecutorStep, Shutdown

(* Reverse order of shutdown: when a service is being stopped, no process  *)
(* of a service that depends on it is still supervised, whatever graph was *)
(* running and whichever services had already exited.                      *)
THEOREM StopsInOrder ==
    ASSUME Clients = {}
    PROVE  Spec => []StopOrder
<1>1. Init => OrderInv
  BY DEF Init, OrderInv, LayerIsFree, TrackedUnstopped, VictimIsFree, Unstopped, LoopPhases
<1>2. IndInv /\ BootInv /\ StatusInv /\ OrderInv /\ [Next]_vars => OrderInv'
  BY StepOrderInv
<1>3. OrderInv => StopOrder
  BY DEF OrderInv, VictimIsFree, StopOrder
<1> QED BY <1>1, <1>2, <1>3, StatusInvariance, PTL DEF Spec
=============================================================================
