---------------------------- MODULE StatusProofs ----------------------------
(* Theorems about what the loop reports of a boot without control requests *)
(* (Clients = {}): the status is live, the count of finished services is   *)
(* exact, a failure is final, and the ready marker means that every        *)
(* service is through; for every graph, set of pids and restart budget.    *)
EXTENDS BootProofs

Up   == {"Running", "Ready"}
Down == {"Exited", "Failed"}

\* A name has at most one process.
OneProcess == \A n \in Names : \A p, q \in PidsOf(n) : p = q

\* A service that ran and has had no news still has its process.
SilentHasProcess ==
    pc \in LoopPhases => \A n \in spawned \ ready_reported : PidsOf(n) # {}

\* The state follows from the history: unstarted services are Pending, or
\* Failed once skipped; started ones never go back.
StateExact ==
    \A s \in Services :
        /\ s \in spawned => svc_state[s] \in Up \cup Down
        /\ s \notin spawned =>
             svc_state[s] = IF verdict[s] = "none" THEN "Pending" ELSE "Failed"

\* Nothing that could be started is missing from the queue.
QueueComplete ==
    pc \in LoopPhases =>
        \A s \in Services :
            in_degree[s] = 0 /\ s \notin spawned /\ verdict[s] = "none" => s \in to_start

StatusInv ==
    OneProcess /\ StatusLive /\ SilentHasProcess /\ StateExact /\ CompletedExact /\ QueueComplete

-----------------------------------------------------------------------------
USE DEF vars, dataVars, kernelVars, tableVars, orderVars, bookVars, readyVars,
        ctlVars, defVars, haltVars, stopFrame, execFrame

(* A spawn for a name that has no process, or into the pid just reaped     *)
(* from it, leaves it with exactly one, which is the pid reported.         *)
LEMMA SpawnOne ==
    ASSUME TypeOK, NEW n \in Names, NEW reaped \in SUBSET Pids, Spawn(n, reaped),
           PidsOf(n) = reaped,
           \A p \in Pids : proc[p] = "free" <=> pid_to_name[p] = NONE
    PROVE  /\ \E p \in Pids : PidsOf(n)' = {p} /\ shared_pid'[n] = p
           /\ \A k \in Names \ {n} : /\ PidsOf(k)' = PidsOf(k)
                                     /\ shared_pid'[k] = shared_pid[k]
                                     /\ svc_state'[k] = svc_state[k]
           /\ svc_state'[n] = "Running"
           /\ spawned' = spawned \cup {n}
<1>1. PICK p \in FreePids \cup reaped :
          /\ pid_to_name' = [q \in Pids |-> IF q = p THEN n
                                ELSE IF q \in reaped THEN NONE ELSE pid_to_name[q]]
          /\ svc_state' = [svc_state EXCEPT ![n] = "Running"]
          /\ shared_pid' = [shared_pid EXCEPT ![n] = p]
          /\ spawned' = spawned \cup {n}
  BY DEF Spawn
<1>2. p \in Pids /\ pid_to_name[p] \in {n, NONE} /\ \A q \in reaped : pid_to_name[q] = n
  BY DEF FreePids, PidsOf
<1>3. NONE \notin Names
  BY ConstantShape
<1>4. PidsOf(n)' = {p}
  BY <1>1, <1>2, <1>3 DEF PidsOf
<1>5. \A k \in Names \ {n} : PidsOf(k)' = PidsOf(k)
  BY <1>1, <1>2, <1>3 DEF PidsOf
<1> QED BY <1>1, <1>2, <1>4, <1>5 DEF TypeOK

\* The same pids, the same processes of every name.
LEMMA PidsOfUnchanged == ASSUME UNCHANGED pid_to_name PROVE \A n : PidsOf(n)' = PidsOf(n)
BY DEF PidsOf

\* A service that goes down counts once.
LEMMA CountsDown ==
    ASSUME CompletedExact, NEW n \in Services, svc_state[n] \notin Down, svc_state'[n] \in Down,
           \A s \in Services \ {n} : svc_state'[s] = svc_state[s], completed' = completed + 1
    PROVE  CompletedExact'
<1> DEFINE D  == {s \in Services : svc_state[s] \in Down}
           DN == {s \in Services : svc_state'[s] \in Down}
<1>1. IsFiniteSet(D)
  BY GraphShape, FS_Subset
<1>2. n \notin D /\ DN = D \cup {n}
  OBVIOUS
<1>3. Cardinality(DN) = Cardinality(D) + 1
  BY <1>1, <1>2, FS_AddElement
<1> QED BY <1>3 DEF CompletedExact, Down

\* And nothing else does.
LEMMA CountsKept ==
    ASSUME CompletedExact, completed' = completed,
           \A s \in Services : svc_state'[s] \in Down <=> svc_state[s] \in Down
    PROVE  CompletedExact'
<1> DEFINE D  == {s \in Services : svc_state[s] \in Down}
           DN == {s \in Services : svc_state'[s] \in Down}
<1>1. DN = D
  OBVIOUS
<1> QED BY <1>1 DEF CompletedExact, Down

\* mark_ready queues every service whose last dependency it releases.
LEMMA MarkKeepsQueue ==
    ASSUME TypeOK, QueueComplete, pc \in LoopPhases, NEW n \in Names, NEW news \in {"good", "bad"},
           NEW queue, to_start \ {n} \subseteq queue, MarkReady(n, news, queue), UNCHANGED spawned,
           n \notin spawned => verdict'[n] # "none"
    PROVE  QueueComplete'
<1> SUFFICES ASSUME NEW s \in Services, in_degree'[s] = 0, s \notin spawned, verdict'[s] = "none"
             PROVE s \in to_start'
  BY DEF QueueComplete
<1>1. s # n /\ s \in Names /\ verdict[s] = "none"
  BY DEF MarkReady, TypeOK, Names
<1>2. CASE in_degree[s] = 0
  BY <1>1, <1>2 DEF QueueComplete, MarkReady
<1>3. CASE in_degree[s] # 0
  <2>1. s \in dependents(n) /\ in_degree[s] = 1
    BY <1>3 DEF MarkReady, DecrementDependents, TypeOK
  <2> QED BY <2>1 DEF MarkReady, NewlyReady
<1> QED BY <1>2, <1>3

-----------------------------------------------------------------------------
(* The steps that the status does not notice, and those that leave the     *)
(* loop for good, after which only the history has to stay exact.          *)
StillStep ==
    /\ UNCHANGED <<tableVars, in_degree, to_start, verdict, ready_reported, completed>>
    /\ pc' \in LoopPhases => pc \in LoopPhases

LeaveStep ==
    /\ pc' \notin LoopPhases
    /\ UNCHANGED <<svc_state, spawned, verdict, completed>>
    /\ \A p \in Pids : pid_to_name'[p] \in {pid_to_name[p], NONE}

\* Neither kind disturbs the invariant.
LEMMA StillKeeps == ASSUME TypeOK, StatusInv, StillStep \/ LeaveStep PROVE StatusInv'
<1>1. CASE StillStep
  <2>1. \A n : PidsOf(n)' = PidsOf(n)
    BY <1>1, PidsOfUnchanged DEF StillStep
  <2>2. CompletedExact'
    BY <1>1, CountsKept DEF StillStep, StatusInv
  <2> QED BY <1>1, <2>1, <2>2 DEF StillStep, StatusInv, OneProcess, StatusLive, SilentHasProcess,
              StateExact, QueueComplete
<1>2. CASE LeaveStep
  <2>1. \A n \in Names : PidsOf(n)' \subseteq PidsOf(n)
    BY <1>2, ConstantShape DEF LeaveStep, PidsOf
  <2>2. CompletedExact'
    BY <1>2, CountsKept DEF LeaveStep, StatusInv
  <2>3. StatusLive' /\ SilentHasProcess' /\ QueueComplete'
    BY <1>2 DEF LeaveStep, StatusLive, SilentHasProcess, QueueComplete
  <2>4. OneProcess' /\ StateExact'
    BY <1>2, <2>1 DEF LeaveStep, StatusInv, OneProcess, StateExact
  <2> QED BY <2>2, <2>3, <2>4 DEF StatusInv
<1> QED BY <1>1, <1>2

\* Readiness of a service that had no news: it still has its process.
LEMMA ReadyKeepsStatus ==
    ASSUME IndInv, BootInv, StatusInv, NEW n \in Services, ReceiveReady(n)
    PROVE  StatusInv' /\ (svc_state[n] = "Failed" => svc_state' = svc_state)
<1> USE DEF IndInv
<1>1. /\ pc \in LoopPhases /\ n \in spawned /\ n \in Names
      /\ UNCHANGED <<pid_to_name, shared_pid, spawned, completed>>
      /\ ready_reported' = ready_reported \cup {n}
      /\ Release(n, "good")
  BY DEF ReceiveReady, Release, BootInv, NewsFromSpawned, LoopPhases, Names
<1>2. \A k : PidsOf(k)' = PidsOf(k)
  BY <1>1, PidsOfUnchanged
<1>3. CASE n \in ready_reported
  <2>1. UNCHANGED <<svc_state, orderVars, ready_reported>>
    BY <1>1, <1>3 DEF ReceiveReady, Release, FirstReport
  <2>2. StillStep
    BY <1>1, <2>1 DEF StillStep
  <2> QED BY <2>1, <2>2, StillKeeps
<1>4. CASE n \notin ready_reported
  <2>1. PidsOf(n) # {} /\ svc_state[n] \in Up
    BY <1>1, <1>4 DEF StatusInv, SilentHasProcess, StatusLive, Up
  <2>2. \A k \in Names : svc_state'[k] = IF k = n THEN "Ready" ELSE svc_state[k]
    BY <1>1, <1>4 DEF ReceiveReady, FirstReport, TypeOK
  <2>3. MarkReady(n, "good", to_start)
    BY <1>1, <1>4 DEF Release, FirstReport
  <2>4. \A k \in Names : k # n => verdict'[k] = verdict[k]
    BY <2>3 DEF MarkReady, TypeOK
  <2>5. QueueComplete'
    BY <1>1, <2>3, MarkKeepsQueue DEF StatusInv
  <2>6. CompletedExact'
    <3>1. \A s \in Services : svc_state'[s] \in Down <=> svc_state[s] \in Down
      BY <2>1, <2>2 DEF Names, Up, Down
    <3> QED BY <1>1, <3>1, CountsKept DEF StatusInv
  <2>7. StateExact'
    BY <1>1, <2>2, <2>4 DEF StatusInv, StateExact, Names, Up
  <2>8. OneProcess' /\ StatusLive' /\ SilentHasProcess'
    BY <1>1, <1>2, <2>1, <2>2
    DEF StatusInv, OneProcess, StatusLive, SilentHasProcess, TypeOK
  <2> QED BY <2>1, <2>5, <2>6, <2>7, <2>8 DEF StatusInv, Up
<1> QED BY <1>3, <1>4

\* A blocked service is Pending; it goes down without a process.
LEMMA SkipKeepsStatus ==
    ASSUME IndInv, BootInv, StatusInv, NEW n \in Services, LaunchBlocked(n)
    PROVE  /\ StatusInv'
           /\ \A s \in Services : svc_state[s] = "Failed" => svc_state'[s] = "Failed"
<1> USE DEF IndInv
<1>1. /\ pc \in LoopPhases /\ n \in Names /\ n \notin spawned /\ verdict[n] = "none"
      /\ UNCHANGED <<pc, pid_to_name, spawned, ready_reported>>
      /\ MarkReady(n, "bad", to_start \ {n})
      /\ SetDown(n, "Failed") /\ completed' = completed + 1
  BY DEF LaunchBlocked, BootInv, QueuedFresh, LoopPhases, Names
<1>2. \A k : PidsOf(k)' = PidsOf(k)
  BY <1>1, PidsOfUnchanged
<1>3. PidsOf(n) = {} /\ svc_state[n] = "Pending"
  BY <1>1, ConstantShape DEF BootInv, NewsFromSpawned, PidsOf, StatusInv, StateExact
<1>4. \A k \in Names : /\ svc_state'[k] = IF k = n THEN "Failed" ELSE svc_state[k]
                       /\ shared_pid'[k] = IF k = n THEN NONE ELSE shared_pid[k]
                       /\ verdict'[k] = IF k = n THEN "bad" ELSE verdict[k]
  BY <1>1 DEF SetDown, MarkReady, TypeOK
<1>5. QueueComplete'
  BY <1>1, <1>4, MarkKeepsQueue DEF StatusInv
<1>6. CompletedExact'
  BY <1>1, <1>3, <1>4, CountsDown DEF StatusInv, Down, Names
<1>7. StateExact'
  BY <1>1, <1>4 DEF StatusInv, StateExact, Names
<1>8. OneProcess' /\ StatusLive' /\ SilentHasProcess'
  BY <1>1, <1>2, <1>3, <1>4 DEF StatusInv, OneProcess, StatusLive, SilentHasProcess
<1> QED BY <1>4, <1>5, <1>6, <1>7, <1>8 DEF StatusInv, Names

\* The three places where a service has its process replaced or gets one.
LEMMA SpawnKeepsStatus ==
    ASSUME IndInv, BootInv, StatusInv, NEW n \in Services, NEW reaped \in SUBSET Pids,
           Spawn(n, reaped), PidsOf(n) = reaped, svc_state[n] \notin Down,
           pc \in LoopPhases,
           UNCHANGED <<pc, in_degree, verdict, ready_reported, completed>>,
           to_start \ {n} \subseteq to_start'
    PROVE  StatusInv' /\ \A s \in Services : svc_state[s] = "Failed" => svc_state'[s] = "Failed"
<1> USE DEF IndInv
<1>1. n \in Names
  BY DEF Names
<1>2. /\ \E p \in Pids : PidsOf(n)' = {p} /\ shared_pid'[n] = p
      /\ \A k \in Names \ {n} : /\ PidsOf(k)' = PidsOf(k)
                                /\ shared_pid'[k] = shared_pid[k]
                                /\ svc_state'[k] = svc_state[k]
      /\ svc_state'[n] = "Running"
      /\ spawned' = spawned \cup {n}
  BY <1>1, SpawnOne DEF ChildrenTracked
<1>3. PICK p \in Pids : PidsOf(n)' = {p} /\ shared_pid'[n] = p
  BY <1>2
<1>4. CompletedExact'
  <2>1. \A s \in Services : svc_state'[s] \in Down <=> svc_state[s] \in Down
    BY <1>1, <1>2 DEF Names, Down
  <2> QED BY <2>1, CountsKept DEF StatusInv
<1>5. OneProcess' /\ StatusLive'
  BY <1>1, <1>2, <1>3 DEF StatusInv, OneProcess, StatusLive
<1>6. SilentHasProcess'
  BY <1>1, <1>2, <1>3 DEF StatusInv, SilentHasProcess, TypeOK
<1>7. StateExact'
  BY <1>1, <1>2 DEF StatusInv, StateExact, Names, Up
<1>8. QueueComplete'
  BY <1>2 DEF StatusInv, QueueComplete
<1> QED BY <1>1, <1>2, <1>4, <1>5, <1>6, <1>7, <1>8 DEF StatusInv, Names, Down

\* A child that is collected is the only process of a service that is up.
LEMMA CollectedIsUp ==
    ASSUME IndInv, BootInv, StatusInv, NEW p \in Pids, Collected(p)
    PROVE  \E n \in Services : /\ n = pid_to_name[p] /\ PidsOf(n) = {p} /\ n \in spawned
                               /\ svc_state[n] \in Up /\ pc \in LoopPhases
<1>1. pid_to_name[p] \in spawned /\ pid_to_name[p] \in Names /\ pc = "poll"
  BY CollectedRan DEF Collected
<1>2. PICK n \in Services : n = pid_to_name[p]
  BY <1>1 DEF BootInv, PastDependencies
<1>3. PidsOf(n) = {p}
  BY <1>1, <1>2 DEF StatusInv, OneProcess, PidsOf
<1> QED BY <1>1, <1>2, <1>3 DEF StatusInv, StatusLive, LoopPhases, Up

\* The last process of a service is gone: it goes down, and counts.
LEMMA ExitKeepsStatus ==
    ASSUME IndInv, BootInv, StatusInv, NEW p \in Pids, FinalExit(p)
    PROVE  StatusInv' /\ \A s \in Services : svc_state[s] = "Failed" => svc_state'[s] = "Failed"
<1> USE DEF IndInv
<1>1. PICK n \in Services : /\ n = pid_to_name[p] /\ PidsOf(n) = {p} /\ n \in spawned
                            /\ svc_state[n] \in Up /\ pc \in LoopPhases
  BY CollectedIsUp DEF FinalExit
<1>2. n \in Names
  BY DEF Names
<1>3. PICK news \in {"good", "bad"}, down \in Down :
          /\ Release(n, news) /\ SetDown(n, down) /\ Reap(p)
          /\ completed' = completed + 1 /\ UNCHANGED <<pc, spawned>>
  BY <1>1 DEF FinalExit, Down
<1>4. PidsOf(n)' = {} /\ \A k \in Names \ {n} : PidsOf(k)' = PidsOf(k)
  BY <1>1, <1>2, <1>3, ConstantShape DEF Reap, PidsOf, TypeOK
<1>5. \A k \in Names : /\ svc_state'[k] = IF k = n THEN down ELSE svc_state[k]
                       /\ shared_pid'[k] = IF k = n THEN NONE ELSE shared_pid[k]
  BY <1>2, <1>3 DEF SetDown, TypeOK
<1>6. /\ ready_reported' = ready_reported \cup {n}
      /\ \A k \in Names : k # n => verdict'[k] = verdict[k]
  BY <1>2, <1>3 DEF Release, MarkReady, TypeOK
<1>7. QueueComplete'
  <2>1. CASE FirstReport(n)
    BY <1>1, <1>2, <1>3, <2>1, MarkKeepsQueue DEF Release, StatusInv
  <2>2. CASE ~FirstReport(n)
    BY <1>3, <2>2 DEF Release, StatusInv, QueueComplete
  <2> QED BY <2>1, <2>2
<1>8. CompletedExact'
  BY <1>1, <1>2, <1>3, <1>5, CountsDown DEF StatusInv, Up, Down, Names
<1>9. StateExact'
  BY <1>1, <1>3, <1>5, <1>6 DEF StatusInv, StateExact, Names
<1>10. OneProcess' /\ StatusLive' /\ SilentHasProcess'
  BY <1>1, <1>2, <1>3, <1>4, <1>5, <1>6
  DEF StatusInv, OneProcess, StatusLive, SilentHasProcess, Down, TypeOK
<1> QED BY <1>1, <1>5, <1>7, <1>8, <1>9, <1>10 DEF StatusInv, Up, Names

\* Every step without clients keeps the invariant and every failure.
LEMMA StepStatusInv ==
    ASSUME Clients = {}, IndInv, BootInv, StatusInv, [Next]_vars
    PROVE  StatusInv' /\ \A s \in Services : svc_state[s] = "Failed" => svc_state'[s] = "Failed"
<1> USE DEF IndInv
<1> DEFINE Goal == StatusInv' /\ \A s \in Services : svc_state[s] = "Failed" => svc_state'[s] = "Failed"
<1>1. CASE StillStep \/ LeaveStep
  BY <1>1, StillKeeps DEF StillStep, LeaveStep
<1>2. CASE \/ UNCHANGED vars \/ BeginIteration \/ EndCommands \/ EndDrain \/ EndLaunch \/ Timeout
           \/ EndPoll \/ (\E p \in Pids : PollAlive(p)) \/ Terminated
  <2>1. StillStep
    BY <1>2 DEF BeginIteration, EndCommands, EndDrain, EndLaunch, Timeout, EndPoll, PollAlive,
                Terminated, StillStep, LoopPhases
  <2> QED BY <1>1, <2>1
<1>3. CASE Finish \/ (\E n \in Services : LaunchError(n)) \/ (\E p \in Pids : RestartError(p))
  <2>1. LeaveStep
    BY <1>3 DEF Finish, LaunchError, RestartError, Reap, LeaveStep, LoopPhases, TypeOK
  <2> QED BY <1>1, <2>1
<1>4. ASSUME NEW m \in cmd_rx PROVE FALSE
  BY DEF BootInv, NoCommands
<1>5. ASSUME NEW n \in Services, ReceiveReady(n) PROVE Goal
  <2>1. \A s \in Services : svc_state'[s] # svc_state[s] => s = n
    BY <1>5 DEF ReceiveReady, TypeOK
  <2> QED BY <1>5, <2>1, ReadyKeepsStatus
<1>6. ASSUME NEW n \in Services, LaunchBlocked(n) PROVE Goal
  BY <1>6, SkipKeepsStatus
<1>7. ASSUME NEW n \in Services, LaunchSpawn(n) PROVE Goal
  <2>1. n \notin spawned /\ verdict[n] = "none"
    BY <1>7 DEF LaunchSpawn, BootInv, QueuedFresh
  <2>2. PidsOf(n) = {} /\ svc_state[n] \notin Down
    BY <2>1, ConstantShape DEF BootInv, NewsFromSpawned, PidsOf, StatusInv, StateExact, Down, Names
  <2>3. /\ Spawn(n, {}) /\ pc \in LoopPhases /\ to_start' = to_start \ {n}
        /\ UNCHANGED <<pc, in_degree, verdict, ready_reported, completed>>
    BY <1>7 DEF LaunchSpawn, LoopPhases
  <2> QED BY <2>2, <2>3, SpawnKeepsStatus
<1>8. ASSUME NEW p \in Pids, ManualRespawn(p) PROVE FALSE
  BY <1>8 DEF ManualRespawn, BootInv, NoCommands
<1>9. ASSUME NEW p \in Pids, AutoRestart(p) PROVE Goal
  <2>1. PICK n \in Services : /\ n = pid_to_name[p] /\ PidsOf(n) = {p} /\ n \in spawned
                              /\ svc_state[n] \in Up /\ pc \in LoopPhases
    BY <1>9, CollectedIsUp DEF AutoRestart
  <2>2. Spawn(n, {p}) /\ UNCHANGED <<pc, in_degree, to_start, verdict, ready_reported, completed>>
    BY <1>9, <2>1 DEF AutoRestart
  <2>3. svc_state[n] \notin Down
    BY <2>1 DEF Up, Down
  <2> QED BY <2>1, <2>2, <2>3, SpawnKeepsStatus
<1>10. ASSUME NEW p \in Pids, FinalExit(p) PROVE Goal
  BY <1>10, ExitKeepsStatus
<1>11. CASE Shutdown
  <2>1. LeaveStep
    BY <1>11 DEF Shutdown, BeginShutdown, NextLayer, StopTerm, StopReap, StopDeadline, KillGiveUp,
           BeginStragglers, StragglerTerm, StragglerReap, StragglerKill, EndShutdown, Reap,
           LeaveStep, LoopPhases, TypeOK
  <2> QED BY <1>1, <2>1
<1>12. CASE Ctl
  BY <1>12 DEF Ctl
<1>13. CASE World
  <2>1. StillStep
    BY <1>13 DEF World, Exit, WatcherSignals, ShutdownSignal, EditFile, StillStep
  <2> QED BY <1>1, <2>1
<1> QED BY <1>2, <1>3, <1>4, <1>5, <1>6, <1>7, <1>8, <1>9, <1>10, <1>11, <1>12, <1>13
        DEF Next, ExecutorStep, Loop

\* At the start every service is Pending, and nothing is counted.
LEMMA InitStatusInv == Init => StatusInv
<1> SUFFICES ASSUME Init PROVE StatusInv
  OBVIOUS
<1>1. \A n \in Names : PidsOf(n) = {}
  BY ConstantShape DEF Init, PidsOf
<1>2. CompletedExact
  <2>1. {s \in Services : svc_state[s] \in {"Exited", "Failed"}} = {}
    BY DEF Init, Names
  <2> QED BY <2>1, FS_EmptySet DEF Init, CompletedExact
<1>3. OneProcess /\ StatusLive /\ SilentHasProcess
  BY <1>1 DEF Init, OneProcess, StatusLive, SilentHasProcess
<1>4. StateExact /\ QueueComplete
  BY DEF Init, StateExact, QueueComplete, initially_ready, Names
<1> QED BY <1>2, <1>3, <1>4 DEF StatusInv

\* So the boot invariant and the status invariant hold throughout.
LEMMA StatusInvariance ==
    ASSUME Clients = {}
    PROVE  Spec => [](IndInv /\ BootInv /\ StatusInv)
<1>1. IndInv /\ BootInv /\ StatusInv /\ [Next]_vars => StatusInv'
  BY StepStatusInv
<1> QED BY <1>1, BootInvariance, InitStatusInv, PTL DEF Spec

(* The status the control socket reports is live: whatever the order of    *)
(* readiness messages, crashes and restarts, a service is reported running *)
(* or ready exactly while it has a process, and the pid is that process.   *)
THEOREM StatusIsLive ==
    ASSUME Clients = {}
    PROVE  Spec => []StatusLive
<1>1. StatusInv => StatusLive
  BY DEF StatusInv
<1> QED BY <1>1, StatusInvariance, PTL

(* `completed` counts each finished service exactly once: no restart, late *)
(* readiness message or block counts a service twice or misses one, so the *)
(* loop's exit test means what it says.                                    *)
THEOREM CompletedIsExact ==
    ASSUME Clients = {}
    PROVE  Spec => []CompletedExact
<1>1. StatusInv => CompletedExact
  BY DEF StatusInv
<1> QED BY <1>1, StatusInvariance, PTL

(* A permanently failed service stays failed: neither a readiness message  *)
(* still in the channel nor a restart brings it back.                      *)
THEOREM FailuresAreFinal ==
    ASSUME Clients = {}
    PROVE  Spec => FailedIsFinal
<1>1. IndInv /\ BootInv /\ StatusInv /\ [Next]_vars =>
        [\A s \in Services : svc_state[s] = "Failed" => svc_state'[s] = "Failed"]_vars
  BY StepStatusInv
<1> QED BY <1>1, StatusInvariance, PTL DEF Spec, FailedIsFinal

-----------------------------------------------------------------------------
\* Every nonempty collection of subsets of a finite set has a minimal one.
LEMMA MinimalSubset ==
    ASSUME NEW S, IsFiniteSet(S), NEW T \in SUBSET (SUBSET S), T # {}
    PROVE  \E x \in T : \A y \in T : y \subseteq x => y = x
<1>1. IsWellFoundedOn(StrictSubsetOrdering(S), SUBSET S)
  BY FS_StrictSubsetOrderingWellFounded, FS_FiniteSubsetsOfFinite
<1>2. PICK x \in T : \A y \in T : ~ (<<y, x>> \in StrictSubsetOrdering(S))
  <2> HIDE DEF IsWellFoundedOn
  <2> QED BY <1>1, WFMin
<1> QED BY <1>2 DEF StrictSubsetOrdering

(* Because the graph has a topological numbering, among any services one   *)
(* waits for none of the others. The sets of services numbered below each  *)
(* are compared by inclusion.                                              *)
LEMMA SomeServiceIsFirst ==
    ASSUME NEW U \in SUBSET Services, U # {}
    PROVE  \E s \in U : Deps(s) \cap U = {}
<1>1. PICK rank \in [Services -> 0..Cardinality(Services)] :
          \A s \in Services : \A d \in Deps(s) : rank[d] < rank[s]
  BY Acyclic
<1>2. \A s \in Services : rank[s] \in Nat
  <2>1. Cardinality(Services) \in Nat
    BY GraphShape, FS_CardinalityType
  <2> QED BY <1>1, <2>1
<1> DEFINE Below(s) == {v \in Services : rank[v] < rank[s]}
           T == {Below(s) : s \in U}
<1>3. \E x \in T : \A y \in T : y \subseteq x => y = x
  <2>1. T \in SUBSET (SUBSET Services) /\ T # {}
    OBVIOUS
  <2> HIDE DEF T
  <2> QED BY <2>1, GraphShape, MinimalSubset
<1>4. PICK s \in U : \A t \in U : Below(t) \subseteq Below(s) => Below(t) = Below(s)
  <2> HIDE DEF Below
  <2> QED BY <1>3
<1>5. ASSUME NEW d \in Deps(s) \cap U PROVE FALSE
  <2>1. d \in Services /\ s \in Services /\ rank[d] < rank[s]
    BY <1>1 DEF Deps
  <2>2. Below(d) \subseteq Below(s)
    BY <1>2, <2>1
  <2>3. d \in Below(s) /\ d \notin Below(d)
    BY <1>2, <2>1
  <2> QED BY <1>4, <2>2, <2>3
<1> QED BY <1>5

(* The loop's second exit test, no child left and nothing queued, can only *)
(* be met when every service has been released: otherwise the first of the *)
(* unreleased ones would be in the queue, or would have its process.       *)
LEMMA NoChildMeansAllReleased ==
    ASSUME IndInv, BootInv, StatusInv, pc \in LoopPhases, to_start = {}, Tracked = {}
    PROVE  \A s \in Services : verdict[s] # "none"
<1> SUFFICES ASSUME {s \in Services : verdict[s] = "none"} # {} PROVE FALSE
  OBVIOUS
<1>1. PICK s \in Services : verdict[s] = "none" /\ {d \in Deps(s) : verdict[d] = "none"} = {}
  <2> DEFINE U == {s \in Services : verdict[s] = "none"}
  <2>1. PICK s \in U : Deps(s) \cap U = {}
    BY SomeServiceIsFirst
  <2>2. {d \in Deps(s) : verdict[d] = "none"} = {}
    BY <2>1 DEF Deps
  <2> QED BY <2>1, <2>2
<1>2. in_degree[s] = 0
  BY <1>1, FS_EmptySet DEF BootInv, InDegreeExact
<1>3. PidsOf(s) = {}
  BY ConstantShape DEF PidsOf, Tracked, Names
<1>4. s \notin spawned
  BY <1>1, <1>3 DEF StatusInv, SilentHasProcess, BootInv, ReportedExact
<1> QED BY <1>1, <1>2, <1>4 DEF StatusInv, QueueComplete

\* When the loop is left, every service is through and no child is left.
AllThrough ==
    /\ \A p \in Pids : proc[p] = "free"
    /\ \A s \in Services : svc_state[s] \in Down

\* Both exit tests mean that.
LEMMA NothingLeftMeansThrough ==
    ASSUME IndInv, BootInv, StatusInv, pc \in LoopPhases, to_start = {}, NothingLeft
    PROVE  AllThrough
<1> DEFINE D == {s \in Services : svc_state[s] \in Down}
<1>1. \A s \in Services : svc_state[s] \in Down
  <2>1. CASE completed >= Cardinality(Services)
    <3>1. D \subseteq Services /\ Cardinality(D) = completed
      BY DEF StatusInv, CompletedExact, Down
    <3>2. /\ Cardinality(D) \in Nat /\ Cardinality(Services) \in Nat
          /\ Cardinality(D) <= Cardinality(Services)
          /\ Cardinality(D) = Cardinality(Services) => D = Services
      BY <3>1, GraphShape, FS_Subset, FS_CardinalityType
    <3>3. D = Services
      BY <2>1, <3>1, <3>2
    <3> QED BY <3>3
  <2>2. CASE Tracked = {}
    <3> SUFFICES ASSUME NEW s \in Services PROVE svc_state[s] \in Down
      OBVIOUS
    <3>1. verdict[s] # "none"
      BY <2>2, NoChildMeansAllReleased
    <3>2. PidsOf(s) = {} /\ s \in Names
      BY <2>2, ConstantShape DEF PidsOf, Tracked, Names
    <3>3. svc_state[s] \notin Up
      BY <3>2 DEF StatusInv, StatusLive, Up
    <3> QED BY <3>1, <3>3 DEF StatusInv, StateExact, Down
  <2> QED BY <2>1, <2>2 DEF NothingLeft
<1>2. ASSUME NEW p \in Pids PROVE proc[p] = "free"
  <2> SUFFICES ASSUME proc[p] # "free" PROVE FALSE
    OBVIOUS
  <2>1. pid_to_name[p] \in spawned /\ pid_to_name[p] \in Names
    BY DEF IndInv, TypeOK, ChildrenTracked, BootInv, NewsFromSpawned
  <2>2. pid_to_name[p] \in Services
    BY <2>1 DEF BootInv, PastDependencies
  <2>3. p \in PidsOf(pid_to_name[p])
    BY DEF PidsOf
  <2>4. svc_state[pid_to_name[p]] \in Up
    BY <2>1, <2>3 DEF StatusInv, StatusLive, Up
  <2> QED BY <1>1, <2>2, <2>4 DEF Up, Down
<1> QED BY <1>1, <1>2 DEF AllThrough

\* The marker is written on the way out of the loop, and nothing moves after it.
FinishInv ==
    /\ marker => pc = "done"
    /\ pc = "finish" \/ marker => AllThrough

\* Every step keeps that.
LEMMA StepFinishInv ==
    ASSUME Clients = {}, IndInv, BootInv, StatusInv, FinishInv, [Next]_vars
    PROVE  FinishInv'
<1> USE DEF IndInv
<1>1. CASE EndLaunch
  <2>1. CASE NothingLeft
    <3>1. AllThrough
      BY <1>1, <2>1, NothingLeftMeansThrough DEF EndLaunch, LoopPhases
    <3> QED BY <1>1, <3>1 DEF EndLaunch, FinishInv, AllThrough
  <2>2. CASE ~NothingLeft
    BY <1>1, <2>2 DEF EndLaunch, FinishInv
  <2> QED BY <2>1, <2>2
<1>2. CASE Finish
  BY <1>2 DEF Finish, FinishInv, AllThrough
<1>3. ASSUME pc' # "finish", pc # "done", UNCHANGED marker PROVE FinishInv'
  BY <1>3 DEF FinishInv
<1>4. ASSUME UNCHANGED <<pc, marker, proc, svc_state>> PROVE FinishInv'
  BY <1>4 DEF FinishInv, AllThrough
<1>5. CASE \/ UNCHANGED vars \/ Terminated \/ Ctl
           \/ (\E n \in Watched : WatcherSignals(n)) \/ ShutdownSignal
           \/ (\E e \in Edits : EditFile(e[1], e[2]))
  BY <1>4, <1>5 DEF Terminated, Ctl, WatcherSignals, ShutdownSignal, EditFile
<1>6. ASSUME NEW p \in Pids, NEW status \in Statuses, Exit(p, status) PROVE FinishInv'
  BY <1>6 DEF Exit, FinishInv, AllThrough
<1>7. CASE \/ BeginIteration \/ EndCommands \/ EndDrain \/ Timeout \/ EndPoll
           \/ (\E n \in Services : \/ ReceiveReady(n) \/ LaunchBlocked(n)
                                   \/ LaunchSpawn(n) \/ LaunchError(n))
  BY <1>3, <1>7 DEF BeginIteration, EndCommands, EndDrain, Timeout, EndPoll, ReceiveReady,
           LaunchBlocked, LaunchSpawn, LaunchError
<1>8. CASE \E p \in Pids : \/ PollAlive(p) \/ ManualRespawn(p) \/ AutoRestart(p)
                           \/ RestartError(p) \/ FinalExit(p)
  BY <1>3, <1>8 DEF PollAlive, ManualRespawn, AutoRestart, RestartError, FinalExit, Collected
<1>9. ASSUME NEW m \in cmd_rx PROVE FALSE
  BY DEF BootInv, NoCommands
<1>10. CASE Shutdown
  BY <1>3, <1>10 DEF Shutdown, BeginShutdown, NextLayer, StopTerm, StopReap, StopDeadline,
           KillGiveUp, BeginStragglers, StragglerTerm, StragglerReap, StragglerKill, EndShutdown
<1> QED BY <1>1, <1>2, <1>5, <1>6, <1>7, <1>8, <1>9, <1>10
        DEF Next, ExecutorStep, Loop, World

(* The ready marker is written only when every service has exited or       *)
(* failed and no child is left, whatever the graph: with an acyclic graph  *)
(* an empty queue and no child mean that nothing was forgotten.            *)
THEOREM MarkerMeansClean ==
    ASSUME Clients = {}
    PROVE  Spec => []CleanExit
<1>1. Init => FinishInv
  BY DEF Init, FinishInv
<1>2. IndInv /\ BootInv /\ StatusInv /\ FinishInv /\ [Next]_vars => FinishInv'
  BY StepFinishInv
<1>3. FinishInv => CleanExit
  BY DEF FinishInv, AllThrough, CleanExit, Down
<1> QED BY <1>1, <1>2, <1>3, StatusInvariance, PTL DEF Spec
=============================================================================
