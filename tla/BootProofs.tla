----------------------------- MODULE BootProofs -----------------------------
(* Theorems about a boot without control requests (Clients = {}): services *)
(* start in dependency order, each is released once, and the loop          *)
(* implements BootOrder; for every graph, set of pids and restart budget.  *)
EXTENDS ExecutorProofs

\* Only the control socket queues commands and parks replies.
NoCommands == cmd_rx = {} /\ pending_restart = {}

\* A name in the queue waits for nothing, has had no process and no news.
QueuedFresh ==
    \A s \in to_start : in_degree[s] = 0 /\ s \notin spawned /\ verdict[s] = "none"

\* Whatever ran or was released is a service whose dependencies are released.
PastDependencies ==
    \A n \in Names : n \in spawned \/ verdict[n] # "none" => n \in Services /\ in_degree[n] = 0

\* blocked_services is the set of services with a hard dependency whose
\* first news was bad.
BlockedExact ==
    \A s \in Services : s \in blocked_services <=> \E d \in Needs[s] : verdict[d] = "bad"

\* ready_reported holds the services that ran and have been released.
ReportedExact ==
    /\ ready_reported \subseteq spawned
    /\ \A n \in spawned : n \in ready_reported <=> verdict[n] # "none"

\* News only comes from services that ran: watchers and children.
NewsFromSpawned ==
    /\ ready_rx \subseteq spawned
    /\ \A p \in Pids : pid_to_name[p] \in spawned \cup {NONE}

MarksExact == \A n \in Names : marks[n] = IF verdict[n] = "none" THEN 0 ELSE 1

BootInv ==
    /\ NoCommands /\ QueuedFresh /\ PastDependencies /\ BlockedExact
    /\ ReportedExact /\ NewsFromSpawned /\ MarksExact
    /\ InDegreeExact /\ StartedInOrder

-----------------------------------------------------------------------------
(* What a step can mean for the boot order: nothing, a service's news, a   *)
(* blocked service skipped, or a service started.                          *)
QuietStep ==
    /\ UNCHANGED <<in_degree, marks, verdict, ready_reported, blocked_services, spawned>>
    /\ to_start' \subseteq to_start
    /\ NoCommands' /\ NewsFromSpawned'

ReleaseStep(n, news) ==
    /\ n \in spawned
    /\ Release(n, news)
    /\ blocked_services' = IF news = "bad" /\ n \notin ready_reported
                              THEN blocked_services \cup needs_dependents(n)
                              ELSE blocked_services
    /\ UNCHANGED spawned
    /\ NoCommands' /\ NewsFromSpawned'

SkipStep(n) ==
    /\ n \in to_start /\ Blocked(n)
    /\ MarkReady(n, "bad", to_start \ {n})
    /\ blocked_services' = blocked_services \cup needs_dependents(n)
    /\ UNCHANGED <<ready_reported, spawned>>
    /\ NoCommands' /\ NewsFromSpawned'

StartStep(n) ==
    /\ n \in to_start /\ ~Blocked(n)
    /\ spawned' = spawned \cup {n}
    /\ to_start' = to_start \ {n}
    /\ UNCHANGED <<in_degree, marks, verdict, ready_reported, blocked_services>>
    /\ NoCommands' /\ NewsFromSpawned'

-----------------------------------------------------------------------------
USE DEF vars, dataVars, kernelVars, tableVars, orderVars, bookVars, readyVars,
        ctlVars, defVars, haltVars, stopFrame, execFrame

\* A finite set is empty exactly when its in-degree has reached zero.
LEMMA ZeroMeansReleased ==
    ASSUME InDegreeExact, NEW s \in Services, in_degree[s] = 0
    PROVE  \A d \in Deps(s) : verdict[d] # "none"
<1> DEFINE Open == {d \in Deps(s) : verdict[d] = "none"}
<1>1. IsFiniteSet(Open)
  <2>1. Open \subseteq Services
    BY DEF Deps
  <2> QED BY <2>1, GraphShape, FS_Subset
<1>2. Cardinality(Open) = 0
  BY DEF InDegreeExact
<1>3. Open = {}
  BY <1>1, <1>2, FS_EmptySet
<1> QED BY <1>3

(* mark_ready on a service that had no news keeps the counters exact: each *)
(* dependent loses the one unit that stood for it, and none is at zero.    *)
LEMMA MarkKeepsExact ==
    ASSUME TypeOK, InDegreeExact, NEW n \in Services, verdict[n] = "none",
           NEW news \in {"good", "bad"}, NEW queue, MarkReady(n, news, queue)
    PROVE  InDegreeExact'
<1> SUFFICES ASSUME NEW s \in Services
             PROVE in_degree'[s] = Cardinality({d \in Deps(s) : verdict'[d] = "none"})
  BY DEF InDegreeExact
<1> DEFINE Open  == {d \in Deps(s) : verdict[d] = "none"}
           OpenN == {d \in Deps(s) : verdict'[d] = "none"}
<1>1. IsFiniteSet(Open) /\ Deps(s) \subseteq Services
  <2>1. Open \subseteq Services
    BY DEF Deps
  <2> QED BY <2>1, GraphShape, FS_Subset DEF Deps
<1>2. in_degree[s] = Cardinality(Open) /\ in_degree[s] \in Nat
  BY DEF InDegreeExact, TypeOK
<1>3. \A d \in Services : verdict'[d] = IF d = n THEN news ELSE verdict[d]
  BY DEF MarkReady, TypeOK, Names
<1>4. OpenN = Open \ {n}
  BY <1>1, <1>3
<1>5. CASE n \in Deps(s)
  <2>1. n \in Open
    BY <1>5
  <2>2. Cardinality(OpenN) = Cardinality(Open) - 1
    BY <1>1, <1>4, <2>1, FS_RemoveElement
  <2>3. Cardinality(Open) # 0
    BY <1>1, <2>1, FS_EmptySet
  <2>4. in_degree'[s] = in_degree[s] - 1
    BY <1>2, <1>5, <2>3 DEF MarkReady, DecrementDependents, dependents
  <2> QED BY <1>2, <2>2, <2>4
<1>6. CASE n \notin Deps(s)
  <2>1. OpenN = Open
    BY <1>4, <1>6
  <2>2. in_degree'[s] = in_degree[s]
    BY <1>6 DEF MarkReady, DecrementDependents, dependents
  <2> QED BY <1>2, <2>1, <2>2
<1> QED BY <1>5, <1>6

\* The rest of the invariant across a mark_ready of a service without news.
LEMMA MarkKeepsOrder ==
    ASSUME TypeOK, BootInv, NEW n \in Services, verdict[n] = "none", in_degree[n] = 0,
           NEW news \in {"good", "bad"}, NEW queue, queue = to_start \ {n},
           MarkReady(n, news, queue), UNCHANGED spawned
    PROVE  QueuedFresh' /\ PastDependencies' /\ MarksExact' /\ StartedInOrder'
<1>1. \A m \in Names : verdict'[m] = IF m = n THEN news ELSE verdict[m]
  BY DEF MarkReady, TypeOK
<1>2. \A s \in Services : /\ in_degree[s] \in Nat
                          /\ in_degree[s] = 0 => in_degree'[s] = 0
                          /\ s \in dependents(n) /\ in_degree[s] = 1 => in_degree'[s] = 0
  BY DEF MarkReady, DecrementDependents, TypeOK
<1>3. QueuedFresh'
  <2> SUFFICES ASSUME NEW s \in to_start'
               PROVE in_degree'[s] = 0 /\ s \notin spawned /\ verdict'[s] = "none"
    BY DEF QueuedFresh
  <2>1. CASE s \in to_start \ {n}
    BY <2>1, <1>1, <1>2 DEF BootInv, QueuedFresh, TypeOK, Names
  <2>2. CASE s \in NewlyReady(in_degree, n)
    <3>1. s \in Services /\ s \in dependents(n) /\ in_degree[s] = 1
      BY <2>2 DEF NewlyReady, dependents
    <3>2. s \notin spawned /\ verdict[s] = "none"
      BY <3>1 DEF BootInv, PastDependencies, Names
    <3>3. s # n
      BY <3>1
    <3> QED BY <1>1, <1>2, <3>1, <3>2, <3>3 DEF Names
  <2> QED BY <2>1, <2>2 DEF MarkReady
<1>4. PastDependencies'
  BY <1>1, <1>2 DEF BootInv, PastDependencies
<1>5. MarksExact'
  BY <1>1 DEF BootInv, MarksExact, MarkReady, TypeOK
<1>6. StartedInOrder'
  BY <1>1 DEF BootInv, StartedInOrder, Deps, Names
<1> QED BY <1>3, <1>4, <1>5, <1>6

\* blocked_services stays exact when a failure is passed to the dependents,
\* and when the news was good.
LEMMA MarkKeepsBlocked ==
    ASSUME TypeOK, BootInv, NEW n \in Services, verdict[n] = "none",
           NEW news \in {"good", "bad"}, NEW queue, MarkReady(n, news, queue),
           blocked_services' = IF news = "bad" THEN blocked_services \cup needs_dependents(n)
                                               ELSE blocked_services
    PROVE  BlockedExact'
<1>1. \A m \in Names : verdict'[m] = IF m = n THEN news ELSE verdict[m]
  BY DEF MarkReady, TypeOK
<1>2. \A s \in Services : Needs[s] \subseteq Names
  BY GraphShape
<1> QED BY <1>1, <1>2 DEF BootInv, BlockedExact, needs_dependents

\* A step that touches nothing of the boot order keeps the invariant.
LEMMA QuietKeeps == ASSUME TypeOK, BootInv, QuietStep PROVE BootInv'
BY DEF QuietStep, BootInv, QueuedFresh, PastDependencies, BlockedExact, ReportedExact,
       MarksExact, InDegreeExact, StartedInOrder

\* Popping a blocked service and releasing its dependents keeps the invariant.
LEMMA SkipKeeps ==
    ASSUME TypeOK, BootInv, NEW n, SkipStep(n)
    PROVE  BootInv'
<1>1. n \in Services /\ verdict[n] = "none" /\ in_degree[n] = 0 /\ n \notin spawned
  BY DEF SkipStep, BootInv, QueuedFresh, TypeOK
<1>2. QueuedFresh' /\ PastDependencies' /\ MarksExact' /\ StartedInOrder'
  BY <1>1, MarkKeepsOrder DEF SkipStep
<1>3. InDegreeExact'
  BY <1>1, MarkKeepsExact DEF SkipStep, BootInv
<1>4. BlockedExact'
  BY <1>1, MarkKeepsBlocked DEF SkipStep
<1>5. ReportedExact'
  BY <1>1 DEF SkipStep, MarkReady, BootInv, ReportedExact, TypeOK
<1> QED BY <1>2, <1>3, <1>4, <1>5 DEF SkipStep, BootInv

\* The first news of a service, good or bad, keeps the invariant.
LEMMA ReleaseKeeps ==
    ASSUME TypeOK, BootInv, NEW n, NEW news \in {"good", "bad"}, ReleaseStep(n, news)
    PROVE  BootInv'
<1>1. n \in Services /\ n \in Names /\ in_degree[n] = 0 /\ n \notin to_start /\ n \in spawned
  BY DEF ReleaseStep, BootInv, PastDependencies, QueuedFresh, TypeOK
<1>2. CASE n \in ready_reported
  BY <1>2 DEF ReleaseStep, Release, FirstReport, BootInv, QueuedFresh, PastDependencies,
              BlockedExact, ReportedExact, MarksExact, InDegreeExact, StartedInOrder
<1>3. CASE n \notin ready_reported
  <2>1. verdict[n] = "none"
    BY <1>1, <1>3 DEF BootInv, ReportedExact
  <2>2. MarkReady(n, news, to_start) /\ to_start = to_start \ {n}
    BY <1>1, <1>3 DEF ReleaseStep, Release, FirstReport
  <2>3. QueuedFresh' /\ PastDependencies' /\ MarksExact' /\ StartedInOrder'
    BY <1>1, <2>1, <2>2, MarkKeepsOrder DEF ReleaseStep
  <2>4. InDegreeExact'
    BY <1>1, <2>1, <2>2, MarkKeepsExact DEF BootInv
  <2>5. BlockedExact'
    BY <1>1, <1>3, <2>1, <2>2, MarkKeepsBlocked DEF ReleaseStep
  <2>6. ReportedExact'
    BY <1>1, <2>2 DEF ReleaseStep, Release, MarkReady, BootInv, ReportedExact, TypeOK
  <2> QED BY <2>3, <2>4, <2>5, <2>6 DEF ReleaseStep, BootInv
<1> QED BY <1>2, <1>3

\* The start of a service is where the queue and the counters pay off.
LEMMA QueuedMayStart ==
    ASSUME TypeOK, BootInv, NEW n \in to_start, ~Blocked(n)
    PROVE  /\ \A d \in Deps(n) : verdict[d] # "none"
           /\ \A d \in Needs[n] \cap Services : verdict[d] = "good"
<1>1. n \in Services /\ in_degree[n] = 0
  BY DEF BootInv, QueuedFresh, TypeOK
<1>2. \A d \in Deps(n) : verdict[d] # "none"
  BY <1>1, ZeroMeansReleased DEF BootInv
<1>3. \A d \in Needs[n] : verdict[d] # "bad"
  BY <1>1 DEF Blocked, BootInv, BlockedExact
<1>4. ASSUME NEW d \in Needs[n] \cap Services PROVE verdict[d] = "good"
  BY <1>2, <1>3 DEF Deps, TypeOK, Names
<1> QED BY <1>2, <1>4

\* Spawning a queued service keeps the invariant.
LEMMA StartKeeps ==
    ASSUME TypeOK, BootInv, NEW n, StartStep(n)
    PROVE  BootInv'
<1>1. n \in to_start /\ n \in Services /\ n \in Names /\ verdict[n] = "none" /\ in_degree[n] = 0
  BY DEF StartStep, BootInv, QueuedFresh, TypeOK, Names
<1>2. StartedInOrder'
  BY <1>1, QueuedMayStart DEF StartStep, BootInv, StartedInOrder
<1>3. ReportedExact'
  <2>1. n \notin ready_reported
    BY DEF StartStep, BootInv, QueuedFresh, ReportedExact
  <2> QED BY <2>1, <1>1 DEF StartStep, BootInv, ReportedExact
<1>4. QueuedFresh' /\ PastDependencies'
  BY <1>1 DEF StartStep, BootInv, QueuedFresh, PastDependencies
<1>5. BlockedExact' /\ MarksExact' /\ InDegreeExact'
  BY DEF StartStep, BootInv, BlockedExact, MarksExact, InDegreeExact
<1> QED BY <1>2, <1>3, <1>4, <1>5 DEF StartStep, BootInv

-----------------------------------------------------------------------------
(* Every step of a boot without clients is one of the four.                *)
BootStep ==
    \/ QuietStep
    \/ \E n \in Services : SkipStep(n) \/ StartStep(n)
    \/ \E n \in Names, news \in {"good", "bad"} : ReleaseStep(n, news)

\* Spawning a name that has run before gives its process a known name.
LEMMA SpawnKeepsNews ==
    ASSUME TypeOK, NewsFromSpawned, NEW n \in Names, NEW reaped \in SUBSET Pids,
           Spawn(n, reaped), UNCHANGED ready_rx
    PROVE  NewsFromSpawned' /\ spawned' = spawned \cup {n}
BY DEF Spawn, NewsFromSpawned, FreePids, TypeOK

\* A child the poll has collected is one of a service that ran.
LEMMA CollectedRan ==
    ASSUME IndInv, BootInv, NEW p \in Pids, Collected(p)
    PROVE  pid_to_name[p] \in spawned /\ pid_to_name[p] \in Names
BY DEF Collected, Statuses, LoopPhases, IndInv, ChildrenTracked, BootInv, NewsFromSpawned, TypeOK

\* Without clients every step of the loop is quiet, a release, a skip or a start.
LEMMA StepKinds ==
    ASSUME Clients = {}, IndInv, BootInv, [Next]_vars
    PROVE  BootStep
<1> USE DEF IndInv
<1> SUFFICES ASSUME Next PROVE BootStep
  BY DEF BootStep, QuietStep, BootInv, NoCommands, NewsFromSpawned
<1>1. CASE \/ BeginIteration \/ EndCommands \/ EndDrain \/ EndLaunch \/ Timeout
           \/ EndPoll \/ (\E p \in Pids : PollAlive(p)) \/ Terminated
  BY <1>1 DEF BeginIteration, EndCommands, EndDrain, EndLaunch, Timeout, EndPoll, PollAlive,
              Terminated, BootStep, QuietStep, BootInv, NoCommands, NewsFromSpawned
<1>2. CASE Finish
  BY <1>2 DEF Finish, HangUp, BootStep, QuietStep, BootInv, NoCommands, NewsFromSpawned
<1>3. ASSUME NEW m \in cmd_rx PROVE FALSE
  BY DEF BootInv, NoCommands
<1>4. ASSUME NEW n \in Services, ReceiveReady(n) PROVE BootStep
  <2>1. ReleaseStep(n, "good")
    BY <1>4 DEF ReceiveReady, ReleaseStep, BootInv, NoCommands, NewsFromSpawned
  <2> QED BY <2>1 DEF BootStep, Names
<1>5. ASSUME NEW n \in Services, LaunchBlocked(n) PROVE BootStep
  <2>1. SkipStep(n)
    BY <1>5 DEF LaunchBlocked, SkipStep, BootInv, NoCommands, NewsFromSpawned
  <2> QED BY <2>1 DEF BootStep
<1>6. ASSUME NEW n \in Services, LaunchSpawn(n) PROVE BootStep
  <2>1. NewsFromSpawned' /\ spawned' = spawned \cup {n}
    BY <1>6, SpawnKeepsNews DEF LaunchSpawn, Names, BootInv
  <2>2. StartStep(n)
    BY <1>6, <2>1 DEF LaunchSpawn, StartStep, BootInv, NoCommands
  <2> QED BY <2>2 DEF BootStep
<1>7. ASSUME NEW n \in Services, LaunchError(n) PROVE BootStep
  BY <1>7 DEF LaunchError, HangUp, BootStep, QuietStep, BootInv, NoCommands, NewsFromSpawned
<1>8. ASSUME NEW p \in Pids, ManualRespawn(p) PROVE BootStep
  BY <1>8 DEF ManualRespawn, BootInv, NoCommands
<1>9. ASSUME NEW p \in Pids, AutoRestart(p) PROVE BootStep
  <2>1. pid_to_name[p] \in spawned /\ pid_to_name[p] \in Names
    BY <1>9, CollectedRan DEF AutoRestart
  <2>2. NewsFromSpawned' /\ spawned' = spawned
    BY <1>9, <2>1, SpawnKeepsNews DEF AutoRestart, BootInv
  <2> QED BY <1>9, <2>2 DEF AutoRestart, BootStep, QuietStep, BootInv, NoCommands
<1>10. ASSUME NEW p \in Pids, RestartError(p) PROVE BootStep
  BY <1>10 DEF RestartError, Reap, HangUp, BootStep, QuietStep, BootInv, NoCommands,
               NewsFromSpawned, TypeOK
<1>11. ASSUME NEW p \in Pids, FinalExit(p) PROVE BootStep
  <2>1. pid_to_name[p] \in spawned /\ pid_to_name[p] \in Names
    BY <1>11, CollectedRan DEF FinalExit
  <2>2. NoCommands' /\ NewsFromSpawned' /\ UNCHANGED spawned
    BY <1>11 DEF FinalExit, Reap, BootInv, NoCommands, NewsFromSpawned, TypeOK
  <2>3. PICK news \in {"good", "bad"} :
            /\ Release(pid_to_name[p], news)
            /\ blocked_services' = IF news = "bad" /\ pid_to_name[p] \notin ready_reported
                                      THEN blocked_services \cup needs_dependents(pid_to_name[p])
                                      ELSE blocked_services
    BY <1>11 DEF FinalExit
  <2>4. ReleaseStep(pid_to_name[p], news)
    BY <2>1, <2>2, <2>3 DEF ReleaseStep
  <2> QED BY <2>1, <2>4 DEF BootStep
<1>12. CASE Shutdown
  <2>1. /\ UNCHANGED <<orderVars, ready_reported, blocked_services, spawned, ready_rx>>
        /\ cmd_rx' \in {cmd_rx, {}} /\ UNCHANGED pending_restart
    BY <1>12 DEF Shutdown, BeginShutdown, NextLayer, StopTerm, StopReap, StopDeadline, KillGiveUp,
                 BeginStragglers, StragglerTerm, StragglerReap, StragglerKill, EndShutdown, HangUp
  <2>2. \A p \in Pids : pid_to_name'[p] \in {pid_to_name[p], NONE}
    BY <1>12 DEF Shutdown, BeginShutdown, NextLayer, StopTerm, StopReap, StopDeadline, KillGiveUp,
                 BeginStragglers, StragglerTerm, StragglerReap, StragglerKill, EndShutdown, Reap, TypeOK
  <2> QED BY <2>1, <2>2 DEF BootStep, QuietStep, BootInv, NoCommands, NewsFromSpawned
<1>13. CASE Ctl
  BY <1>13 DEF Ctl
<1>14. CASE World
  BY <1>14 DEF World, Exit, WatcherSignals, ShutdownSignal, EditFile,
               BootStep, QuietStep, BootInv, NoCommands, NewsFromSpawned
<1> QED BY <1>1, <1>2, <1>3, <1>4, <1>5, <1>6, <1>7, <1>8, <1>9, <1>10, <1>11, <1>12, <1>13, <1>14
        DEF Next, ExecutorStep, Loop

-----------------------------------------------------------------------------
\* The state run_with_marker starts in satisfies the invariant.
LEMMA InitBootInv == Init => BootInv
<1> SUFFICES ASSUME Init PROVE BootInv
  OBVIOUS
<1>1. NoCommands /\ PastDependencies /\ ReportedExact /\ NewsFromSpawned /\ MarksExact /\ StartedInOrder
  BY DEF Init, NoCommands, PastDependencies, ReportedExact, NewsFromSpawned, MarksExact, StartedInOrder
<1>2. QueuedFresh
  BY DEF Init, QueuedFresh, initially_ready, Names
<1>3. BlockedExact
  BY GraphShape DEF Init, BlockedExact
<1>4. InDegreeExact
  <2> SUFFICES ASSUME NEW s \in Services
               PROVE in_degree[s] = Cardinality({d \in Deps(s) : verdict[d] = "none"})
    BY DEF InDegreeExact
  <2>1. {d \in Deps(s) : verdict[d] = "none"} = Deps(s)
    BY DEF Init, Deps, Names
  <2> QED BY <2>1 DEF Init, InitialInDegree
<1> QED BY <1>1, <1>2, <1>3, <1>4 DEF BootInv

\* Every step without clients keeps the invariant.
LEMMA StepBootInv ==
    ASSUME Clients = {}
    PROVE  IndInv /\ BootInv /\ [Next]_vars => BootInv'
<1> SUFFICES ASSUME IndInv, BootInv, [Next]_vars PROVE BootInv'
  OBVIOUS
<1>1. BootStep
  BY StepKinds
<1> QED BY <1>1, QuietKeeps, SkipKeeps, StartKeeps, ReleaseKeeps DEF BootStep, IndInv

\* So the types, the tracked children and the boot invariant hold throughout.
LEMMA BootInvariance ==
    ASSUME Clients = {}
    PROVE  Spec => [](IndInv /\ BootInv)
<1> QED BY InitIndInv, StepIndInv, InitBootInv, StepBootInv, PTL DEF Spec

(* Start order: whatever the graph, the restarts, the crashes and the      *)
(* order of readiness messages, a service of a boot without control        *)
(* requests gets a process only once all its dependencies are released and *)
(* no hard dependency has failed.                                          *)
THEOREM StartsInOrder ==
    ASSUME Clients = {}
    PROVE  Spec => []StartedInOrder
<1>1. BootInv => StartedInOrder
  BY DEF BootInv
<1> QED BY <1>1, BootInvariance, PTL

(* The counters of mark_ready never drift: each is the number of           *)
(* dependencies not yet released, so the guard against underflow never     *)
(* hides a lost or doubled release.                                        *)
THEOREM InDegreeIsExact ==
    ASSUME Clients = {}
    PROVE  Spec => []InDegreeExact
<1>1. BootInv => InDegreeExact
  BY DEF BootInv
<1> QED BY <1>1, BootInvariance, PTL

(* No service is released twice, whichever of its pidfile, its exit and    *)
(* its block comes first.                                                  *)
THEOREM ReleasedOnce ==
    ASSUME Clients = {}
    PROVE  Spec => []MarkedOnce
<1>1. BootInv => MarkedOnce
  BY DEF BootInv, MarksExact, MarkedOnce
<1> QED BY <1>1, BootInvariance, PTL

-----------------------------------------------------------------------------
\* Each kind of step is a step of BootOrder, or leaves its state alone.
LEMMA InitRefines == Init => Abs!Init
BY DEF Init, Abs!Init, Names

\* Every step without clients is a step of BootOrder or a stutter.
LEMMA StepRefines ==
    ASSUME Clients = {}
    PROVE  IndInv /\ BootInv /\ [Next]_vars => [Abs!Next]_(Abs!vars)
<1> SUFFICES ASSUME IndInv, BootInv, [Next]_vars PROVE [Abs!Next]_(Abs!vars)
  OBVIOUS
<1>1. BootStep
  BY StepKinds
<1>2. CASE QuietStep
  BY <1>2 DEF QuietStep, Abs!vars
<1>3. ASSUME NEW n \in Services, SkipStep(n) PROVE Abs!Skip(n)
  <2>1. verdict[n] = "none" /\ n \notin spawned /\ in_degree[n] = 0
    BY <1>3 DEF SkipStep, BootInv, QueuedFresh
  <2>2. PICK d \in Needs[n] : verdict[d] = "bad"
    BY <1>3 DEF SkipStep, Blocked, BootInv, BlockedExact
  <2>3. d \in Services
    BY <2>2, GraphShape DEF BootInv, PastDependencies
  <2>4. \A e \in Deps(n) : e \in Services /\ verdict[e] # "none"
    BY <2>1, ZeroMeansReleased DEF BootInv, Deps
  <2>5. spawned' = spawned /\ \A m \in Services : verdict'[m] = IF m = n THEN "bad" ELSE verdict[m]
    BY <1>3, <2>1 DEF SkipStep, MarkReady, IndInv, TypeOK, Names
  <2>6. Abs!Settled(n)
    BY <2>4 DEF Abs!Settled, Abs!Deps, Deps
  <2>7. Abs!Barred(n)
    BY <2>2, <2>3 DEF Abs!Barred
  <2> QED BY <2>1, <2>5, <2>6, <2>7 DEF Abs!Skip
<1>4. ASSUME NEW n \in Services, StartStep(n) PROVE Abs!Start(n)
  <2>1. verdict[n] = "none" /\ n \notin spawned /\ n \in to_start /\ ~Blocked(n)
    BY <1>4 DEF StartStep, BootInv, QueuedFresh
  <2>2. /\ \A d \in Deps(n) : verdict[d] # "none"
        /\ \A d \in Needs[n] \cap Services : verdict[d] = "good"
    BY <2>1, QueuedMayStart DEF IndInv
  <2>3. spawned' = spawned \cup {n} /\ verdict' = verdict
    BY <1>4 DEF StartStep
  <2>4. Abs!Settled(n)
    BY <2>2 DEF Abs!Settled, Abs!Deps, Deps
  <2>5. ~Abs!Barred(n)
    BY <2>2 DEF Abs!Barred
  <2> QED BY <2>1, <2>3, <2>4, <2>5 DEF Abs!Start
<1>5. ASSUME NEW n \in Names, NEW news \in {"good", "bad"}, ReleaseStep(n, news)
      PROVE (Abs!Report(n, news) /\ n \in Services) \/ UNCHANGED Abs!vars
  <2>1. n \in spawned /\ n \in Services
    BY <1>5 DEF ReleaseStep, BootInv, PastDependencies
  <2>2. CASE n \in ready_reported
    BY <1>5, <2>2 DEF ReleaseStep, Release, FirstReport, Abs!vars
  <2>3. CASE n \notin ready_reported
    <3>1. verdict[n] = "none"
      BY <2>1, <2>3 DEF BootInv, ReportedExact
    <3>2. /\ spawned' = spawned
          /\ \A m \in Services : verdict'[m] = IF m = n THEN news ELSE verdict[m]
      BY <1>5, <2>3, <3>1
      DEF ReleaseStep, Release, FirstReport, MarkReady, IndInv, TypeOK, Names
    <3> QED BY <2>1, <3>1, <3>2 DEF Abs!Report
  <2> QED BY <2>2, <2>3
<1> QED BY <1>1, <1>2, <1>3, <1>4, <1>5 DEF BootStep, Abs!Next

(* Refinement: the queue, counters, channels, restarts and blocks of the   *)
(* loop implement the abstract BootOrder for every graph: services are     *)
(* only started, skipped and released as it allows.                        *)
THEOREM LoopImplementsBootOrder ==
    ASSUME Clients = {}
    PROVE  Spec => ImplementsBootOrder
<1> QED BY InitRefines, StepRefines, BootInvariance, PTL DEF Spec, ImplementsBootOrder, Abs!Spec
=============================================================================
