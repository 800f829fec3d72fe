------------------------------ MODULE Executor ------------------------------
(***************************************************************************)
(* The supervisor loop of src/src/executor.rs (run_with_marker), together  *)
(* with the threads it shares state with: the readiness watchers of        *)
(* ready.rs, the connection handlers of ctl_server.rs, the signal handlers *)
(* of main.rs and the kernel's process table.                              *)
(*                                                                         *)
(* One action is one piece of the loop that no other thread can observe    *)
(* half done: a handled command, a received readiness message, a popped    *)
(* name of the start queue, a polled child, a step of the shutdown.        *)
(* Everything else (children that exit, watchers that fire, clients,       *)
(* signals, edits of the service files) interleaves freely in between.     *)
(***************************************************************************)
EXTENDS ServiceGraph

CONSTANTS
    Pids,          \* process ids the kernel can hand out, reused once reaped
    Clients,       \* control-socket connections, one request each
    Requests,      \* the request kinds the connections may make
    Watched,       \* services with a [ready] path, hence a watcher thread
    InitialToml,   \* [Services -> Contents]: the files the boot loaded
    Edits,         \* <<name, contents>> pairs an administrator may write
    MAX_RESTARTS,  \* executor.rs: 5
    NONE           \* no pid, no name, no client, no file

Policies == {"always", "on-failure", "never"}

(* What a service file says, as far as the executor can tell: whether it   *)
(* parses, its restart policy, and whether its `user` names an account.    *)
(* "unknown" stands for every definition spawn_service refuses (no such    *)
(* user, empty exec).                                                      *)
Contents == [parses : BOOLEAN, restart : Policies,
             user : {"known", "%U", "unknown"}]

ASSUME ConstantShape ==
    /\ IsFiniteSet(Pids)
    /\ Requests \subseteq {"start", "restart", "reload", "stop", "status", "refused"}
    /\ Watched \subseteq Services
    /\ InitialToml \in [Services -> {t \in Contents : t.parses}]
    /\ Edits \subseteq Names \X Contents
    /\ MAX_RESTARTS \in Nat
    /\ NONE \notin Pids \cup Names \cup Clients \cup Contents

VARIABLES
    pc,                \* phase of run_with_marker
    (* the kernel: its process table and the strongest signal sent *)
    proc, sent,
    (* service_states with its mirror SharedState, pid_to_name; spawned is  *)
    (* a history variable: the names that ever had a process               *)
    svc_state, shared_pid, pid_to_name, spawned,
    (* the graph's in_degree and the start queue; marks and verdict are    *)
    (* history variables: how often mark_ready ran, and on which news first *)
    in_degree, to_start, marks, verdict,
    ready_reported, blocked_services, restart_counts, completed,
    lost,              \* history: services whose manual respawn failed while
                       \* the readiness message was still to come
    pids,              \* children this round of the poll has yet to look at
    ready_rx, watching,
    cmd_rx, conn, stop_pid, pending_restart, restart_replies,
    svc_by_name, service_raw, disk,
    shutdown, marker, kill_rest, kill_layer, victim

kernelVars == <<proc, sent>>
tableVars  == <<svc_state, shared_pid, pid_to_name, spawned>>
orderVars  == <<in_degree, to_start, marks, verdict>>
bookVars   == <<ready_reported, blocked_services, restart_counts, completed, lost>>
readyVars  == <<ready_rx, watching>>
ctlVars    == <<cmd_rx, conn, stop_pid, pending_restart, restart_replies>>
defVars    == <<svc_by_name, service_raw, disk>>
haltVars   == <<shutdown, marker, kill_rest, kill_layer, victim>>

dataVars   == <<kernelVars, tableVars, orderVars, bookVars, pids, readyVars,
                ctlVars, defVars, haltVars>>

vars == <<pc, dataVars>>

LoopPhases == {"top", "commands", "drain", "launch", "wait", "poll", "finish"}
StopPhases == {"stopping", "stopwait", "killwait", "stragglers", "stragglerwait"}
Returned   == {"done", "error"}

States   == {"Absent", "Pending", "Running", "Ready", "Exited", "Failed"}
Statuses == {"exit0", "exit1", "killed"}
Messages == [kind : Requests, service : Names, client : Clients]

-----------------------------------------------------------------------------
\* config.rs apply_to: `%U` becomes the session user (or the process owner).
apply_to(t) == [parses |-> t.parses, restart |-> t.restart,
                user |-> IF t.user = "%U" THEN "known" ELSE t.user]

should_restart(policy, status) ==
    \/ policy = "always"
    \/ policy = "on-failure" /\ status # "exit0"

Tracked     == {p \in Pids : pid_to_name[p] # NONE}
PidsOf(n)   == {p \in Pids : pid_to_name[p] = n}
FreePids    == {p \in Pids : proc[p] = "free"}
Loaded(n)   == IF n \in Services THEN InitialToml[n] ELSE NONE

Init ==
    /\ pc = "top"
    /\ proc = [p \in Pids |-> "free"]
    /\ sent = [p \in Pids |-> "none"]
    /\ svc_state = [n \in Names |-> IF n \in Services THEN "Pending" ELSE "Absent"]
    /\ shared_pid = [n \in Names |-> NONE]
    /\ pid_to_name = [p \in Pids |-> NONE]
    /\ spawned = {}
    /\ in_degree = InitialInDegree
    /\ to_start = initially_ready(InitialInDegree)
    /\ marks = [n \in Names |-> 0]
    /\ verdict = [n \in Names |-> "none"]
    /\ ready_reported = {} /\ blocked_services = {}
    /\ restart_counts = [n \in Names |-> 0]
    /\ completed = 0 /\ lost = {}
    /\ pids = {}
    /\ ready_rx = {} /\ watching = Watched
    /\ cmd_rx = {}
    /\ conn = [c \in Clients |-> "idle"]
    /\ stop_pid = [c \in Clients |-> NONE]
    /\ pending_restart = {}
    /\ restart_replies = [n \in Names |-> NONE]
    /\ svc_by_name = [n \in Names |-> IF n \in Services THEN apply_to(InitialToml[n]) ELSE NONE]
    /\ service_raw = [n \in Names |-> Loaded(n)]
    /\ disk = [n \in Names |-> Loaded(n)]
    /\ shutdown = FALSE /\ marker = FALSE
    /\ kill_rest = {} /\ kill_layer = {} /\ victim = NONE

-----------------------------------------------------------------------------
(* spawn_service can succeed: the account exists and a pid is free.        *)
(* `reaped` is the pid, if any, the caller has just collected. It can      *)
(* always fail: fork(2) may be refused for lack of memory or by a limit    *)
(* at any time, so an action for the failure has no guard of its own. The  *)
(* credentials are resolved before the fork: a failure changes nothing.    *)
CanSpawn(def, reaped) ==
    def.user = "known" /\ FreePids \cup reaped # {}

\* A successful spawn and the bookkeeping every caller does after it.
Spawn(n, reaped) ==
    \E p \in FreePids \cup reaped :
        /\ proc' = [q \in Pids |-> IF q = p THEN "alive"
                                  ELSE IF q \in reaped THEN "free" ELSE proc[q]]
        /\ sent' = [q \in Pids |-> IF q = p \/ q \in reaped THEN "none" ELSE sent[q]]
        /\ pid_to_name' = [q \in Pids |-> IF q = p THEN n
                                         ELSE IF q \in reaped THEN NONE ELSE pid_to_name[q]]
        /\ svc_state' = [svc_state EXCEPT ![n] = "Running"]
        /\ shared_pid' = [shared_pid EXCEPT ![n] = p]
        /\ spawned' = spawned \cup {n}

\* Mutant: the reaped pid stays in pid_to_name.
MutReapKeepsEntry(p) ==
    /\ proc' = [proc EXCEPT ![p] = "free"]
    /\ sent' = [sent EXCEPT ![p] = "none"]
    /\ UNCHANGED pid_to_name

\* waitpid collects p and the caller forgets it.
Reap(p) ==
    /\ proc' = [proc EXCEPT ![p] = "free"]
    /\ sent' = [sent EXCEPT ![p] = "none"]
    /\ pid_to_name' = [pid_to_name EXCEPT ![p] = NONE]

\* Mutant: sync_state keeps the pid of a service that is down.
MutSetDownKeepsPid(n, state) ==
    /\ svc_state' = [svc_state EXCEPT ![n] = state]
    /\ UNCHANGED shared_pid

\* A service leaves the running states: sync_state clears its pid.
SetDown(n, state) ==
    /\ svc_state' = [svc_state EXCEPT ![n] = state]
    /\ shared_pid' = [shared_pid EXCEPT ![n] = NONE]

\* graph.mark_ready(n) and to_start.extend; `queue` is to_start before it.
MarkReady(n, news, queue) ==
    /\ in_degree' = DecrementDependents(in_degree, n)
    /\ to_start' = queue \cup NewlyReady(in_degree, n)
    /\ marks' = [marks EXCEPT ![n] = @ + 1]
    /\ verdict' = [verdict EXCEPT ![n] = IF @ = "none" THEN news ELSE @]

\* Mutants: the insertion always reports a new name; a failure is not passed on.
MutAlwaysFirst(n) == TRUE
MutReleaseOnlyGood(n, news) ==
    /\ ready_reported' = ready_reported \cup {n}
    /\ IF news = "good" THEN MarkReady(n, news, to_start) ELSE UNCHANGED orderVars

\* ready_reported.insert(n) returns true.
FirstReport(n) == n \notin ready_reported

\* Readiness or exit, whichever comes first, releases the dependents.
Release(n, news) ==
    /\ ready_reported' = ready_reported \cup {n}
    /\ IF FirstReport(n) THEN MarkReady(n, news, to_start) ELSE UNCHANGED orderVars

\* Mutant: the signal gets lost.
MutSignalLost(p, sig) == UNCHANGED sent

\* kill(2): only a live process notices; SIGKILL is never weakened.
Signal(p, sig) ==
    sent' = IF p # NONE /\ proc[p] = "alive" /\ sent[p] # "KILL"
               THEN [sent EXCEPT ![p] = sig] ELSE sent

\* run_with_marker returns: its receivers and parked replies are dropped.
HangUp ==
    /\ cmd_rx' = {}
    /\ conn' = [c \in Clients |-> IF conn[c] = "waiting" THEN "disconnected" ELSE conn[c]]
    /\ restart_replies' = [n \in Names |-> NONE]
    /\ UNCHANGED <<stop_pid, pending_restart>>

-----------------------------------------------------------------------------
\* Top of the loop, flag clear.
BeginIteration ==
    /\ pc = "top" /\ ~shutdown
    /\ pc' = "commands"
    /\ UNCHANGED dataVars

\* Mutant: the message is looked at but not taken.
MutAnswerPeeks(m, answer) ==
    /\ conn' = [conn EXCEPT ![m.client] = answer]
    /\ UNCHANGED <<cmd_rx, stop_pid, pending_restart, restart_replies>>

\* Drain of command_rx. A message m is taken and its client answered.
Answer(m, answer) ==
    /\ cmd_rx' = cmd_rx \ {m}
    /\ conn' = [conn EXCEPT ![m.client] = answer]
    /\ UNCHANGED <<stop_pid, pending_restart, restart_replies>>

\* The tail of all three commands when the service has no process.
SpawnAndAnswer(m, def) ==
    \/ /\ CanSpawn(def, {})
       /\ Spawn(m.service, {})
       /\ Answer(m, "ok")
    \/ /\ Answer(m, "error")
       /\ UNCHANGED <<kernelVars, tableVars>>

(* SIGTERM to one process of the service, if it has one, and the reply     *)
(* parked until the poll sees it exit. A reply already parked there is     *)
(* overwritten: its sender is dropped and its client sees a disconnect.    *)
SignalAndPark(m) ==
    LET n == m.service IN
    /\ cmd_rx' = cmd_rx \ {m}
    /\ IF PidsOf(n) = {} THEN UNCHANGED sent ELSE \E p \in PidsOf(n) : Signal(p, "TERM")
    /\ pending_restart' = pending_restart \cup {n}
    /\ restart_replies' = [restart_replies EXCEPT ![n] = m.client]
    /\ conn' = [c \in Clients |-> IF c = restart_replies[n] /\ conn[c] = "waiting"
                                     THEN "disconnected" ELSE conn[c]]
    /\ UNCHANGED <<proc, tableVars, stop_pid>>

\* Mutant: a restart always waits for an exit, running or not.
MutHandleRestartParks(m) ==
    /\ pc = "commands" /\ m.kind = "restart"
    /\ SignalAndPark(m)
    /\ UNCHANGED <<pc, orderVars, bookVars, pids, readyVars, defVars, haltVars>>

HandleStart(m) ==
    /\ pc = "commands" /\ m.kind = "start"
    /\ \/ /\ svc_state[m.service] \in {"Running", "Ready", "Absent"}
          /\ Answer(m, "error")
          /\ UNCHANGED <<kernelVars, tableVars>>
       \/ /\ svc_state[m.service] \in {"Pending", "Exited", "Failed"}
          /\ SpawnAndAnswer(m, svc_by_name[m.service])
    /\ UNCHANGED <<pc, orderVars, bookVars, pids, readyVars, defVars, haltVars>>

HandleRestart(m) ==
    /\ pc = "commands" /\ m.kind = "restart"
    /\ \/ /\ svc_state[m.service] = "Absent"
          /\ Answer(m, "error")
          /\ UNCHANGED <<kernelVars, tableVars>>
       \/ /\ svc_state[m.service] \in {"Running", "Ready"}
          /\ SignalAndPark(m)
       \/ /\ svc_state[m.service] \in {"Pending", "Exited", "Failed"}
          /\ SpawnAndAnswer(m, svc_by_name[m.service])
    /\ UNCHANGED <<pc, orderVars, bookVars, pids, readyVars, defVars, haltVars>>

\* The file on disk differs from the text last loaded, and parses.
Changed(n) ==
    disk[n] # NONE /\ disk[n] # service_raw[n] /\ disk[n].parses

(* Reload compares the file with the text last loaded. (The SIGHUP it      *)
(* sends first needs no state: a child may exit at any time.) A changed    *)
(* and parsable file replaces the definition as it stands in the file.     *)
HandleReload(m) ==
    LET n == m.service
        unchanged == disk[n] # NONE /\ disk[n] = service_raw[n]
    IN
    /\ pc = "commands" /\ m.kind = "reload"
    /\ \/ /\ ~Changed(n)
          /\ Answer(m, IF unchanged THEN "ok" ELSE "error")
          /\ UNCHANGED <<kernelVars, tableVars, svc_by_name, service_raw>>
       \/ /\ Changed(n)
          /\ service_raw' = [service_raw EXCEPT ![n] = disk[n]]
          /\ svc_by_name' = [svc_by_name EXCEPT ![n] = disk[n]]
          /\ \/ PidsOf(n) # {} /\ SignalAndPark(m)
             \/ PidsOf(n) = {} /\ SpawnAndAnswer(m, disk[n])
    /\ UNCHANGED <<pc, orderVars, bookVars, pids, readyVars, disk, haltVars>>

EndCommands ==
    /\ pc = "commands" /\ cmd_rx = {}
    /\ pc' = "drain"
    /\ UNCHANGED dataVars

-----------------------------------------------------------------------------
(* A readiness message, taken either by the drain or by the 50 ms wait     *)
(* (after which the poll starts from a fresh list of children).            *)
ReceiveReady(n) ==
    /\ pc \in {"drain", "wait"} /\ n \in ready_rx
    /\ ready_rx' = ready_rx \ {n}
    /\ Release(n, "good")
    /\ svc_state' = IF FirstReport(n) THEN [svc_state EXCEPT ![n] = "Ready"] ELSE svc_state
    /\ \/ pc = "drain" /\ UNCHANGED <<pc, pids>>
       \/ pc = "wait" /\ pc' = "poll" /\ pids' = Tracked
    /\ UNCHANGED <<kernelVars, shared_pid, pid_to_name, spawned, blocked_services,
                   restart_counts, completed, lost, watching, ctlVars, defVars, haltVars>>

EndDrain ==
    /\ pc = "drain" /\ ready_rx = {}
    /\ pc' = "launch"
    /\ UNCHANGED dataVars

\* Mutant: the block is forgotten.
MutNeverBlocked(n) == FALSE

\* blocked_services.contains(n).
Blocked(n) == n \in blocked_services

\* A popped name that a failed hard dependency has blocked.
LaunchBlocked(n) ==
    /\ pc = "launch" /\ n \in to_start /\ Blocked(n)
    /\ SetDown(n, "Failed")
    /\ blocked_services' = blocked_services \cup needs_dependents(n)
    /\ MarkReady(n, "bad", to_start \ {n})
    /\ completed' = completed + 1
    /\ UNCHANGED <<pc, kernelVars, pid_to_name, spawned, ready_reported,
                   restart_counts, lost, pids, readyVars, ctlVars, defVars, haltVars>>

LaunchSpawn(n) ==
    /\ pc = "launch" /\ n \in to_start /\ ~Blocked(n)
    /\ CanSpawn(svc_by_name[n], {})
    /\ Spawn(n, {})
    /\ to_start' = to_start \ {n}
    /\ UNCHANGED <<pc, in_degree, marks, verdict, bookVars, pids, readyVars,
                   ctlVars, defVars, haltVars>>

\* `spawn_service(def)?` fails: the whole executor returns the error.
LaunchError(n) ==
    /\ pc = "launch" /\ n \in to_start /\ ~Blocked(n)
    /\ to_start' = to_start \ {n}
    /\ pc' = "error" /\ HangUp
    /\ UNCHANGED <<kernelVars, tableVars, in_degree, marks, verdict, bookVars,
                   pids, readyVars, defVars, haltVars>>

\* Mutant: off by one in the count of finished services.
MutNothingLeftEarly == completed + 1 >= Cardinality(Services) \/ Tracked = {}

\* The two exit tests of the loop.
NothingLeft == completed >= Cardinality(Services) \/ Tracked = {}

\* The queue is empty: leave the loop, or wait for news.
EndLaunch ==
    /\ pc = "launch" /\ to_start = {}
    /\ pc' = IF NothingLeft THEN "finish" ELSE "wait"
    /\ UNCHANGED dataVars

\* recv_timeout comes back empty-handed.
Timeout ==
    /\ pc = "wait" /\ ready_rx = {}
    /\ pc' = "poll" /\ pids' = Tracked
    /\ UNCHANGED <<kernelVars, tableVars, orderVars, bookVars, readyVars,
                   ctlVars, defVars, haltVars>>

-----------------------------------------------------------------------------
(* The poll: waitpid(WNOHANG) on each child of the list. *)
PollAlive(p) ==
    /\ pc = "poll" /\ p \in pids /\ proc[p] = "alive"
    /\ pids' = pids \ {p}
    /\ UNCHANGED <<pc, kernelVars, tableVars, orderVars, bookVars, readyVars,
                   ctlVars, defVars, haltVars>>

Collected(p) ==
    /\ pc = "poll" /\ p \in pids /\ proc[p] \in Statuses
    /\ pids' = pids \ {p}

\* A restart or reload was waiting for this exit.
ManualRespawn(p) ==
    LET n == pid_to_name[p]
        Wake(answer) == conn' = [c \in Clients |-> IF c = restart_replies[n] THEN answer
                                                                            ELSE conn[c]]
    IN
    /\ Collected(p) /\ n \in pending_restart
    /\ pending_restart' = pending_restart \ {n}
    /\ restart_replies' = [restart_replies EXCEPT ![n] = NONE]
    /\ \/ /\ CanSpawn(svc_by_name[n], {p})
          /\ Spawn(n, {p}) /\ Wake("ok")
          /\ UNCHANGED lost
       \/ /\ Reap(p) /\ SetDown(n, "Failed") /\ Wake("error")
          /\ lost' = lost \cup (({n} \cap Watched) \ ready_reported)
          /\ UNCHANGED spawned
    /\ UNCHANGED <<pc, orderVars, ready_reported, blocked_services, restart_counts, completed,
                   readyVars, cmd_rx, stop_pid, defVars, haltVars>>

\* The policy asks for another process, the budget allows it, nothing stops us.
WantsRestart(p) ==
    LET n == pid_to_name[p] IN
    /\ n \notin pending_restart
    /\ should_restart(svc_by_name[n].restart, proc[p])
    /\ restart_counts[n] < MAX_RESTARTS
    /\ ~shutdown

\* Mutant: a restart is counted as a completion as well.
MutAutoRestartCounts(p) ==
    LET n == pid_to_name[p] IN
    /\ Collected(p) /\ WantsRestart(p) /\ CanSpawn(svc_by_name[n], {p})
    /\ restart_counts' = [restart_counts EXCEPT ![n] = @ + 1]
    /\ completed' = completed + 1
    /\ Spawn(n, {p})
    /\ UNCHANGED <<pc, orderVars, ready_reported, blocked_services, lost,
                   readyVars, ctlVars, defVars, haltVars>>

AutoRestart(p) ==
    LET n == pid_to_name[p] IN
    /\ Collected(p) /\ WantsRestart(p) /\ CanSpawn(svc_by_name[n], {p})
    /\ restart_counts' = [restart_counts EXCEPT ![n] = @ + 1]
    /\ Spawn(n, {p})
    /\ UNCHANGED <<pc, orderVars, ready_reported, blocked_services, completed, lost,
                   readyVars, ctlVars, defVars, haltVars>>

\* `spawn_service(..)?` fails while restarting: the executor returns the error.
RestartError(p) ==
    LET n == pid_to_name[p] IN
    /\ Collected(p) /\ WantsRestart(p)
    /\ restart_counts' = [restart_counts EXCEPT ![n] = @ + 1]
    /\ Reap(p)
    /\ pc' = "error" /\ HangUp
    /\ UNCHANGED <<svc_state, shared_pid, spawned, orderVars, ready_reported,
                   blocked_services, completed, lost, readyVars, defVars, haltVars>>

\* The process is gone for good.
FinalExit(p) ==
    LET n == pid_to_name[p]
        exhausted == /\ should_restart(svc_by_name[n].restart, proc[p])
                     /\ restart_counts[n] >= MAX_RESTARTS
        failed == exhausted \/ proc[p] # "exit0"
    IN
    /\ Collected(p) /\ n \notin pending_restart /\ ~WantsRestart(p)
    /\ Reap(p)
    /\ SetDown(n, IF exhausted THEN "Failed" ELSE "Exited")
    /\ completed' = completed + 1
    /\ blocked_services' = IF failed /\ n \notin ready_reported
                              THEN blocked_services \cup needs_dependents(n)
                              ELSE blocked_services
    /\ Release(n, IF failed THEN "bad" ELSE "good")
    /\ UNCHANGED <<pc, spawned, restart_counts, lost, readyVars, ctlVars, defVars, haltVars>>

EndPoll ==
    /\ pc = "poll" /\ pids = {}
    /\ pc' = "top"
    /\ UNCHANGED dataVars

\* After the loop: the marker, unless a shutdown was asked for meanwhile.
Finish ==
    /\ pc = "finish"
    /\ marker' = ~shutdown
    /\ pc' = "done" /\ HangUp
    /\ UNCHANGED <<kernelVars, tableVars, orderVars, bookVars, pids, readyVars,
                   defVars, shutdown, kill_rest, kill_layer, victim>>

-----------------------------------------------------------------------------
(* The shutdown branch: shutdown_order, layer by layer.                    *)
stopFrame == <<svc_state, shared_pid, spawned, orderVars, bookVars, readyVars,
               defVars, shutdown, marker>>

BeginShutdown ==
    /\ pc = "top" /\ shutdown
    /\ pc' = "stopping"
    /\ kill_rest' = {pid_to_name[p] : p \in Tracked}
    /\ UNCHANGED <<kernelVars, pid_to_name, pids, kill_layer, victim, ctlVars, stopFrame>>

NextLayer ==
    /\ pc = "stopping" /\ kill_layer = {} /\ kill_rest # {}
    /\ kill_layer' = Leaves(kill_rest)
    /\ kill_rest' = kill_rest \ Leaves(kill_rest)
    /\ UNCHANGED <<pc, kernelVars, pid_to_name, pids, victim, ctlVars, stopFrame>>

\* The next name of the order: SIGTERM to one of its processes.
StopTerm(n) ==
    /\ pc = "stopping" /\ n \in kill_layer
    /\ kill_layer' = kill_layer \ {n}
    /\ \E p \in PidsOf(n) : victim' = p /\ Signal(p, "TERM")
    /\ pc' = "stopwait"
    /\ UNCHANGED <<proc, pid_to_name, pids, kill_rest, ctlVars, stopFrame>>

\* It exits within five seconds, or within one second of the SIGKILL.
StopReap ==
    /\ pc \in {"stopwait", "killwait"} /\ proc[victim] \in Statuses
    /\ Reap(victim)
    /\ pc' = "stopping"
    /\ UNCHANGED <<pids, kill_rest, kill_layer, victim, ctlVars, stopFrame>>

\* Mutant: the poll goes on without looking at the deadline.
MutStopNoDeadline == pc = "stopwait" /\ proc[victim] = "alive" /\ UNCHANGED vars

StopDeadline ==
    /\ pc = "stopwait" /\ proc[victim] = "alive"
    /\ Signal(victim, "KILL")
    /\ pc' = "killwait"
    /\ UNCHANGED <<proc, pid_to_name, pids, kill_rest, kill_layer, victim, ctlVars, stopFrame>>

\* Not even SIGKILL was noticed in time (D state): forget the process.
KillGiveUp ==
    /\ pc = "killwait" /\ proc[victim] = "alive"
    /\ pid_to_name' = [pid_to_name EXCEPT ![victim] = NONE]
    /\ pc' = "stopping"
    /\ UNCHANGED <<kernelVars, pids, kill_rest, kill_layer, victim, ctlVars, stopFrame>>

\* The order is done; what is still tracked are second processes of a name.
BeginStragglers ==
    /\ pc = "stopping" /\ kill_layer = {} /\ kill_rest = {}
    /\ pc' = "stragglers" /\ pids' = Tracked
    /\ UNCHANGED <<kernelVars, pid_to_name, kill_rest, kill_layer, victim, ctlVars, stopFrame>>

StragglerTerm(p) ==
    /\ pc = "stragglers" /\ p \in pids
    /\ pids' = pids \ {p} /\ victim' = p
    /\ Signal(p, "TERM")
    /\ pc' = "stragglerwait"
    /\ UNCHANGED <<proc, pid_to_name, kill_rest, kill_layer, ctlVars, stopFrame>>

StragglerReap ==
    /\ pc = "stragglerwait" /\ proc[victim] \in Statuses
    /\ proc' = [proc EXCEPT ![victim] = "free"]
    /\ sent' = [sent EXCEPT ![victim] = "none"]
    /\ pc' = "stragglers"
    /\ UNCHANGED <<pid_to_name, pids, kill_rest, kill_layer, victim, ctlVars, stopFrame>>

StragglerKill ==
    /\ pc = "stragglerwait" /\ proc[victim] = "alive"
    /\ Signal(victim, "KILL")
    /\ pc' = "stragglers"
    /\ UNCHANGED <<proc, pid_to_name, pids, kill_rest, kill_layer, victim, ctlVars, stopFrame>>

\* Nothing left to stop. The flag is still set, so no marker is written.
EndShutdown ==
    /\ pc = "stragglers" /\ pids = {}
    /\ pc' = "done" /\ HangUp
    /\ UNCHANGED <<kernelVars, pid_to_name, pids, kill_rest, kill_layer, victim, stopFrame>>

-----------------------------------------------------------------------------
(* The other threads and the outside world.                                *)
execFrame == <<pc, tableVars, orderVars, bookVars, pids>>

\* A child exits or is killed; it stays a zombie until it is collected.
Exit(p, status) ==
    /\ proc[p] = "alive"
    /\ proc' = [proc EXCEPT ![p] = status]
    /\ UNCHANGED <<sent, execFrame, readyVars, ctlVars, defVars, haltVars>>

(* ready.rs: the readiness file of a service that has run appears and its  *)
(* watcher sends the name, once; the thread then ends. The send may trail  *)
(* the file, and the process, by any time.                                 *)
WatcherSignals(n) ==
    /\ n \in watching /\ n \in spawned
    /\ watching' = watching \ {n}
    /\ ready_rx' = ready_rx \cup {n}
    /\ UNCHANGED <<kernelVars, execFrame, ctlVars, defVars, haltVars>>

\* main.rs: SIGTERM, SIGINT or SIGUSR1 sets the flag; nothing clears it.
ShutdownSignal ==
    /\ ~shutdown
    /\ shutdown' = TRUE
    /\ UNCHANGED <<kernelVars, execFrame, readyVars, ctlVars, defVars, marker,
                   kill_rest, kill_layer, victim>>

\* An administrator writes a service file.
EditFile(n, text) ==
    /\ disk' = [disk EXCEPT ![n] = text]
    /\ disk' # disk
    /\ UNCHANGED <<kernelVars, execFrame, readyVars, ctlVars, svc_by_name,
                   service_raw, haltVars>>

\* ctl_server.rs: start, restart and reload go through the channel.
Send(c, kind, n) ==
    /\ conn[c] = "idle" /\ kind \in Requests \cap {"start", "restart", "reload"}
    /\ \/ /\ pc \notin Returned
          /\ cmd_rx' = cmd_rx \cup {[kind |-> kind, service |-> n, client |-> c]}
          /\ conn' = [conn EXCEPT ![c] = "waiting"]
       \/ /\ pc \in Returned
          /\ conn' = [conn EXCEPT ![c] = "disconnected"]
          /\ UNCHANGED cmd_rx
    /\ UNCHANGED <<kernelVars, execFrame, readyVars, stop_pid, pending_restart,
                   restart_replies, defVars, haltVars>>

\* ctl_server.rs: stop reads the pid under the lock ...
StopLookup(c, n) ==
    /\ conn[c] = "idle" /\ "stop" \in Requests
    /\ stop_pid' = [stop_pid EXCEPT ![c] = shared_pid[n]]
    /\ conn' = [conn EXCEPT ![c] = IF shared_pid[n] = NONE THEN "error" ELSE "stopping"]
    /\ UNCHANGED <<kernelVars, execFrame, readyVars, cmd_rx, pending_restart,
                   restart_replies, defVars, haltVars>>

\* ... and signals it after the lock is gone.
StopKill(c) ==
    /\ conn[c] = "stopping"
    /\ Signal(stop_pid[c], "TERM")
    /\ conn' = [conn EXCEPT ![c] = "ok"]
    /\ UNCHANGED <<proc, execFrame, readyVars, cmd_rx, stop_pid, pending_restart,
                   restart_replies, defVars, haltVars>>

answerFrame == <<kernelVars, execFrame, readyVars, cmd_rx, stop_pid,
                 pending_restart, restart_replies, defVars, haltVars>>

\* ctl_server.rs: status copies the table under the lock and answers.
Status(c) ==
    /\ conn[c] = "idle" /\ "status" \in Requests
    /\ conn' = [conn EXCEPT ![c] = "ok"]
    /\ UNCHANGED answerFrame

\* ctl_server.rs: a peer that is not root, or a line that is no request, gets
\* an error before anything else happens.
Refuse(c) ==
    /\ conn[c] = "idle" /\ "refused" \in Requests
    /\ conn' = [conn EXCEPT ![c] = "error"]
    /\ UNCHANGED answerFrame

-----------------------------------------------------------------------------
Loop ==
    \/ BeginIteration \/ EndCommands \/ EndDrain \/ EndLaunch \/ Timeout
    \/ EndPoll \/ Finish
    \/ \E m \in cmd_rx : HandleStart(m) \/ HandleRestart(m) \/ HandleReload(m)
    \/ \E n \in Services : \/ ReceiveReady(n) \/ LaunchBlocked(n)
                           \/ LaunchSpawn(n) \/ LaunchError(n)
    \/ \E p \in Pids : \/ PollAlive(p) \/ ManualRespawn(p) \/ AutoRestart(p)
                       \/ RestartError(p) \/ FinalExit(p)

Shutdown ==
    \/ BeginShutdown \/ NextLayer \/ StopReap \/ StopDeadline \/ KillGiveUp
    \/ BeginStragglers \/ StragglerReap \/ StragglerKill \/ EndShutdown
    \/ \E n \in Names : StopTerm(n)
    \/ \E p \in Pids : StragglerTerm(p)

ExecutorStep == Loop \/ Shutdown

Ctl ==
    \E c \in Clients : \/ \E kind \in Requests, n \in Names : Send(c, kind, n)
                       \/ \E n \in Names : StopLookup(c, n)
                       \/ StopKill(c) \/ Status(c) \/ Refuse(c)

World ==
    \/ \E p \in Pids, status \in Statuses : Exit(p, status)
    \/ \E n \in Watched : WatcherSignals(n)
    \/ ShutdownSignal
    \/ \E e \in Edits : EditFile(e[1], e[2])

\* After run_with_marker has returned nothing is left to do.
Terminated == pc \in Returned /\ UNCHANGED vars

Next == ExecutorStep \/ Ctl \/ World \/ Terminated

Spec == Init /\ [][Next]_vars
-----------------------------------------------------------------------------
(* Fairness. The executor's thread is always scheduled, and its waits have *)
(* deadlines, so some step of it is always eventually taken. What children *)
(* do is assumed only where a property says so.                            *)
FairExecutor == WF_vars(ExecutorStep)

\* A client that looked up its pid gets to send the signal.
FairClients == \A c \in Clients : WF_vars(StopKill(c))

\* Daemons write their readiness file; one-shots and crashed daemons exit.
FairBoot ==
    /\ \A n \in Watched : WF_vars(WatcherSignals(n))
    /\ \A p \in Pids : WF_vars(pid_to_name[p] \notin Watched
                               /\ \E status \in Statuses : Exit(p, status))

\* Children honour SIGTERM.
FairTerm ==
    \A p \in Pids : WF_vars(sent[p] # "none" /\ \E status \in Statuses : Exit(p, status))

SpecExecutor == Spec /\ FairExecutor
SpecBoot     == Spec /\ FairExecutor /\ FairBoot
SpecCtl      == Spec /\ FairExecutor /\ FairClients /\ FairTerm

-----------------------------------------------------------------------------
\* Type invariant: every variable stays in the range the code gives it.
TypeOK ==
    /\ pc \in LoopPhases \cup StopPhases \cup Returned
    /\ proc \in [Pids -> {"free", "alive"} \cup Statuses]
    /\ sent \in [Pids -> {"none", "TERM", "KILL"}]
    /\ svc_state \in [Names -> States]
    /\ shared_pid \in [Names -> Pids \cup {NONE}]
    /\ pid_to_name \in [Pids -> Names \cup {NONE}]
    /\ spawned \subseteq Names
    /\ in_degree \in [Services -> Nat]
    /\ to_start \subseteq Services
    /\ marks \in [Names -> Nat]
    /\ verdict \in [Names -> {"none", "good", "bad"}]
    /\ ready_reported \subseteq Names
    /\ blocked_services \subseteq Services
    /\ restart_counts \in [Names -> Nat]
    /\ completed \in Nat
    /\ lost \subseteq Watched
    /\ pids \subseteq Pids
    /\ ready_rx \subseteq Watched
    /\ watching \subseteq Watched
    /\ cmd_rx \subseteq Messages
    /\ conn \in [Clients -> {"idle", "stopping", "waiting", "ok", "error", "disconnected"}]
    /\ stop_pid \in [Clients -> Pids \cup {NONE}]
    /\ pending_restart \subseteq Names
    /\ restart_replies \in [Names -> Clients \cup {NONE}]
    /\ svc_by_name \in [Names -> Contents \cup {NONE}]
    /\ service_raw \in [Names -> Contents \cup {NONE}]
    /\ disk \in [Names -> Contents \cup {NONE}]
    /\ shutdown \in BOOLEAN
    /\ marker \in BOOLEAN
    /\ kill_rest \subseteq Names
    /\ kill_layer \subseteq Names
    /\ victim \in Pids \cup {NONE}

(* No child it has spawned is ever lost or waited for twice: while the     *)
(* loop runs, the pids in pid_to_name are exactly the spawned and unreaped *)
(* children (orphans that PID 1 adopts are not in the model). The ECHILD   *)
(* arm of the poll ("shouldn't happen in normal use") is dead code.        *)
ChildrenTracked ==
    pc \in LoopPhases => \A p \in Pids : proc[p] = "free" <=> pid_to_name[p] = NONE

(* Start order: a service has a process only after every dependency was    *)
(* released (ready or finished), and only if no hard dependency's first    *)
(* news was a failure. Without control requests.                           *)
StartedInOrder ==
    \A s \in spawned \cap Services :
        /\ \A d \in Deps(s) : verdict[d] # "none"
        /\ \A d \in Needs[s] \cap Services : verdict[d] = "good"

(* The in-degree counters that mark_ready decrements are exactly the       *)
(* number of dependencies still unreleased, across readiness messages,     *)
(* exits, restarts and blocked services. Without control requests.         *)
InDegreeExact ==
    \A s \in Services :
        in_degree[s] = Cardinality({d \in Deps(s) : verdict[d] = "none"})

(* mark_ready runs at most once per service, whichever of the pidfile, the *)
(* exit and the block comes first (comment of run). Without control        *)
(* requests.                                                               *)
MarkedOnce == \A n \in Names : marks[n] <= 1

(* `completed`, which ends the loop, counts each finished service exactly  *)
(* once. Without control requests.                                         *)
CompletedExact ==
    completed = Cardinality({s \in Services : svc_state[s] \in {"Exited", "Failed"}})

(* The ready marker is written only when every service has exited or       *)
(* failed and no child is left. Without control requests.                  *)
CleanExit ==
    marker => /\ \A p \in Pids : proc[p] = "free"
              /\ \A s \in Services : svc_state[s] \in {"Exited", "Failed"}

(* The status the control socket reports is live: a service is reported    *)
(* running or ready exactly while it has a process, and the pid reported   *)
(* is a process of it. Without control requests.                           *)
StatusLive ==
    pc \in LoopPhases =>
        \A n \in Names :
            /\ svc_state[n] \in {"Running", "Ready"} <=> PidsOf(n) # {}
            /\ shared_pid[n] \in PidsOf(n) \cup {NONE}

(* A permanently failed service stays failed: no late readiness message    *)
(* and no restart brings it back. Without control requests.                *)
FailedIsFinal ==
    [][\A s \in Services : svc_state[s] = "Failed" => svc_state'[s] = "Failed"]_vars

(* No service is started while one it needs is permanently Failed.         *)
NeedsNotFailed ==
    [][\A s \in (spawned' \ spawned) \cap Services :
           \A d \in Needs[s] \cap Services : svc_state[d] # "Failed"]_vars

(* If children get on with it, every service is eventually started or      *)
(* settled, unless the executor dies on a spawn error or is shut down: no  *)
(* dependency waits for ever.                                              *)
BootProgress ==
    FairBoot =>
        \A s \in Services : <>(svc_state[s] # "Pending" \/ shutdown \/ pc = "error")

(* A failed hard dependency never leaves its dependent waiting for ever,   *)
(* if children get on with it.                                             *)
FailurePropagates ==
    FairBoot =>
        \A s \in Services : \A d \in Needs[s] \cap Services :
            svc_state[d] = "Failed" ~> (svc_state[s] # "Pending" \/ shutdown \/ pc = "error")

(* Reverse order of shutdown: when a service is being stopped, no process  *)
(* of a service that depends on it is still supervised.                    *)
StopOrder ==
    pc \in {"stopwait", "killwait"} =>
        \A q \in Tracked \ {victim} :
            pid_to_name[q] \notin dependents(pid_to_name[victim])

(* When the shutdown branch is through, each child it leaves behind has    *)
(* been sent SIGKILL (and only sits in an uninterruptible wait), second    *)
(* processes of a name included.                                           *)
NoSurvivor ==
    pc = "stragglers" /\ pids = {} => \A p \in Pids : proc[p] = "alive" => sent[p] = "KILL"

(* A shutdown request always ends the executor, even if no child ever      *)
(* reacts to a signal.                                                     *)
ShutdownCompletes == shutdown ~> pc \in Returned

(* A client that waits has its reply sender in exactly one place: in the   *)
(* channel or parked under one service. So no reply is lost while the      *)
(* executor runs, and none is sent twice.                                  *)
ReplyOwned ==
    \A c \in Clients :
        LET queued == {m \in cmd_rx : m.client = c}
            parked == {n \in Names : restart_replies[n] = c}
        IN Cardinality(queued) + Cardinality(parked) = IF conn[c] = "waiting" THEN 1 ELSE 0

(* A reply is parked only for a service that has a process whose exit will *)
(* release it. The exception is a service whose earlier respawn failed     *)
(* before its readiness message was taken: the late message makes it Ready *)
(* again, without a process.                                               *)
ParkedHasProcess ==
    pc \in LoopPhases =>
        \A n \in Names \ lost :
            restart_replies[n] # NONE => n \in pending_restart /\ PidsOf(n) # {}

\* An answered connection is never answered again with something else.
ReplyFinal ==
    [][\A c \in Clients :
           conn[c] \in {"ok", "error", "disconnected"} => conn'[c] = conn[c]]_vars

(* Every request is eventually answered, if children honour SIGTERM, also  *)
(* when respawns fail; unless it is parked for a service that an earlier   *)
(* failed respawn has left Ready without a process.                        *)
ReplyEventually ==
    \A c \in Clients : conn[c] \in {"waiting", "stopping"} ~>
        \/ conn[c] \in {"ok", "error", "disconnected"}
        \/ \E n \in lost : restart_replies[n] = c

(* Refinement: without control requests the loop implements BootOrder.     *)
Abs == INSTANCE BootOrder WITH
    st <- [s \in Services |-> IF s \in spawned THEN "started"
                              ELSE IF verdict[s] = "bad" THEN "skipped" ELSE "waiting"],
    verdict <- [s \in Services |-> verdict[s]]

(* The queue, the counters, the readiness channel and the restarts of the  *)
(* loop only ever start, skip and release services as BootOrder allows.    *)
ImplementsBootOrder == Abs!Spec
=============================================================================
