----------------------------- MODULE SystemInit -----------------------------
(***************************************************************************)
(* flint-init from exec to the end (src/src/main.rs and src/src/pid1.rs):  *)
(* the essential mounts and fstab, the signal handlers, the readiness      *)
(* watchers, the executor, and the way down: unmounting and reboot(2).     *)
(* Executor and cache are modelled in modules of their own; here they only *)
(* return. Signal handlers run on any thread, between any two steps.       *)
(***************************************************************************)
EXTENDS MountTable, ReadyWatch

CONSTANTS
    Fstab,       \* the lines of /etc/fstab
    LaterMounts, \* mounts that services make
    ON_EXIT      \* FLINT_ON_EXIT: "halt", "reboot" or "unset"

ASSUME FstabAssumption ==
    Fstab \in Seq(Line) /\ LaterMounts \subseteq Mount /\ ON_EXIT \in {"halt", "reboot", "unset"}

VARIABLES
    pid1,     \* std::process::id() == 1
    stage,    \* where main is: see Stages
    step,     \* position in the mounts to make, or in the paths to unmount
    mounts,   \* the mount table, without the essential mounts
    left,     \* services for which main has still to start the watcher
    running,  \* services the executor has started
    SHUTDOWN, REBOOT, \* the two flags
    usr1,     \* how far handle_reboot is: "none", "entered", "stored", "done"
    term,     \* SIGTERM or SIGINT was delivered
    obeyed,   \* the executor returned because it saw SHUTDOWN
    how,      \* supervise_forever: what reboot(2) is about to be told
    refused,  \* history: a call of reboot(2) failed
    paths,    \* unmount_all: the paths it goes through
    listed    \* history: the mount table unmount_all read

flags    == <<SHUTDOWN, REBOOT, usr1, term>>
downVars == <<obeyed, how, refused, paths, listed>>
mainVars == <<pid1, stage, step, mounts, left, running, downVars>>
vars     == <<mainVars, flags, readyVars>>

Essentials == <<"/proc", "/sys", "/run", "/sys/fs/cgroup", "/dev">>

Ended  == {"halted", "rebooted", "reaping", "exited"}
Stages == Ended \cup {"essential", "fstab", "handlers", "load", "prepare",
                      "services", "returned", "unmount", "call", "match"}

Init ==
    /\ ReadyInit
    /\ pid1 \in BOOLEAN
    /\ stage = IF pid1 THEN "essential" ELSE "handlers"
    /\ step = 1 /\ mounts = <<>>
    /\ left = Watched /\ running = {}
    /\ SHUTDOWN = FALSE /\ REBOOT = FALSE /\ usr1 = "none" /\ term = FALSE
    /\ obeyed = FALSE /\ how = "none" /\ refused = FALSE
    /\ paths = <<>> /\ listed = <<>>

-----------------------------------------------------------------------------
(* pid1::setup.                                                            *)

\* The next essential mount succeeds or is there already (EBUSY); that of the
\* cgroup hierarchy may fail too. A new tmpfs on /run hides what was there.
MountEssential ==
    /\ stage = "essential" /\ step <= Len(Essentials)
    /\ step' = step + 1
    /\ \/ /\ Essentials[step] = "/run"
          /\ \E hidden, made \in SUBSET Watched :
                RunHidden(hidden) /\ apply_tmpfiles(dirs \ hidden, made)
       \/ Essentials[step] # "/run" /\ UNCHANGED readyVars
    /\ UNCHANGED <<pid1, stage, mounts, left, running, downVars, flags>>

\* Any other error, of create_dir_all or of mount, ends main.
EssentialFails ==
    /\ stage = "essential" /\ step <= Len(Essentials)
    /\ stage' = "exited"
    /\ UNCHANGED <<pid1, step, mounts, left, running, downVars, flags, readyVars>>

EndEssential ==
    /\ stage = "essential" /\ step > Len(Essentials)
    /\ stage' = "fstab" /\ step' = 1
    /\ UNCHANGED <<pid1, mounts, left, running, downVars, flags, readyVars>>

\* mount_all: each entry is mounted or, after a warning, is not.
MountEntry ==
    /\ stage = "fstab" /\ step <= Len(ToMount(Fstab))
    /\ step' = step + 1
    /\ \/ mounts' = Append(mounts, [path |-> ToMount(Fstab)[step].file, virtual |-> FALSE])
       \/ UNCHANGED mounts
    /\ UNCHANGED <<pid1, stage, left, running, downVars, flags, readyVars>>

EndSetup ==
    /\ stage = "fstab" /\ step > Len(ToMount(Fstab))
    /\ stage' = "handlers"
    /\ UNCHANGED <<pid1, step, mounts, left, running, downVars, flags, readyVars>>

-----------------------------------------------------------------------------
(* main.                                                                   *)
InstallHandlers ==
    /\ stage = "handlers" /\ stage' = "load"
    /\ UNCHANGED <<pid1, step, mounts, left, running, downVars, flags, readyVars>>

\* The services are loaded and their graph is built, or main returns: with
\* an error, or because there are none.
LoadServices ==
    /\ stage = "load" /\ stage' \in {"prepare", "exited"}
    /\ UNCHANGED <<pid1, step, mounts, left, running, downVars, flags, readyVars>>

PrepareService(s) ==
    /\ stage = "prepare" /\ s \in left
    /\ Prepare(s)
    /\ left' = left \ {s}
    /\ UNCHANGED <<pid1, stage, step, mounts, running, downVars, flags>>

\* create_dir_all fails.
PrepareFails ==
    /\ stage = "prepare" /\ left # {}
    /\ stage' = "exited"
    /\ UNCHANGED <<pid1, step, mounts, left, running, downVars, flags, readyVars>>

\* Mutant: the executor runs before every watcher is started.
MutRunExecutorEarly ==
    /\ stage = "prepare" /\ stage' = "services"
    /\ UNCHANGED <<pid1, step, mounts, left, running, downVars, flags, readyVars>>

RunExecutor ==
    /\ stage = "prepare" /\ left = {} /\ stage' = "services"
    /\ UNCHANGED <<pid1, step, mounts, left, running, downVars, flags, readyVars>>

\* Module Executor: a service is started ...
StartService(s) ==
    /\ stage = "services" /\ s \notin running
    /\ running' = running \cup {s}
    /\ UNCHANGED <<pid1, stage, step, mounts, left, downVars, flags, readyVars>>

\* ... and makes a mount.
ServiceMount(m) ==
    /\ stage = "services" /\ pid1 /\ m \in LaterMounts
    /\ \A i \in DOMAIN mounts : mounts[i] # m
    /\ mounts' = Append(mounts, m)
    /\ UNCHANGED <<pid1, stage, step, left, running, downVars, flags, readyVars>>

\* run returns: it saw SHUTDOWN, or all services were done. The receiver of
\* the readiness channel goes with it.
ExecutorReturns ==
    /\ stage = "services" /\ stage' = "returned"
    /\ (SHUTDOWN /\ obeyed' = TRUE) \/ obeyed' = FALSE
    /\ listening' = FALSE
    /\ UNCHANGED <<pid1, step, mounts, left, running, how, refused, paths, listed, flags,
                   placeVars, watch, reg, pending, sent, created>>

\* run fails: main returns the error.
ExecutorFails ==
    /\ stage = "services" /\ stage' = "exited"
    /\ listening' = FALSE
    /\ UNCHANGED <<pid1, step, mounts, left, running, downVars, flags,
                   placeVars, watch, reg, pending, sent, created>>

-----------------------------------------------------------------------------
(* pid1::supervise_forever.                                                *)

\* unmount_all reads /proc/mounts and collects the paths; if it cannot, there
\* are none.
Unmount(mode) ==
    /\ stage' = "unmount" /\ how' = mode /\ step' = 1
    /\ listed' \in {mounts, <<>>} /\ paths' = PathsToUnmount(listed')

\* Only PID 1 gets here; another process just returns. REBOOT is read once.
Supervise ==
    /\ stage = "returned"
    /\ IF ~pid1 THEN stage' = "exited" /\ UNCHANGED <<step, how, paths, listed>>
       ELSE IF REBOOT THEN Unmount("reboot")
       ELSE stage' = "match" /\ UNCHANGED <<step, how, paths, listed>>
    /\ UNCHANGED <<pid1, mounts, left, running, obeyed, refused, flags, readyVars>>

\* The match on FLINT_ON_EXIT; all that is not "reboot" halts.
MatchOnExit ==
    /\ stage = "match"
    /\ Unmount(IF ON_EXIT = "reboot" THEN "exit_reboot" ELSE "exit_halt")
    /\ UNCHANGED <<pid1, mounts, left, running, obeyed, refused, flags, readyVars>>

\* Mutant: a path that cannot be unmounted is tried again.
MutUmountRetries ==
    /\ stage = "unmount" /\ step <= Len(paths)
    /\ mounts' = umount2(mounts, paths[step])
    /\ step' = IF mounts' = mounts THEN step ELSE step + 1
    /\ UNCHANGED <<pid1, stage, left, running, downVars, flags, readyVars>>

\* One turn of the loop of unmount_all; an error is only logged.
UmountNext ==
    /\ stage = "unmount" /\ step <= Len(paths)
    /\ mounts' = umount2(mounts, paths[step])
    /\ step' = step + 1
    /\ UNCHANGED <<pid1, stage, left, running, downVars, flags, readyVars>>

\* sync(), and the call.
EndUnmount ==
    /\ stage = "unmount" /\ step > Len(paths) /\ stage' = "call"
    /\ UNCHANGED <<pid1, step, mounts, left, running, downVars, flags, readyVars>>

RebootCall ==
    /\ stage = "call"
    /\ stage' = IF how = "exit_halt" THEN "halted" ELSE "rebooted"
    /\ UNCHANGED <<pid1, step, mounts, left, running, downVars, flags, readyVars>>

\* reboot(2) fails and its result is dropped: after the first call main
\* goes on to the match, after the second into the reaping loop.
RebootCallFails ==
    /\ stage = "call"
    /\ stage' = IF how = "reboot" THEN "match" ELSE "reaping"
    /\ refused' = TRUE
    /\ UNCHANGED <<pid1, step, mounts, left, running, obeyed, how, paths, listed,
                   flags, readyVars>>

-----------------------------------------------------------------------------
(* Signals. Before the handlers are there PID 1 drops them, and a process  *)
(* that is not PID 1 dies of them.                                         *)
EarlySignal ==
    /\ stage = "handlers" /\ ~pid1
    /\ stage' = "exited"
    /\ UNCHANGED <<pid1, step, mounts, left, running, downVars, flags, readyVars>>

CanHandle == stage \notin Ended \cup {"essential", "fstab", "handlers"}

SigTerm ==
    /\ CanHandle /\ ~term
    /\ term' = TRUE /\ SHUTDOWN' = TRUE
    /\ UNCHANGED <<mainVars, REBOOT, usr1, readyVars>>

SigUsr1 ==
    /\ CanHandle /\ usr1 = "none" /\ usr1' = "entered"
    /\ UNCHANGED <<mainVars, SHUTDOWN, REBOOT, term, readyVars>>

\* Mutant: the two stores of handle_reboot in the other order.
MutStoresSwapped ==
    /\ CanHandle /\ UNCHANGED <<mainVars, term, readyVars>>
    /\ \/ usr1 = "entered" /\ SHUTDOWN' = TRUE /\ usr1' = "stored" /\ UNCHANGED REBOOT
       \/ usr1 = "stored" /\ REBOOT' = TRUE /\ usr1' = "done" /\ UNCHANGED SHUTDOWN

\* handle_reboot: REBOOT first, then SHUTDOWN.
HandleReboot ==
    /\ CanHandle /\ UNCHANGED <<mainVars, term, readyVars>>
    /\ \/ usr1 = "entered" /\ REBOOT' = TRUE /\ usr1' = "stored" /\ UNCHANGED SHUTDOWN
       \/ usr1 = "stored" /\ SHUTDOWN' = TRUE /\ usr1' = "done" /\ UNCHANGED REBOOT

-----------------------------------------------------------------------------
Setup == MountEssential \/ EssentialFails \/ EndEssential \/ MountEntry \/ EndSetup

Main ==
    \/ InstallHandlers \/ LoadServices \/ PrepareFails \/ RunExecutor
    \/ \E s \in Watched : PrepareService(s)

Down == Supervise \/ MatchOnExit \/ UmountNext \/ EndUnmount \/ RebootCall \/ RebootCallFails

Services ==
    \/ \E s \in Watched : StartService(s)
    \/ \E m \in LaterMounts : ServiceMount(m)
    \/ stage = "services" /\ \E s \in running : ServiceFile(s) /\ UNCHANGED <<mainVars, flags>>

Watchers == \E s \in Watched : Watcher(s) /\ UNCHANGED <<mainVars, flags>>

Next ==
    \/ Setup \/ Main \/ Services \/ ExecutorReturns \/ ExecutorFails \/ Down
    \/ EarlySignal \/ SigTerm \/ SigUsr1 \/ HandleReboot
    \/ stage \notin Ended /\ Watchers
    \/ stage \in Ended /\ UNCHANGED vars

(* Threads are scheduled; the executor returns once SHUTDOWN is set        *)
(* (Executor!ShutdownCompletes). Nothing makes a service do its part.      *)
Spec ==
    /\ Init /\ [][Next]_vars
    /\ WF_vars(Setup) /\ WF_vars(Main) /\ WF_vars(Down) /\ WF_vars(HandleReboot)
    /\ WF_vars(SHUTDOWN /\ ExecutorReturns)
    /\ \A s \in Watched : WF_vars(stage \notin Ended /\ Watcher(s) /\ UNCHANGED <<mainVars, flags>>)

-----------------------------------------------------------------------------
(* Types. No loop runs past the end of what it goes through, and a service *)
(* acts on files only after main has prepared them all.                    *)
TypeOK ==
    /\ ReadyTypeOK
    /\ pid1 \in BOOLEAN /\ stage \in Stages
    /\ step \in Nat \ {0}
    /\ stage = "essential" => step <= Len(Essentials) + 1
    /\ stage = "fstab" => step <= Len(ToMount(Fstab)) + 1
    /\ stage = "unmount" => step <= Len(paths) + 1
    /\ mounts \in Seq(Mount) /\ listed \in Seq(Mount) /\ paths \in Seq(Fields)
    /\ left \subseteq Watched /\ running \subseteq Watched
    /\ running # {} => left = {}
    /\ {SHUTDOWN, REBOOT, term, obeyed, refused} \subseteq BOOLEAN
    /\ usr1 \in {"none", "entered", "stored", "done"}
    /\ how \in {"none", "reboot", "exit_reboot", "exit_halt"}

(* A machine asked to reboot, and to nothing else, is never halted: when   *)
(* the executor stopped because it saw SHUTDOWN and the only signal was    *)
(* SIGUSR1, main also sees REBOOT, unless reboot(2) itself fails.          *)
RebootHonoured ==
    stage = "halted" /\ obeyed /\ ~term => refused

(* When reboot(2) is called no filesystem with data is mounted any more,   *)
(* in whatever order fstab and the services mounted one over the other;    *)
(* except one that a virtual filesystem had been mounted over or whose     *)
(* path /proc/mounts shows escaped, and unless /proc/mounts could not be   *)
(* read.                                                                   *)
NothingLeftMounted ==
    stage = "call" /\ listed # <<>> =>
        \A i \in DOMAIN mounts :
            \/ mounts[i].virtual \/ ~Plain(mounts[i].path)
            \/ \E j, k \in DOMAIN listed :
                  listed[j] = mounts[i] /\ listed[k].virtual /\ Covers(listed, k, j)

(* Once SHUTDOWN is set flint-init gets to the end: no unmount, failed     *)
(* call of reboot(2) or late signal keeps it from there.                   *)
PowerDownCompletes == SHUTDOWN ~> stage \in Ended
=============================================================================
