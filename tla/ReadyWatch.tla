----------------------------- MODULE ReadyWatch -----------------------------
(***************************************************************************)
(* Readiness files: what main prepares for each service that has one, and  *)
(* the watcher thread of src/src/ready.rs, step by step against a service  *)
(* that creates and removes its file and may replace the directory it lies *)
(* in. Module Executor sees of all this one action, WatcherSignals.        *)
(***************************************************************************)
EXTENDS Naturals, FiniteSets

CONSTANTS
    Watched,       \* services with a ready.path, each in a directory of its own
    MAX_DIRS       \* bound: how often the directory of a path is made

ASSUME WatchedAssumption == IsFiniteSet(Watched) /\ MAX_DIRS \in Nat \ {0}

VARIABLES
    file,     \* "absent", "stale" (of an earlier boot) or "fresh"
    dirs,     \* services whose directory exists
    dirgen,   \* which directory of that name it is
    watch,    \* where the watcher thread is
    reg,      \* the directory its inotify watch is on
    pending,  \* watches with an event for their file
    listening,\* the receiver of the channel exists
    sent,     \* services whose name has been sent on the channel
    created   \* history: services that have created their file in this boot

placeVars == <<file, dirs, dirgen>>
readyVars == <<placeVars, watch, reg, pending, listening, sent, created>>

ReadyInit ==
    /\ dirs \in SUBSET Watched
    /\ file \in [Watched -> {"absent", "stale"}]
    /\ \A s \in Watched : file[s] = "stale" => s \in dirs
    /\ dirgen = [s \in Watched |-> IF s \in dirs THEN 1 ELSE 0]
    /\ watch = [s \in Watched |-> "none"] /\ reg = [s \in Watched |-> 0]
    /\ pending = {} /\ listening = TRUE /\ sent = {} /\ created = {}

\* pid1::setup mounts a new tmpfs: what was under /run is out of sight (a
\* path below /var/run need not be there).
RunHidden(hidden) ==
    file' = [s \in Watched |-> IF s \in hidden THEN "absent" ELSE file[s]]

\* Then it makes the directories that tmpfiles.d asks for.
apply_tmpfiles(there, made) ==
    /\ dirs' = there \cup made
    /\ dirgen' = [s \in Watched |-> dirgen[s] + IF s \in made \ there THEN 1 ELSE 0]
    /\ UNCHANGED <<watch, reg, pending, listening, sent, created>>

-----------------------------------------------------------------------------
\* Mutant: the file of an earlier boot stays.
MutPrepareKeepsFile(s) ==
    /\ dirs' = dirs \cup {s}
    /\ dirgen' = [dirgen EXCEPT ![s] = IF s \in dirs THEN @ ELSE @ + 1]
    /\ watch' = [watch EXCEPT ![s] = "look"]
    /\ UNCHANGED <<file, reg, pending, listening, sent, created>>

\* main, for one service: remove_file, create_dir_all, start the watcher. The
\* result of remove_file is dropped; a file of a writable directory goes.
Prepare(s) ==
    /\ file' = [file EXCEPT ![s] = "absent"]
    /\ dirs' = dirs \cup {s}
    /\ dirgen' = [dirgen EXCEPT ![s] = IF s \in dirs THEN @ ELSE @ + 1]
    /\ watch' = [watch EXCEPT ![s] = "look"]
    /\ UNCHANGED <<reg, pending, listening, sent, created>>

\* tx.send(service_name)?; the thread ends either way.
SendName(s) ==
    /\ sent' = IF listening THEN sent \cup {s} ELSE sent
    /\ watch' = [watch EXCEPT ![s] = IF listening THEN "sent" ELSE "failed"]

\* The fast path, and the same check again after the registration.
Look(s, at, next) ==
    /\ watch[s] = at
    /\ IF file[s] # "absent" THEN SendName(s)
       ELSE watch' = [watch EXCEPT ![s] = next] /\ UNCHANGED sent
    /\ UNCHANGED <<placeVars, reg, pending, listening, created>>

\* Mutant: the thread waits as soon as its watch is in place.
MutRegisterWaits(s) ==
    /\ watch[s] = "register"
    /\ s \in dirs
    /\ reg' = [reg EXCEPT ![s] = dirgen[s]]
    /\ watch' = [watch EXCEPT ![s] = "wait"]
    /\ UNCHANGED <<placeVars, pending, listening, sent, created>>

Register(s) ==
    /\ watch[s] = "register"
    /\ s \in dirs
    /\ reg' = [reg EXCEPT ![s] = dirgen[s]]
    /\ watch' = [watch EXCEPT ![s] = "again"]
    /\ UNCHANGED <<placeVars, pending, listening, sent, created>>

\* No inotify instance left, or no directory to watch: a line in the log and
\* no watcher.
RegisterFails(s) ==
    /\ watch[s] = "register"
    /\ watch' = [watch EXCEPT ![s] = "failed"]
    /\ UNCHANGED <<placeVars, reg, pending, listening, sent, created>>

\* An event with the file's name. An event without one (IN_IGNORED, after
\* the directory is gone) is skipped, and nothing more will come.
Event(s) ==
    /\ watch[s] = "wait" /\ s \in pending
    /\ SendName(s)
    /\ pending' = pending \ {s}
    /\ UNCHANGED <<placeVars, reg, listening, created>>

Watcher(s) ==
    \/ Look(s, "look", "register") \/ Look(s, "again", "wait")
    \/ Register(s) \/ RegisterFails(s) \/ Event(s)

-----------------------------------------------------------------------------
(* A service and its file.                                                 *)
Watches(s) == watch[s] \in {"again", "wait"} /\ reg[s] = dirgen[s]

CreateFile(s) ==
    /\ s \in dirs /\ file[s] = "absent"
    /\ file' = [file EXCEPT ![s] = "fresh"]
    /\ created' = created \cup {s}
    /\ pending' = IF Watches(s) THEN pending \cup {s} ELSE pending
    /\ UNCHANGED <<dirs, dirgen, watch, reg, listening, sent>>

RemoveFile(s) ==
    /\ file[s] = "fresh"
    /\ file' = [file EXCEPT ![s] = "absent"]
    /\ UNCHANGED <<dirs, dirgen, watch, reg, pending, listening, sent, created>>

RemoveDir(s) ==
    /\ s \in dirs /\ dirgen[s] < MAX_DIRS
    /\ dirs' = dirs \ {s}
    /\ file' = [file EXCEPT ![s] = "absent"]
    /\ UNCHANGED <<dirgen, watch, reg, pending, listening, sent, created>>

MakeDir(s) ==
    /\ s \notin dirs
    /\ dirs' = dirs \cup {s}
    /\ dirgen' = [dirgen EXCEPT ![s] = @ + 1]
    /\ UNCHANGED <<file, watch, reg, pending, listening, sent, created>>

ServiceFile(s) == CreateFile(s) \/ RemoveFile(s) \/ RemoveDir(s) \/ MakeDir(s)

-----------------------------------------------------------------------------
ReadyTypeOK ==
    /\ file \in [Watched -> {"absent", "stale", "fresh"}]
    /\ dirs \subseteq Watched /\ dirgen \in [Watched -> 0..(MAX_DIRS + 1)]
    /\ watch \in [Watched -> {"none", "look", "register", "again", "wait", "sent", "failed"}]
    /\ reg \in [Watched -> 0..(MAX_DIRS + 1)]
    /\ pending \subseteq Watched /\ listening \in BOOLEAN
    /\ sent \subseteq Watched /\ created \subseteq Watched
    /\ \A s \in Watched : file[s] # "absent" => s \in dirs

(* A service is reported ready only after it has created its file in this  *)
(* boot: a file left by an earlier one never counts, whether /run is       *)
(* mounted anew or not. This is the guard of Executor!WatcherSignals.      *)
NoFalseReady == sent \subseteq created

\* The watch is on a directory that is not the one of the path any more.
Blind(s) == watch[s] \in {"again", "wait"} /\ reg[s] # dirgen[s]

(* A readiness file that stays is noticed, at whatever moment between the  *)
(* two looks and the registration it appears, unless the watcher could not *)
(* be set up or the directory was replaced under it.                       *)
ReadySeen ==
    \A s \in Watched :
        file[s] = "fresh" ~> \/ s \in sent \/ watch[s] = "failed" \/ Blind(s)
                             \/ file[s] # "fresh" \/ ~listening
=============================================================================
