---------------------------- MODULE ConfigCache ----------------------------
(***************************************************************************)
(* The services directory and its binary manifest: load_services_cached    *)
(* (src/src/cache.rs), called by flint-init at boot and by flint-watch     *)
(* when it starts, the event loop of flint-watch                           *)
(* (src/src/bin/flint_watch.rs) that keeps the manifest current, and       *)
(* everybody else who writes, moves and deletes files meanwhile. Whether   *)
(* flint-init finds a bootable configuration is decided here and compared  *)
(* with what flint-ctl check (module Preflight) says of the same files.    *)
(***************************************************************************)
EXTENDS Preflight, Sequences

CONSTANTS
    Texts,      \* contents that end up in service files
    MAX_CLOCK,  \* bound: seconds of model time
    MAX_EDITS,  \* bound: changes made by hand to the directory
    MAX_QUEUED  \* capacity of the inotify queue

ASSUME TextsAreTexts == Texts \subseteq Text

ASSUME BoundsAssumption == MAX_CLOCK \in Nat /\ MAX_EDITS \in Nat /\ MAX_QUEUED \in Nat

VARIABLES
    disk,     \* [Files -> NONE or [text, mtime]]
    writing,  \* the file that a writer has truncated and not yet closed, or NONE
    now,      \* the clock, in the seconds that mtime_secs keeps
    edits,    \* how much of MAX_EDITS has been used
    manifest, \* services.bin: NONE (absent, torn, other version) or its entries
    durable,  \* the services.bin that is on stable storage
    stage,    \* what runs: see Stages
    scan,     \* load: toml_files, the mtime of every file of the listing
    todo,     \* load: files of the listing whose turn has not come
    work,     \* the copy of the manifest being edited, or NONE
    changed,  \* load: the flag `changed`
    queue,    \* inotify events not yet dealt with
    parsed,   \* flint-watch between parse and stat: [file, def], or NONE
    history,  \* history: every parsable version each file ever had
    raced,    \* history: files changed between the two looks a reader takes
    noticed   \* history: files of which flint-watch has missed no change

loader  == <<scan, todo, work, changed>>
watcher == <<queue, parsed>>
files   == <<manifest, durable>>
vars == <<disk, writing, now, edits, files, stage, loader, watcher,
          history, raced, noticed>>

Stages == {"off",         \* powered off
           "boot",        \* flint-init loads the services
           "unloadable",  \* ... and failed: a file is not a service definition
           "io_error",    \* ... and failed: something cannot be read or written
           "unbuildable", \* ... and failed: no dependency graph
           "empty",       \* ... and returned: no services
           "up",          \* services run, flint-watch does not
           "start",       \* flint-watch loads the services
           "watch"}       \* flint-watch reads events

\* What a reader of a service file keeps of a text that parses.
parse_toml(t) == [name |-> t.name, needs |-> t.needs, after |-> t.after]

\* A file that was opened for writing and has no content yet.
Torn == [parses |-> FALSE, valid |-> FALSE,
         name |-> CHOOSE l \in Labels : TRUE, needs |-> {}, after |-> {}]

NoEntries == [f \in Files |-> NONE]
Contents  == [f \in Files |-> IF disk[f] = NONE THEN NONE ELSE disk[f].text]

\* The entries of read_manifest, none where there is no usable manifest.
ReadEntries == IF manifest = NONE THEN NoEntries ELSE manifest

Readable(f) == disk[f] # NONE /\ disk[f].text.parses

Init ==
    /\ disk = NoEntries /\ writing = NONE /\ now = 0 /\ edits = 0
    /\ manifest = NONE /\ durable = NONE /\ stage = "off"
    /\ scan = NoEntries /\ todo = {} /\ work = NONE /\ changed = FALSE
    /\ queue = <<>> /\ parsed = NONE
    /\ history = [f \in Files |-> {}] /\ raced = {} /\ noticed = {}

(* write_manifest: rename without fsync. By the time of a further write    *)
(* the kernel may or may not have brought the previous manifest to stable  *)
(* storage.                                                                *)
write_manifest(m) == manifest' = m /\ durable' \in {durable, manifest}

-----------------------------------------------------------------------------
(* load_services_cached, step by step. Without a manifest build_manifest   *)
(* parses every file, which is the same loop over no entries, and the      *)
(* result is always written.                                               *)

\* The listing with its mtimes.
scan_toml_files == [f \in Files |-> IF disk[f] = NONE THEN NONE ELSE disk[f].mtime]

\* The listing, read_manifest, and `retain`.
Scan(from, to) ==
    /\ stage = from /\ stage' = to
    /\ scan' = scan_toml_files
    /\ todo' = Present(disk)
    /\ work' = [f \in Files |-> IF disk[f] = NONE THEN NONE ELSE ReadEntries[f]]
    /\ changed' = (manifest = NONE \/ work' # manifest)
    /\ noticed' = Files
    /\ UNCHANGED <<disk, writing, now, edits, files, watcher, history, raced>>

BootLoad  == Scan("off", "boot")
WatchLoad == Scan("up", "start")

Fresh(f) == work[f] # NONE /\ work[f].mtime = scan[f]

\* Mutant: a stale entry gets the new mtime and keeps the old definition.
MutUpsertKeepsDef(f) ==
    /\ f \in todo
    /\ Fresh(f) \/ Readable(f)
    /\ todo' = todo \ {f}
    /\ work' = [work EXCEPT ![f] =
          IF work[f] # NONE THEN [work[f] EXCEPT !.mtime = scan[f]]
          ELSE [mtime |-> scan[f], def |-> parse_toml(disk[f].text)]]
    /\ changed' = (changed \/ ~Fresh(f))
    /\ UNCHANGED <<disk, writing, now, edits, files, stage, scan, watcher,
                   history, raced, noticed>>

\* Mutant: a file that does not parse gets an entry with the default definition.
MutUpsertDefault(f) ==
    /\ f \in todo
    /\ todo' = todo \ {f}
    /\ work' = [work EXCEPT ![f] =
          IF Fresh(f) THEN @
          ELSE [mtime |-> scan[f],
                def |-> IF Readable(f) THEN parse_toml(disk[f].text)
                        ELSE [name |-> "", needs |-> {}, after |-> {}]]]
    /\ changed' = (changed \/ ~Fresh(f))
    /\ UNCHANGED <<disk, writing, now, edits, files, stage, scan, watcher,
                   history, raced, noticed>>

\* One turn of the loop: skip a fresh entry, else parse the file as it is now.
Upsert(f) ==
    /\ f \in todo
    /\ Fresh(f) \/ Readable(f)
    /\ todo' = todo \ {f}
    /\ work' = [work EXCEPT ![f] =
          IF Fresh(f) THEN @
          ELSE [mtime |-> scan[f], def |-> parse_toml(disk[f].text)]]
    /\ changed' = (changed \/ ~Fresh(f))
    /\ UNCHANGED <<disk, writing, now, edits, files, stage, scan, watcher,
                   history, raced, noticed>>

EndLoad == todo' = {} /\ work' = NONE /\ scan' = NoEntries /\ changed' = FALSE

\* parse_toml(..)? : one bad file and the whole load is off.
LoadFails(f) ==
    /\ f \in todo
    /\ ~Fresh(f) /\ ~Readable(f)
    /\ stage' = IF stage = "boot" THEN "unloadable" ELSE "up"
    /\ EndLoad
    /\ UNCHANGED <<disk, writing, now, edits, files, watcher, history, raced, noticed>>

\* What ServiceGraph::build accepts (module GraphBuild): names that are
\* distinct, and no set of services that all wait inside it.
Buildable(entries) ==
    LET F == {f \in Files : entries[f] # NONE}
        Waits(f) == entries[f].def.needs \cup entries[f].def.after
        NamesOf(S) == {entries[f].def.name : f \in S}
    IN /\ Cardinality(NamesOf(F)) = Cardinality(F)
       /\ \A S \in SUBSET F : S # {} => \E f \in S : Waits(f) \cap NamesOf(S) = {}

\* write_manifest if anything changed; main goes on to build the graph.
FinishLoad ==
    /\ stage \in {"boot", "start"} /\ todo = {} /\ work # NONE
    /\ IF changed THEN write_manifest(work) ELSE UNCHANGED files
    /\ stage' = IF stage = "start" THEN "start"
                ELSE IF work = NoEntries THEN "empty"
                ELSE IF Buildable(work) THEN "up" ELSE "unbuildable"
    /\ EndLoad
    /\ UNCHANGED <<disk, writing, now, edits, watcher, history, raced, noticed>>

\* Every other `?` : the directory, a file or the manifest cannot be read, or
\* the manifest cannot be written.
LoadError ==
    /\ stage \in {"boot", "start"} /\ work # NONE
    /\ stage' = IF stage = "boot" THEN "io_error" ELSE "up"
    /\ EndLoad
    /\ UNCHANGED <<disk, writing, now, edits, files, watcher, history, raced, noticed>>

-----------------------------------------------------------------------------
(* The rest of flint-watch.                                                *)

\* inotify.watches().add: only now do changes produce events.
WatchAdd ==
    /\ stage = "start" /\ todo = {} /\ work = NONE
    /\ stage' = "watch"
    /\ UNCHANGED <<disk, writing, now, edits, files, loader, watcher,
                   history, raced, noticed>>

\* Mutant: a DELETE event rewrites the manifest it has read.
MutDeleteEventKeeps ==
    /\ stage = "watch" /\ queue # <<>> /\ Head(queue).kind = "DELETE"
    /\ write_manifest(ReadEntries)
    /\ queue' = Tail(queue)
    /\ UNCHANGED <<disk, writing, now, edits, stage, loader, parsed,
                   history, raced, noticed>>

DeleteEvent ==
    /\ stage = "watch" /\ queue # <<>> /\ Head(queue).kind = "DELETE"
    /\ write_manifest([ReadEntries EXCEPT ![Head(queue).file] = NONE])
    /\ queue' = Tail(queue)
    /\ UNCHANGED <<disk, writing, now, edits, stage, loader, parsed,
                   history, raced, noticed>>

\* CLOSE_WRITE or MOVED_TO: read_manifest, then parse_and_stat reads the text.
ParseEvent ==
    /\ stage = "watch" /\ queue # <<>> /\ Head(queue).kind = "WRITE" /\ parsed = NONE
    /\ LET f == Head(queue).file
       IN IF Readable(f)
          THEN /\ parsed' = [file |-> f, def |-> parse_toml(disk[f].text)]
               /\ work' = ReadEntries
               /\ UNCHANGED <<files, queue>>
          ELSE \* a warning; the manifest is written as it was read
               /\ write_manifest(ReadEntries)
               /\ queue' = Tail(queue)
               /\ UNCHANGED <<parsed, work>>
    /\ UNCHANGED <<disk, writing, now, edits, stage, scan, todo, changed,
                   history, raced, noticed>>

\* parse_and_stat takes the mtime; the entry is stored and the manifest written.
StatEvent ==
    /\ stage = "watch" /\ parsed # NONE
    /\ write_manifest(IF disk[parsed.file] = NONE THEN work
                      ELSE [work EXCEPT ![parsed.file] =
                              [mtime |-> disk[parsed.file].mtime, def |-> parsed.def]])
    /\ queue' = Tail(queue) /\ parsed' = NONE /\ work' = NONE
    /\ UNCHANGED <<disk, writing, now, edits, stage, scan, todo, changed,
                   history, raced, noticed>>

\* flint-watch ends: killed, no inotify, a write error, the directory gone.
WatchDies ==
    /\ stage \in {"start", "watch"}
    /\ stage' = "up"
    /\ EndLoad /\ queue' = <<>> /\ parsed' = NONE
    /\ UNCHANGED <<disk, writing, now, edits, files, history, raced, noticed>>

-----------------------------------------------------------------------------
(* The directory as others change it: editors and cp write in place,       *)
(* package managers move a file in with the mtime it was packed with.      *)

CanEdit(cost) == stage \in {"off", "up", "start", "watch"} /\ edits + cost <= MAX_EDITS

\* A reader is between its two looks at f.
Exposed(f) == f \in todo \/ (parsed # NONE /\ parsed.file = f)

Put(f, version) ==
    /\ disk' = [disk EXCEPT ![f] = version]
    /\ history' = IF version = NONE \/ ~version.text.parses THEN history
                  ELSE [history EXCEPT ![f] = @ \cup
                          {[mtime |-> version.mtime, def |-> parse_toml(version.text)]}]
    /\ raced' = IF Exposed(f) THEN raced \cup {f} ELSE raced
    /\ UNCHANGED <<now, files, stage, loader, parsed>>

\* inotify queues an event, unless nobody watches or the queue is full.
Notify(f, kind) ==
    IF stage = "watch" /\ Len(queue) < MAX_QUEUED
    THEN queue' = Append(queue, [file |-> f, kind |-> kind]) /\ noticed' = noticed \cup {f}
    ELSE noticed' = noticed \ {f} /\ UNCHANGED queue

BeginWrite(f) ==
    /\ CanEdit(1) /\ stage # "off" /\ writing = NONE
    /\ Put(f, [text |-> Torn, mtime |-> now])
    /\ writing' = f /\ edits' = edits + 1
    /\ UNCHANGED <<queue, noticed>>

EndWrite(t) ==
    /\ writing # NONE /\ stage \in {"up", "start", "watch"}
    /\ Put(writing, [text |-> t, mtime |-> now])
    /\ Notify(writing, "WRITE")
    /\ writing' = NONE /\ UNCHANGED edits

MoveIn(f, t) ==
    /\ CanEdit(1) /\ writing = NONE
    /\ \E m \in 0..now : Put(f, [text |-> t, mtime |-> m])
    /\ Notify(f, "WRITE")
    /\ edits' = edits + 1 /\ UNCHANGED writing

Delete(f) ==
    /\ CanEdit(1) /\ writing = NONE /\ disk[f] # NONE
    /\ Put(f, NONE)
    /\ Notify(f, "DELETE")
    /\ edits' = edits + 1 /\ UNCHANGED writing

\* Moving a file out of the directory, or to another suffix: MOVED_FROM is
\* not in the watch mask.
RenameAway(f) ==
    /\ CanEdit(1) /\ writing = NONE /\ disk[f] # NONE
    /\ Put(f, NONE)
    /\ noticed' = noticed \ {f}
    /\ edits' = edits + 1 /\ UNCHANGED <<writing, queue>>

\* services.bin is removed, or comes from another version.
ManifestLost ==
    /\ CanEdit(1) /\ manifest # NONE
    /\ write_manifest(NONE) /\ noticed' = {}
    /\ edits' = edits + 1
    /\ UNCHANGED <<disk, writing, now, stage, loader, watcher, history, raced>>

Tick ==
    /\ now < MAX_CLOCK /\ now' = now + 1
    /\ UNCHANGED <<disk, writing, edits, files, stage, loader, watcher,
                   history, raced, noticed>>

\* Shutdown or loss of power. services.bin is found as it was, as it last was
\* on stable storage, or empty (renamed before its blocks were written).
PowerOff ==
    /\ stage # "off" /\ stage' = "off"
    /\ EndLoad /\ queue' = <<>> /\ parsed' = NONE /\ writing' = NONE
    /\ manifest' \in {manifest, durable, NONE} /\ durable' = manifest'
    /\ UNCHANGED <<disk, now, edits, history, raced, noticed>>

Next ==
    \/ BootLoad \/ WatchLoad \/ FinishLoad \/ LoadError
    \/ \E f \in Files : Upsert(f) \/ LoadFails(f)
    \/ WatchAdd \/ DeleteEvent \/ ParseEvent \/ StatEvent \/ WatchDies
    \/ \E f \in Files : BeginWrite(f) \/ Delete(f) \/ RenameAway(f)
    \/ \E t \in Texts : EndWrite(t) \/ \E f \in Files : MoveIn(f, t)
    \/ ManifestLost \/ Tick \/ PowerOff

Spec == Init /\ [][Next]_vars

-----------------------------------------------------------------------------
mtimes  == 0..MAX_CLOCK
Defs    == {parse_toml(t) : t \in {u \in Texts : u.parses}}
Entries == [Files -> [mtime : mtimes, def : Defs] \cup {NONE}]

\* NONE is no file, text, version, manifest or parsed event.
ASSUME NoneAssumption ==
    /\ NONE \notin Files /\ NONE \notin [text : Texts \cup {Torn}, mtime : mtimes]
    /\ NONE \notin Entries /\ NONE \notin [file : Files, def : Defs]
    /\ NONE \notin [mtime : mtimes, def : Defs] /\ NONE \notin [def : Defs]
    /\ NONE \notin Texts \cup {Torn}

(* Types. Between loads and events no copy of the manifest is held, and an *)
(* event is being dealt with only while flint-watch runs.                  *)
TypeOK ==
    /\ disk \in [Files -> [text : Texts \cup {Torn}, mtime : mtimes] \cup {NONE}]
    /\ writing \in Files \cup {NONE}
    /\ now \in mtimes /\ edits \in 0..MAX_EDITS
    /\ {manifest, durable, work} \subseteq Entries \cup {NONE}
    /\ stage \in Stages
    /\ scan \in [Files -> mtimes \cup {NONE}] /\ todo \subseteq Files
    /\ changed \in BOOLEAN
    /\ \A i \in DOMAIN queue : queue[i] \in [file : Files, kind : {"WRITE", "DELETE"}]
    /\ Len(queue) <= MAX_QUEUED
    /\ parsed \in [file : Files, def : Defs] \cup {NONE}
    /\ raced \subseteq Files /\ noticed \subseteq Files
    /\ queue # <<>> \/ parsed # NONE => stage = "watch"
    /\ work # NONE => stage \in {"boot", "start"} \/ parsed # NONE

\* Two versions of f that differ and carry the same second.
Collided(f) ==
    \E v \in history[f], w \in history[f] : v.mtime = w.mtime /\ v.def # w.def

Suspect == {f \in Files : Collided(f)} \cup raced

(* A manifest entry that the next load will trust, because its mtime is    *)
(* the file's, holds the file's definition, whatever sequence of edits,    *)
(* restarts, deaths of flint-watch and power cuts led here. The exceptions *)
(* are the two the design has: two versions within one second, and a file  *)
(* that changed between the two looks a reader takes at it.                *)
TrustedEntriesAreTrue ==
    \A f \in Files \ Suspect :
        /\ manifest # NONE /\ Readable(f)
        /\ ReadEntries[f] # NONE /\ ReadEntries[f].mtime = disk[f].mtime
        => ReadEntries[f].def = parse_toml(disk[f].text)

(* When flint-watch has dealt with all its events, the manifest says what  *)
(* the directory says: of every file of which it could notice all changes, *)
(* a deleted file has no entry and a well-formed one has its own, mtime    *)
(* included, so that the next boot parses nothing. A file that does not    *)
(* parse keeps whatever entry it had.                                      *)
WatchCatchesUp ==
    stage = "watch" /\ queue = <<>> /\ manifest # NONE =>
        \A f \in noticed \ (Suspect \cup {writing}) :
            /\ disk[f] = NONE => manifest[f] = NONE
            /\ Readable(f) => manifest[f] = [mtime |-> disk[f].mtime,
                                             def |-> parse_toml(disk[f].text)]

(* flint-ctl check never says yes to a directory whose services flint-init *)
(* then fails to load or to order: a file that does not parse and a graph  *)
(* that cannot be built were both reported, unless a file is suspect as    *)
(* above.                                                                  *)
CheckPredictsBoot ==
    stage \in {"unloadable", "unbuildable"} => ~run_check(Contents) \/ Suspect # {}

(* The converse for the graph: when every file is a service definition,    *)
(* check reports a cycle only in a directory no graph can be built from.   *)
CycleAlarmIsTrue ==
    (\A f \in Present(disk) : Readable(f)) /\ has_cycle(Contents, Present(disk)) =>
        ~Buildable([f \in Files |-> IF disk[f] = NONE THEN NONE
                                    ELSE [def |-> parse_toml(disk[f].text)]])

(* What the comment in the event loop of flint-watch promises: the old     *)
(* entry of a file that stopped parsing keeps the machine bootable, so a   *)
(* boot fails to load only over a file the manifest knows nothing about.   *)
OldEntryKeepsBootable ==
    stage = "unloadable" =>
        \E f \in Files : disk[f] # NONE /\ ~disk[f].text.parses /\ ReadEntries[f] = NONE
=============================================================================
