------------------------- MODULE ConfigCacheProofs -------------------------
(***************************************************************************)
(* Proofs about the services directory and its manifest, for every set of  *)
(* files and texts, any clock and any number of edits, restarts and power  *)
(* cuts: entries can be trusted, flint-watch catches up, and flint-ctl     *)
(* check and the boot agree.                                               *)
(***************************************************************************)
EXTENDS ConfigCache, SequenceTheorems, FiniteSetTheorems, FunctionTheorems, TLAPS

USE DEF files, write_manifest

OnFiles(m) == m = [f \in Files |-> m[f]]

Version(f) == [mtime |-> disk[f].mtime, def |-> parse_toml(disk[f].text)]

\* Every entry of m was a version of its file, unless the file was raced.
WereVersions(m) ==
    \A f \in Files : m[f] # NONE => f \in raced \/ m[f] \in history[f]

Good(m) == OnFiles(m) /\ WereVersions(m)

\* Somebody holds a copy of the manifest.
Held == work # NONE \/ todo # {} \/ parsed # NONE

Events == [file : Files, kind : {"WRITE", "DELETE"}]

Shapes ==
    /\ OnFiles(disk) /\ OnFiles(history)
    /\ todo \subseteq Files
    /\ todo # {} => stage \in {"boot", "start"}
    /\ parsed # NONE => /\ parsed.file \in Files /\ stage = "watch"
                        /\ queue # <<>> /\ Head(queue).kind = "WRITE"
    /\ queue \in Seq(Events)

\* What is on disk is on record.
OnRecord == \A f \in Files : Readable(f) => Version(f) \in history[f]

\* Between its two looks at a file a reader can rely on the first, unless
\* the file is raced.
LookHolds ==
    /\ \A f \in todo : f \in raced \/ (disk[f] # NONE /\ disk[f].mtime = scan[f])
    /\ parsed # NONE => \/ parsed.file \in raced
                        \/ /\ Readable(parsed.file)
                           /\ parsed.def = parse_toml(disk[parsed.file].text)

(* The inductive invariant. The property speaks of entries whose mtime is  *)
(* the file's; what is inductive is that all of them were versions once.   *)
CacheInv ==
    /\ Shapes /\ OnRecord /\ LookHolds
    /\ manifest # NONE => Good(manifest)
    /\ durable # NONE => Good(durable)
    /\ Held => Good(work)

-----------------------------------------------------------------------------
\* An empty directory without manifest satisfies the invariant.
LEMMA InitCache == Init => CacheInv
BY DEF Init, CacheInv, Shapes, OnRecord, LookHolds, Held, OnFiles, NoEntries, Readable

\* What Head, Tail and Append do to a queue of events.
LEMMA QueueSteps ==
    /\ <<>> \in Seq(Events)
    /\ \A q \in Seq(Events) : q # <<>> => /\ Head(q) \in Events /\ Head(q).file \in Files
                                         /\ Tail(q) \in Seq(Events)
    /\ \A q \in Seq(Events), e \in Events :
          /\ Append(q, e) \in Seq(Events) /\ Append(q, e) # <<>>
          /\ q # <<>> => Head(Append(q, e)) = Head(q)
<1>1. \A e \in Events : e.file \in Files
  BY DEF Events
<1> QED BY <1>1, EmptySeq, HeadTailProperties, AppendProperties, HeadTailAppend

\* inotify's queue is left alone or grows at its end.
Grown == queue' = queue \/ \E e \in Events : queue' = Append(queue, e)

\* An event that arrives does not change which one is being dealt with.
LEMMA GrownKeepsHead ==
    ASSUME Grown, queue \in Seq(Events)
    PROVE  queue' \in Seq(Events) /\ (queue # <<>> => queue' # <<>> /\ Head(queue') = Head(queue))
BY QueueSteps DEF Grown

\* What read_manifest returns is as good as the manifest.
LEMMA ReadIsGood == CacheInv => Good(ReadEntries)
BY DEF CacheInv, ReadEntries, NoEntries, Good, OnFiles, WereVersions

\* A good manifest stays good when an entry is dropped or made a version.
LEMMA EditIsGood ==
    ASSUME NEW m, Good(m), NEW f \in Files, NEW e,
           e = NONE \/ f \in raced \/ e \in history[f]
    PROVE  Good([m EXCEPT ![f] = e])
<1> DEFINE n == [m EXCEPT ![f] = e]
<1>1. OnFiles(n) /\ \A g \in Files : n[g] = IF g = f THEN e ELSE m[g]
  BY DEF OnFiles, Good
<1> HIDE DEF n
<1>2. WereVersions(n)
  BY <1>1 DEF WereVersions, Good
<1> QED BY <1>1, <1>2 DEF n, Good

\* A step that leaves disk and history alone.
LEMMA SameDisk ==
    ASSUME CacheInv, UNCHANGED <<disk, history, raced>>
    PROVE  /\ OnRecord' /\ OnFiles(disk)' /\ OnFiles(history)'
           /\ manifest' = manifest /\ manifest' # NONE => Good(manifest)'
           /\ durable' \in {durable, manifest} /\ durable' # NONE => Good(durable)'
           /\ work' = work /\ Held => Good(work)'
           /\ Good(manifest') => Good(manifest)'
           /\ durable' = manifest' /\ Good(manifest)' => Good(durable)'
           /\ Good(work') => Good(work)'
BY DEF CacheInv, Shapes, OnRecord, Readable, Version, Good, OnFiles, WereVersions

\* A step that at most appends to the queue of events keeps the invariant.
LEMMA SameKeeps ==
    ASSUME CacheInv, UNCHANGED <<disk, history, raced, files, loader, parsed, stage>>, Grown
    PROVE  CacheInv'
<1>1. Shapes' /\ LookHolds' /\ Held' = Held
  BY SameDisk, GrownKeepsHead DEF CacheInv, Shapes, LookHolds, Held, Readable, loader
<1> QED BY <1>1, SameDisk DEF CacheInv, loader

\* Forgetting the load in progress is harmless.
LEMMA EndLoadKeeps ==
    ASSUME CacheInv, EndLoad, UNCHANGED <<disk, history, raced>>,
           \/ manifest' = NONE \/ manifest' \in {manifest, durable}
           \/ manifest' = work /\ work # NONE,
           durable' \in {durable, manifest, manifest'},
           parsed' = NONE, queue' = queue \/ queue' = <<>>
    PROVE  CacheInv'
<1>1. Shapes' /\ LookHolds' /\ ~Held'
  BY SameDisk, QueueSteps DEF CacheInv, Shapes, LookHolds, Held, EndLoad
<1>2. ASSUME manifest' = work, work # NONE PROVE Good(manifest)'
  <2>1. Good(work)
    BY <1>2 DEF CacheInv, Held
  <2>2. Good(manifest')
    BY <1>2, <2>1
  <2> QED BY <2>2, SameDisk
<1>3. ASSUME manifest' \in {manifest, durable}, manifest' # NONE PROVE Good(manifest)'
  <2>1. Good(manifest')
    BY <1>3 DEF CacheInv
  <2> QED BY <2>1, SameDisk
<1>4. manifest' # NONE => Good(manifest)'
  BY <1>2, <1>3, SameDisk
<1>5. durable' # NONE => Good(durable)'
  BY <1>4, SameDisk
<1> QED BY <1>1, <1>4, <1>5, SameDisk DEF CacheInv

\* The listing, read_manifest and retain keep the invariant.
LEMMA ScanKeeps ==
    ASSUME CacheInv, NEW from, NEW to, Scan(from, to), from # "watch", to \in {"boot", "start"}
    PROVE  CacheInv'
<1>1. parsed = NONE /\ UNCHANGED <<disk, files, history, raced, queue, parsed>>
  BY DEF Scan, CacheInv, Shapes, watcher
<1>2. /\ todo' = Present(disk) /\ stage' = to
      /\ scan' = [f \in Files |-> IF disk[f] = NONE THEN NONE ELSE disk[f].mtime]
      /\ work' = [f \in Files |-> IF disk[f] = NONE THEN NONE ELSE ReadEntries[f]]
  BY DEF Scan, scan_toml_files
<1>3. Good(work')
  BY <1>2, ReadIsGood DEF Good, OnFiles, WereVersions
<1>4. Shapes' /\ LookHolds'
  BY <1>1, <1>2, SameDisk DEF Present, CacheInv, Shapes, LookHolds
<1> QED BY <1>1, <1>3, <1>4, SameDisk DEF CacheInv

\* One turn of the load's loop keeps the invariant.
LEMMA UpsertKeeps ==
    ASSUME CacheInv, NEW f \in Files, Upsert(f)
    PROVE  CacheInv'
<1>1. /\ f \in todo /\ todo' = todo \ {f}
      /\ UNCHANGED <<disk, files, history, raced, queue, parsed, stage, scan>>
  BY DEF Upsert, watcher
<1>2. Good(work) /\ (f \in raced \/ (disk[f] # NONE /\ disk[f].mtime = scan[f]))
  BY <1>1 DEF CacheInv, Held, LookHolds
<1>3. Good(work')
  <2>1. CASE Fresh(f)
    <3>1. work' = [work EXCEPT ![f] = work[f]]
      BY <2>1 DEF Upsert
    <3>2. work[f] = NONE \/ f \in raced \/ work[f] \in history[f]
      BY <1>2 DEF Good, WereVersions
    <3> QED BY <1>2, <3>1, <3>2, EditIsGood
  <2>2. CASE ~Fresh(f)
    <3> DEFINE e == [mtime |-> scan[f], def |-> parse_toml(disk[f].text)]
    <3>1. work' = [work EXCEPT ![f] = e] /\ Readable(f)
      BY <2>2 DEF Upsert
    <3>2. f \in raced \/ e \in history[f]
      BY <1>2, <3>1 DEF CacheInv, OnRecord, Version
    <3> HIDE DEF e
    <3> QED BY <1>2, <3>1, <3>2, EditIsGood
  <2> QED BY <2>1, <2>2
<1>4. Shapes' /\ LookHolds'
  BY <1>1, SameDisk DEF CacheInv, Shapes, LookHolds, Readable
<1> QED BY <1>1, <1>3, <1>4, SameDisk DEF CacheInv

\* A DELETE event keeps the invariant.
LEMMA DeleteEventKeeps ==
    ASSUME CacheInv, DeleteEvent
    PROVE  CacheInv'
<1>1. /\ queue # <<>> /\ Head(queue).kind = "DELETE" /\ queue' = Tail(queue)
      /\ manifest' = [ReadEntries EXCEPT ![Head(queue).file] = NONE]
      /\ durable' \in {durable, manifest}
      /\ UNCHANGED <<disk, history, raced, work, todo, scan, parsed, stage>>
  BY DEF DeleteEvent, loader
<1>2. Head(queue).file \in Files /\ queue' \in Seq(Events)
  BY <1>1, QueueSteps DEF CacheInv, Shapes
<1>3. Good(manifest')
  BY <1>1, <1>2, ReadIsGood, EditIsGood
<1>4. Shapes' /\ LookHolds' /\ Held' = Held
  BY <1>1, <1>2, SameDisk DEF CacheInv, Shapes, LookHolds, Held, Readable
<1> QED BY <1>1, <1>3, <1>4, SameDisk DEF CacheInv

\* The first half of a WRITE event keeps the invariant.
LEMMA ParseEventKeeps ==
    ASSUME CacheInv, ParseEvent
    PROVE  CacheInv'
<1> DEFINE f == Head(queue).file
<1>1. /\ queue # <<>> /\ Head(queue).kind = "WRITE" /\ stage = "watch" /\ parsed = NONE
      /\ UNCHANGED <<disk, history, raced, todo, scan, stage>>
  BY DEF ParseEvent
<1>2. f \in Files /\ Tail(queue) \in Seq(Events)
  BY <1>1, QueueSteps DEF CacheInv, Shapes
<1>3. todo = {}
  BY <1>1 DEF CacheInv, Shapes
<1>4. CASE Readable(f)
  <2>1. /\ parsed' = [file |-> f, def |-> parse_toml(disk[f].text)]
        /\ work' = ReadEntries /\ UNCHANGED <<files, queue>>
    BY <1>4 DEF ParseEvent
  <2>2. Good(work')
    BY <2>1, ReadIsGood
  <2>3. Shapes' /\ LookHolds'
    BY <1>1, <1>2, <1>3, <1>4, <2>1, SameDisk DEF CacheInv, Shapes, LookHolds, Readable
  <2> QED BY <1>1, <2>1, <2>2, <2>3, SameDisk DEF CacheInv
<1>5. CASE ~Readable(f)
  <2>1. /\ manifest' = ReadEntries /\ durable' \in {durable, manifest}
        /\ queue' = Tail(queue) /\ UNCHANGED <<parsed, work>>
    BY <1>5 DEF ParseEvent
  <2>2. Good(manifest')
    BY <2>1, ReadIsGood
  <2>3. Shapes' /\ LookHolds' /\ Held' = Held
    BY <1>1, <1>2, <1>3, <2>1, SameDisk DEF CacheInv, Shapes, LookHolds, Held
  <2> QED BY <1>1, <2>1, <2>2, <2>3, SameDisk DEF CacheInv
<1> QED BY <1>4, <1>5

\* The second half, with the mtime and the write, keeps the invariant.
LEMMA StatEventKeeps ==
    ASSUME CacheInv, StatEvent
    PROVE  CacheInv'
<1> DEFINE f == parsed.file
           e == [mtime |-> disk[f].mtime, def |-> parsed.def]
<1>1. /\ stage = "watch" /\ parsed # NONE /\ queue' = Tail(queue)
      /\ parsed' = NONE /\ work' = NONE /\ durable' \in {durable, manifest}
      /\ manifest' = IF disk[f] = NONE THEN work ELSE [work EXCEPT ![f] = e]
      /\ UNCHANGED <<disk, history, raced, todo, scan, stage>>
  BY DEF StatEvent
<1>2. Good(work) /\ f \in Files /\ todo = {}
  BY <1>1 DEF CacheInv, Shapes, Held
<1>3. f \in raced \/ e \in history[f]
  BY <1>1, <1>2 DEF CacheInv, LookHolds, OnRecord, Version
<1>4. Good(manifest')
  <2> HIDE DEF f, e
  <2> QED BY <1>1, <1>2, <1>3, EditIsGood
<1>5. queue' \in Seq(Events)
  BY <1>1, QueueSteps DEF CacheInv, Shapes
<1>6. Shapes' /\ LookHolds' /\ ~Held'
  BY <1>1, <1>2, <1>5, SameDisk DEF CacheInv, Shapes, LookHolds, Held
<1> QED BY <1>1, <1>4, <1>6, SameDisk DEF CacheInv

\* Any change of any file: the new version is recorded, the old ones stay on
\* record, and a reader that had looked is raced.
LEMMA PutKeeps ==
    ASSUME CacheInv, NEW f \in Files, NEW version, Put(f, version), Grown
    PROVE  CacheInv'
<1>1. /\ disk' = [disk EXCEPT ![f] = version]
      /\ raced \subseteq raced'
      /\ Exposed(f) => f \in raced'
      /\ UNCHANGED <<files, stage, scan, todo, work, parsed>>
  BY DEF Put, loader
<1>2. /\ OnFiles(history') /\ \A g \in Files : history[g] \subseteq history'[g]
      /\ version # NONE /\ version.text.parses =>
            [mtime |-> version.mtime, def |-> parse_toml(version.text)] \in history'[f]
  BY DEF Put, CacheInv, Shapes, OnFiles
<1>3. OnFiles(disk') /\ disk'[f] = version /\ \A g \in Files \ {f} : disk'[g] = disk[g]
  BY <1>1 DEF CacheInv, Shapes, OnFiles
<1>4. OnRecord'
  BY <1>2, <1>3 DEF CacheInv, OnRecord, Readable, Version
<1>5. \A m : Good(m) => OnFiles(m) /\ \A g \in Files : m[g] # NONE => g \in raced' \/ m[g] \in history'[g]
  BY <1>1, <1>2 DEF Good, WereVersions
<1>6. /\ (manifest # NONE => Good(manifest)') /\ (durable # NONE => Good(durable)')
      /\ (Held => Good(work)') /\ Held' = Held
  BY <1>1, <1>5 DEF CacheInv, Good, OnFiles, WereVersions, Held
<1>7. Shapes'
  BY <1>1, <1>2, <1>3, GrownKeepsHead DEF CacheInv, Shapes, OnFiles
<1>8. LookHolds'
  BY <1>1, <1>3 DEF CacheInv, Shapes, LookHolds, Exposed, Readable
<1> QED BY <1>1, <1>4, <1>6, <1>7, <1>8 DEF CacheInv

WritingOK == writing = NONE \/ writing \in Files

\* The file being written stays one of the files.
LEMMA StepWriting == WritingOK /\ [Next]_vars => WritingOK'
BY DEF WritingOK, Next, vars, BootLoad, WatchLoad, Scan, Upsert, LoadFails, FinishLoad, LoadError,
       WatchAdd, DeleteEvent, ParseEvent, StatEvent, WatchDies, BeginWrite, EndWrite, MoveIn,
       Delete, RenameAway, ManifestLost, Tick, PowerOff

\* inotify only appends to the queue.
LEMMA NotifyGrows ==
    ASSUME NEW f \in Files, NEW kind \in {"WRITE", "DELETE"}, Notify(f, kind)
    PROVE  Grown
BY DEF Notify, Grown, Events

\* Every step keeps the invariant.
LEMMA StepCache == CacheInv /\ WritingOK /\ [Next]_vars => CacheInv'
<1> SUFFICES ASSUME CacheInv, WritingOK, [Next]_vars PROVE CacheInv'
  OBVIOUS
<1>1. CASE BootLoad \/ WatchLoad
  BY <1>1, ScanKeeps DEF BootLoad, WatchLoad
<1>2. CASE FinishLoad
  <2>1. parsed = NONE
    BY <1>2 DEF FinishLoad, CacheInv, Shapes
  <2> QED BY <1>2, <2>1, EndLoadKeeps DEF FinishLoad, watcher
<1>3. CASE LoadError
  <2>1. parsed = NONE
    BY <1>3 DEF LoadError, CacheInv, Shapes
  <2> QED BY <1>3, <2>1, EndLoadKeeps DEF LoadError, watcher
<1>4. ASSUME NEW f \in Files, LoadFails(f) PROVE CacheInv'
  <2>1. parsed = NONE
    BY <1>4 DEF LoadFails, CacheInv, Shapes
  <2> QED BY <1>4, <2>1, EndLoadKeeps DEF LoadFails, watcher
<1>5. ASSUME NEW f \in Files, Upsert(f) PROVE CacheInv'
  BY <1>5, UpsertKeeps
<1>6. CASE WatchAdd
  <2>1. /\ UNCHANGED <<disk, history, raced, files, scan, todo, work, parsed, queue>>
        /\ todo = {} /\ parsed = NONE
    BY <1>6 DEF WatchAdd, loader, watcher, CacheInv, Shapes
  <2>2. Shapes' /\ LookHolds' /\ Held' = Held
    BY <2>1, SameDisk DEF CacheInv, Shapes, LookHolds, Held
  <2> QED BY <2>1, <2>2, SameDisk DEF CacheInv
<1>7. CASE DeleteEvent \/ ParseEvent \/ StatEvent
  BY <1>7, DeleteEventKeeps, ParseEventKeeps, StatEventKeeps
<1>8. CASE WatchDies
  BY <1>8, EndLoadKeeps DEF WatchDies
<1>9. CASE PowerOff
  BY <1>9, EndLoadKeeps DEF PowerOff
<1>10. ASSUME NEW f \in Files, BeginWrite(f) PROVE CacheInv'
  BY <1>10, PutKeeps DEF BeginWrite, Grown
<1>11. ASSUME NEW f \in Files, Delete(f) PROVE CacheInv'
  BY <1>11, PutKeeps, NotifyGrows DEF Delete
<1>12. ASSUME NEW f \in Files, RenameAway(f) PROVE CacheInv'
  BY <1>12, PutKeeps DEF RenameAway, Grown
<1>13. ASSUME NEW t \in Texts, EndWrite(t) PROVE CacheInv'
  BY <1>13, PutKeeps, NotifyGrows DEF EndWrite, WritingOK
<1>14. ASSUME NEW t \in Texts, NEW f \in Files, MoveIn(f, t) PROVE CacheInv'
  BY <1>14, PutKeeps, NotifyGrows DEF MoveIn
<1>15. CASE ManifestLost
  <2>1. /\ UNCHANGED <<disk, history, raced, scan, todo, work, parsed, queue, stage>>
        /\ manifest' = NONE /\ durable' \in {durable, manifest}
    BY <1>15 DEF ManifestLost, loader, watcher
  <2>2. Shapes' /\ LookHolds' /\ Held' = Held
    BY <2>1, SameDisk DEF CacheInv, Shapes, LookHolds, Held, Readable
  <2> QED BY <2>1, <2>2, SameDisk DEF CacheInv
<1>16. CASE Tick \/ UNCHANGED vars
  BY <1>16, SameKeeps DEF Tick, vars, watcher, Grown
<1> QED BY <1>1, <1>2, <1>3, <1>4, <1>5, <1>6, <1>7, <1>8, <1>9, <1>10, <1>11, <1>12, <1>13,
           <1>14, <1>15, <1>16 DEF Next

(* A manifest entry that the next load will trust holds the definition its *)
(* file holds, in every reachable state, whatever is edited and whatever   *)
(* dies: the only exceptions are two versions of a file with one mtime and *)
(* a file that changed between the two looks of a reader.                  *)
THEOREM EntriesCanBeTrusted == Spec => []TrustedEntriesAreTrue
<1>1. CacheInv => TrustedEntriesAreTrue
  <2> SUFFICES ASSUME CacheInv, NEW f \in Files \ Suspect, manifest # NONE, Readable(f),
                      ReadEntries[f] # NONE, ReadEntries[f].mtime = disk[f].mtime
               PROVE  ReadEntries[f].def = parse_toml(disk[f].text)
    BY DEF TrustedEntriesAreTrue
  <2>1. ReadEntries[f] \in history[f]
    BY ReadIsGood DEF Good, WereVersions, Suspect
  <2>2. Version(f) \in history[f] /\ Version(f).mtime = disk[f].mtime
        /\ Version(f).def = parse_toml(disk[f].text)
    BY DEF CacheInv, OnRecord, Version
  <2>3. ~Collided(f)
    BY DEF Suspect
  <2> QED BY <2>1, <2>2, <2>3 DEF Collided
<1>2. Init => WritingOK
  BY DEF Init, WritingOK
<1> QED BY <1>1, <1>2, InitCache, StepCache, StepWriting, PTL DEF Spec

-----------------------------------------------------------------------------
(* Types. An entry gets the mtime of the listing, so a file whose turn has *)
(* not come must have one there, whatever has happened to it since; and    *)
(* whoever will store an entry holds a copy to store it in.                *)
TypeInv ==
    /\ TypeOK
    /\ \A f \in todo : scan[f] \in mtimes
    /\ todo # {} \/ parsed # NONE => work \in Entries

Versions == [text : Texts \cup {Torn}, mtime : mtimes]

\* What can be read off a file is a definition.
LEMMA ReadType ==
    ASSUME TypeInv, NEW f \in Files
    PROVE  /\ disk[f] # NONE => disk[f] \in Versions /\ disk[f].mtime \in mtimes
           /\ Readable(f) => parse_toml(disk[f].text) \in Defs
           /\ ReadEntries \in Entries /\ NoEntries \in Entries
<1>1. disk[f] # NONE => disk[f] \in Versions
  BY DEF TypeInv, TypeOK, Versions
<1>2. ASSUME Readable(f) PROVE parse_toml(disk[f].text) \in Defs
  <2>1. disk[f].text \in Texts \cup {Torn} /\ disk[f].text.parses
    BY <1>1, <1>2 DEF Readable, Versions
  <2>2. ~Torn.parses
    BY DEF Torn
  <2> QED BY <2>1, <2>2 DEF Defs
<1>3. ReadEntries \in Entries /\ NoEntries \in Entries
  BY DEF TypeInv, TypeOK, ReadEntries, NoEntries, Entries
<1> QED BY <1>1, <1>2, <1>3 DEF Versions

\* Nothing has happened yet.
LEMMA InitType == Init => TypeInv
<1> SUFFICES ASSUME Init PROVE TypeInv
  OBVIOUS
<1>1. 0 \in mtimes /\ 0 \in 0 .. MAX_EDITS /\ 0 <= MAX_QUEUED
  BY BoundsAssumption DEF mtimes
<1>2. /\ disk = NoEntries /\ scan = NoEntries /\ queue = <<>> /\ parsed = NONE /\ stage = "off"
      /\ writing = NONE /\ now = 0 /\ edits = 0 /\ manifest = NONE
      /\ durable = NONE /\ work = NONE
      /\ changed = FALSE /\ todo = {} /\ raced = {} /\ noticed = {}
  BY DEF Init
<1>3. Len(queue) <= MAX_QUEUED /\ \A i \in DOMAIN queue : FALSE
  BY <1>1, <1>2
<1> QED BY <1>1, <1>2, <1>3 DEF TypeInv, TypeOK, NoEntries, Stages

\* Steps that end a load, or find none.
LEMMA EndLoadType ==
    ASSUME TypeInv, EndLoad, UNCHANGED <<disk, now, edits, raced, noticed>>,
           writing' \in {writing, NONE}, manifest' \in {manifest, durable, work, NONE},
           durable' \in {durable, manifest, manifest'},
           stage' \in Stages, parsed' = NONE, queue' = <<>>
    PROVE  TypeInv'
<1>1. Len(queue') <= MAX_QUEUED /\ \A i \in DOMAIN queue' : FALSE
  BY BoundsAssumption
<1>2. todo' = {} /\ work' = NONE /\ scan' = NoEntries /\ changed' = FALSE
  BY DEF EndLoad
<1> QED BY <1>1, <1>2 DEF TypeInv, TypeOK, NoEntries

\* The listing.
LEMMA ScanType ==
    ASSUME TypeInv, NEW from \in {"off", "up"}, NEW to \in {"boot", "start"}, Scan(from, to)
    PROVE  TypeInv'
<1>1. /\ scan' = [f \in Files |-> IF disk[f] = NONE THEN NONE ELSE disk[f].mtime]
      /\ work' = [f \in Files |-> IF disk[f] = NONE THEN NONE ELSE ReadEntries[f]]
      /\ todo' = {f \in Files : disk[f] # NONE} /\ noticed' = Files /\ stage = from /\ stage' = to
      /\ changed' = (manifest = NONE \/ work' # manifest)
      /\ UNCHANGED <<disk, writing, now, edits, files, queue, parsed, raced>>
  BY DEF Scan, scan_toml_files, Present, watcher
<1>2. scan' \in [Files -> mtimes \cup {NONE}] /\ \A f \in todo' : scan'[f] \in mtimes
  BY <1>1, ReadType
<1>3. work' \in Entries
  <2>1. \A f \in Files : ReadEntries[f] \in [mtime : mtimes, def : Defs] \cup {NONE}
    BY ReadType DEF Entries
  <2> QED BY <1>1, <2>1 DEF Entries
<1>4. queue = <<>> /\ parsed = NONE
  BY <1>1 DEF TypeInv, TypeOK
<1>5. changed' \in BOOLEAN
  BY <1>1
<1> QED BY <1>1, <1>2, <1>3, <1>4, <1>5 DEF TypeInv, TypeOK, Stages

\* One turn of the loop.
LEMMA UpsertType ==
    ASSUME TypeInv, CacheInv, NEW f \in Files, Upsert(f)
    PROVE  TypeInv'
<1>1. /\ f \in todo /\ (Fresh(f) \/ Readable(f)) /\ todo' = todo \ {f}
      /\ work' = [work EXCEPT ![f] = IF Fresh(f) THEN work[f]
                    ELSE [mtime |-> scan[f], def |-> parse_toml(disk[f].text)]]
      /\ changed' = (changed \/ ~Fresh(f))
      /\ UNCHANGED <<disk, writing, now, edits, files, stage, scan, queue, parsed, raced, noticed>>
  BY DEF Upsert, watcher
<1>2. stage \in {"boot", "start"}
  BY <1>1 DEF CacheInv, Shapes
<1>3. work' \in Entries
  BY <1>1, ReadType DEF TypeInv, Entries
<1>4. changed' \in BOOLEAN
  BY <1>1
<1> QED BY <1>1, <1>2, <1>3, <1>4 DEF TypeInv, TypeOK

\* A queue of events within its capacity, and what is left of it after one.
LEMMA QueueType ==
    ASSUME TypeInv, CacheInv
    PROVE  /\ \A q \in Seq(Events) : Len(q) \in Nat /\ \A i \in DOMAIN q : q[i] \in Events
           /\ queue \in Seq(Events) /\ Len(queue) <= MAX_QUEUED
           /\ queue # <<>> => Tail(queue) \in Seq(Events) /\ Len(Tail(queue)) <= MAX_QUEUED
<1>1. \A q \in Seq(Events) : Len(q) \in Nat /\ \A i \in DOMAIN q : q[i] \in Events
  BY LenProperties, ElementOfSeq
<1>2. queue \in Seq(Events) /\ Len(queue) <= MAX_QUEUED
  BY DEF CacheInv, Shapes, TypeInv, TypeOK
<1>3. queue # <<>> => Tail(queue) \in Seq(Events) /\ Len(Tail(queue)) = Len(queue) - 1
  BY <1>2, HeadTailProperties
<1> QED BY <1>1, <1>2, <1>3, BoundsAssumption

\* The steps of the event loop.
LEMMA EventType ==
    ASSUME TypeInv, CacheInv, WatchAdd \/ DeleteEvent \/ ParseEvent \/ StatEvent
    PROVE  TypeInv'
<1>0. durable' \in {durable, manifest}
  BY DEF WatchAdd, DeleteEvent, ParseEvent, StatEvent
<1>1. todo = {} /\ UNCHANGED <<disk, writing, now, edits, scan, todo, changed, raced, noticed>>
  BY DEF WatchAdd, DeleteEvent, ParseEvent, StatEvent, loader, CacheInv, Shapes
<1>2. CASE WatchAdd
  BY <1>1, <1>2 DEF WatchAdd, TypeInv, TypeOK, Stages, loader, watcher
<1>3. CASE DeleteEvent
  <2>1. Head(queue).file \in Files /\ queue # <<>>
    BY <1>3, QueueSteps DEF DeleteEvent, CacheInv, Shapes
  <2>2. manifest' \in Entries
    BY <1>3, <2>1, ReadType DEF DeleteEvent, Entries
  <2>3. /\ stage = "watch" /\ queue' = Tail(queue) /\ UNCHANGED <<stage, work, parsed>>
    BY <1>3 DEF DeleteEvent, loader
  <2>4. Len(queue') <= MAX_QUEUED /\ \A i \in DOMAIN queue' : queue'[i] \in Events
    BY <2>1, <2>3, QueueType
  <2> QED BY <1>0, <1>1, <2>2, <2>3, <2>4 DEF TypeInv, TypeOK, Events
<1>4. CASE ParseEvent
  <2> DEFINE f == Head(queue).file
  <2>1. f \in Files /\ queue # <<>> /\ stage = "watch" /\ stage' = stage
    BY <1>4, QueueSteps DEF ParseEvent, CacheInv, Shapes
  <2>2. CASE Readable(f)
    <3>1. /\ parsed' = [file |-> f, def |-> parse_toml(disk[f].text)] /\ work' = ReadEntries
          /\ UNCHANGED <<files, queue>>
      BY <1>4, <2>2 DEF ParseEvent
    <3>2. parsed' \in [file : Files, def : Defs] /\ parsed' # NONE /\ work' \in Entries
      BY <2>1, <2>2, <3>1, ReadType, NoneAssumption
    <3> QED BY <1>0, <1>1, <2>1, <3>1, <3>2 DEF TypeInv, TypeOK
  <2>3. CASE ~Readable(f)
    <3>1. manifest' = ReadEntries /\ queue' = Tail(queue) /\ UNCHANGED <<parsed, work>>
      BY <1>4, <2>3 DEF ParseEvent
    <3>2. Len(queue') <= MAX_QUEUED /\ \A i \in DOMAIN queue' : queue'[i] \in Events
      BY <2>1, <3>1, QueueType
    <3>3. manifest' \in Entries
      BY <2>1, <3>1, ReadType
    <3> QED BY <1>0, <1>1, <2>1, <3>1, <3>2, <3>3 DEF TypeInv, TypeOK, Events
  <2> QED BY <2>2, <2>3
<1>5. CASE StatEvent
  <2> DEFINE f == parsed.file
             e == [mtime |-> disk[f].mtime, def |-> parsed.def]
  <2>1. /\ stage = "watch" /\ stage' = stage /\ parsed # NONE /\ parsed' = NONE /\ work' = NONE
        /\ queue' = Tail(queue)
        /\ manifest' = IF disk[f] = NONE THEN work ELSE [work EXCEPT ![f] = e]
    BY <1>5 DEF StatEvent
  <2>2. f \in Files /\ parsed.def \in Defs /\ queue # <<>>
    BY <2>1 DEF TypeInv, TypeOK, CacheInv, Shapes
  <2>3. manifest' \in Entries \cup {NONE}
    <3>1. CASE disk[f] = NONE
      BY <2>1, <3>1 DEF TypeInv, TypeOK
    <3>2. CASE disk[f] # NONE
      <4>1. e \in [mtime : mtimes, def : Defs]
        BY <2>2, <3>2, ReadType
      <4>2. work \in Entries
        BY <2>1 DEF TypeInv
      <4> HIDE DEF e, f
      <4> QED BY <2>1, <2>2, <3>2, <4>1, <4>2 DEF Entries
    <3> QED BY <3>1, <3>2
  <2>4. Len(queue') <= MAX_QUEUED /\ \A i \in DOMAIN queue' : queue'[i] \in Events
    BY <2>1, <2>2, QueueType
  <2> QED BY <1>0, <1>1, <2>1, <2>3, <2>4 DEF TypeInv, TypeOK, Events
<1> QED BY <1>2, <1>3, <1>4, <1>5

\* inotify puts no event on a queue that is full.
LEMMA NotifyType ==
    ASSUME TypeInv, CacheInv, NEW f \in Files, NEW kind \in {"WRITE", "DELETE"}, Notify(f, kind)
    PROVE  /\ Len(queue') <= MAX_QUEUED /\ \A i \in DOMAIN queue' : queue'[i] \in Events
           /\ queue' # <<>> => queue # <<>> \/ stage = "watch"
           /\ noticed' \subseteq Files
<1>1. noticed' \subseteq Files
  BY DEF Notify, TypeInv, TypeOK
<1>2. CASE queue' = queue
  BY <1>1, <1>2, QueueType
<1>3. CASE stage = "watch" /\ Len(queue) < MAX_QUEUED /\ queue' = Append(queue, [file |-> f, kind |-> kind])
  <2>1. [file |-> f, kind |-> kind] \in Events
    BY DEF Events
  <2>2. queue' \in Seq(Events) /\ Len(queue') = Len(queue) + 1 /\ Len(queue) \in Nat
    BY <1>3, <2>1, QueueType, AppendProperties, LenProperties
  <2>3. Len(queue') <= MAX_QUEUED
    BY <1>3, <2>2, BoundsAssumption
  <2> QED BY <1>1, <1>3, <2>2, <2>3, QueueType
<1> QED BY <1>2, <1>3 DEF Notify

\* A change of the directory.
LEMMA PutType ==
    ASSUME TypeInv, CacheInv, NEW f \in Files, NEW v \in Versions \cup {NONE}, Put(f, v),
           writing' \in Files \cup {NONE}, edits' \in 0 .. MAX_EDITS,
           Len(queue') <= MAX_QUEUED, \A i \in DOMAIN queue' : queue'[i] \in Events,
           queue' # <<>> => queue # <<>> \/ stage = "watch", noticed' \subseteq Files
    PROVE  TypeInv'
<1>1. /\ disk' = [disk EXCEPT ![f] = v] /\ raced' \subseteq raced \cup {f}
      /\ UNCHANGED <<now, files, stage, scan, todo, work, changed, parsed>>
  BY DEF Put, loader
<1>2. disk' \in [Files -> Versions \cup {NONE}]
  BY <1>1 DEF TypeInv, TypeOK, Versions
<1> QED BY <1>1, <1>2 DEF TypeInv, TypeOK, Versions, Events

\* Every step keeps the types.
LEMMA StepType == TypeInv /\ CacheInv /\ [Next]_vars => TypeInv'
<1> SUFFICES ASSUME TypeInv, CacheInv, [Next]_vars PROVE TypeInv'
  OBVIOUS
<1>1. \A s \in {"off", "up", "unloadable", "io_error", "unbuildable", "empty", "start"} : s \in Stages
  BY DEF Stages
<1>2. \A s \in {"boot", "start"} : stage = s => queue = <<>> /\ parsed = NONE
  BY DEF TypeInv, TypeOK
<1>3. CASE BootLoad \/ WatchLoad
  BY <1>3, ScanType DEF BootLoad, WatchLoad
<1>4. CASE FinishLoad
  <2>1. stage' \in Stages
    BY <1>1, <1>4 DEF FinishLoad
  <2> QED BY <1>2, <1>4, <2>1, EndLoadType DEF FinishLoad, watcher
<1>5. CASE LoadError
  BY <1>1, <1>2, <1>5, EndLoadType DEF LoadError, watcher
<1>6. ASSUME NEW f \in Files, LoadFails(f) PROVE TypeInv'
  <2>1. stage \in {"boot", "start"}
    BY <1>6 DEF LoadFails, CacheInv, Shapes
  <2> QED BY <1>1, <1>2, <1>6, <2>1, EndLoadType DEF LoadFails, watcher
<1>7. ASSUME NEW f \in Files, Upsert(f) PROVE TypeInv'
  BY <1>7, UpsertType
<1>8. CASE WatchAdd \/ DeleteEvent \/ ParseEvent \/ StatEvent
  BY <1>8, EventType
<1>9. CASE WatchDies \/ PowerOff
  BY <1>1, <1>9, EndLoadType DEF WatchDies, PowerOff
<1>10. /\ now \in mtimes /\ edits \in 0 .. MAX_EDITS /\ writing \in Files \cup {NONE}
       /\ \A m \in 0 .. now : m \in mtimes
       /\ edits + 1 <= MAX_EDITS => edits + 1 \in 0 .. MAX_EDITS
  <2>1. now \in mtimes /\ edits \in 0 .. MAX_EDITS /\ writing \in Files \cup {NONE}
    BY DEF TypeInv, TypeOK
  <2> QED BY <2>1, BoundsAssumption DEF mtimes
<1>11. \A t \in Texts \cup {Torn}, m \in mtimes : [text |-> t, mtime |-> m] \in Versions \cup {NONE}
  BY DEF Versions
<1>12. Len(queue) <= MAX_QUEUED /\ \A i \in DOMAIN queue : queue[i] \in Events
  BY QueueType
<1>13. ASSUME NEW f \in Files, BeginWrite(f) PROVE TypeInv'
  <2>1. noticed' \subseteq Files /\ queue' = queue /\ writing' = f /\ edits' \in 0 .. MAX_EDITS
    BY <1>10, <1>13 DEF BeginWrite, CanEdit, TypeInv, TypeOK
  <2> QED BY <1>10, <1>11, <1>12, <1>13, <2>1, PutType DEF BeginWrite
<1>14. ASSUME NEW t \in Texts, EndWrite(t) PROVE TypeInv'
  <2>1. writing \in Files /\ writing' = NONE /\ edits' = edits
    BY <1>10, <1>14 DEF EndWrite
  <2> QED BY <1>10, <1>11, <1>14, <2>1, NotifyType, PutType DEF EndWrite
<1>15. ASSUME NEW t \in Texts, NEW f \in Files, MoveIn(f, t) PROVE TypeInv'
  <2>1. edits' \in 0 .. MAX_EDITS /\ writing' \in Files \cup {NONE}
    BY <1>10, <1>15 DEF MoveIn, CanEdit
  <2>2. PICK m \in 0 .. now : Put(f, [text |-> t, mtime |-> m])
    BY <1>15 DEF MoveIn
  <2> QED BY <1>10, <1>11, <1>15, <2>1, <2>2, NotifyType, PutType DEF MoveIn
<1>16. ASSUME NEW f \in Files, Delete(f) PROVE TypeInv'
  <2>1. edits' \in 0 .. MAX_EDITS /\ writing' \in Files \cup {NONE}
    BY <1>10, <1>16 DEF Delete, CanEdit
  <2> QED BY <1>16, <2>1, NotifyType, PutType DEF Delete
<1>17. ASSUME NEW f \in Files, RenameAway(f) PROVE TypeInv'
  <2>1. /\ edits' \in 0 .. MAX_EDITS /\ writing' \in Files \cup {NONE}
        /\ queue' = queue /\ noticed' \subseteq Files
    BY <1>10, <1>17 DEF RenameAway, CanEdit, TypeInv, TypeOK
  <2> QED BY <1>12, <1>17, <2>1, PutType DEF RenameAway
<1>18. CASE ManifestLost
  BY <1>10, <1>18 DEF ManifestLost, CanEdit, loader, watcher, TypeInv, TypeOK
<1>19. CASE Tick
  <2>1. now' \in mtimes
    BY <1>10, <1>19, BoundsAssumption DEF Tick, mtimes
  <2> QED BY <1>19, <2>1 DEF Tick, loader, watcher, TypeInv, TypeOK
<1>20. CASE UNCHANGED vars
  BY <1>20 DEF vars, loader, watcher, TypeInv, TypeOK
<1> QED BY <1>3, <1>4, <1>5, <1>6, <1>7, <1>8, <1>9, <1>13, <1>14, <1>15, <1>16, <1>17, <1>18,
           <1>19, <1>20 DEF Next

\* So everything shown so far holds throughout.
LEMMA CacheInvariance == Spec => [](CacheInv /\ TypeInv /\ WritingOK)
<1>1. Init => WritingOK
  BY DEF Init, WritingOK
<1> QED BY <1>1, InitCache, InitType, StepCache, StepType, StepWriting, PTL DEF Spec

(* The cache and flint-watch keep to their types: no queue of inotify over *)
(* its capacity, no entry without an mtime, and a copy of the manifest in  *)
(* hand only during a load or between the two halves of an event.          *)
THEOREM CacheTypeCorrect == Spec => []TypeOK
<1>1. TypeInv => TypeOK
  BY DEF TypeInv
<1> QED BY <1>1, CacheInvariance, PTL

-----------------------------------------------------------------------------
(* flint-watch catches up. What is inductive: of each file of which no     *)
(* change was missed, the manifest says what the directory says, or the    *)
(* last event of the file is still queued and tells which of the two it    *)
(* was, a write or a deletion. Before the events there is the load, which  *)
(* does the same for the files whose turn has come.                        *)
Clean == noticed \ (Suspect \cup {writing})

Caught(m, f) == (disk[f] = NONE => m[f] = NONE) /\ (Readable(f) => m[f] = Version(f))

Mentioned(q, f) == \E i \in DOMAIN q : q[i].file = f

\* The last event of f in q is of kind k.
Last(q, f, k) ==
    \E i \in DOMAIN q : /\ q[i].file = f /\ q[i].kind = k
                        /\ \A j \in DOMAIN q : j > i => q[j].file # f

Pending(q, f) == Last(q, f, IF disk[f] = NONE THEN "DELETE" ELSE "WRITE")

LoadCatches ==
    stage = "start" /\ work # NONE =>
        /\ \A f \in Clean : f \in todo \/ Caught(work, f)
        /\ changed \/ manifest = work \/ noticed = {}

LoadCaught == stage = "start" /\ work = NONE => \A f \in Clean : Caught(ReadEntries, f)

EventsCatch ==
    stage = "watch" =>
        \A f \in Clean : Pending(queue, f) \/ (~Mentioned(queue, f) /\ Caught(ReadEntries, f))

HalfCatches ==
    parsed # NONE =>
        \A f \in Clean : \/ Pending(Tail(queue), f)
                         \/ ~Mentioned(Tail(queue), f) /\ (f = parsed.file \/ Caught(work, f))

CatchInv == LoadCatches /\ LoadCaught /\ EventsCatch /\ HalfCatches

\* Dealing with the head of the queue.
LEMMA LastOfTail ==
    ASSUME NEW q \in Seq(Events), q # <<>>, NEW f, NEW k
    PROVE  /\ Last(q, f, k) => \/ Last(Tail(q), f, k)
                               \/ Head(q).file = f /\ Head(q).kind = k /\ ~Mentioned(Tail(q), f)
           /\ ~Mentioned(q, f) => ~Mentioned(Tail(q), f) /\ Head(q).file # f
<1>1. /\ Len(q) \in Nat /\ Len(q) > 0 /\ DOMAIN q = 1 .. Len(q) /\ Head(q) = q[1]
      /\ DOMAIN Tail(q) = 1 .. (Len(q) - 1) /\ \A i \in 1 .. (Len(q) - 1) : Tail(q)[i] = q[i + 1]
  <2>1. Len(q) \in Nat /\ DOMAIN q = 1 .. Len(q) /\ Len(q) # 0
    BY LenProperties, EmptySeq
  <2>2. /\ Tail(q) \in Seq(Events) /\ Len(Tail(q)) = Len(q) - 1 /\ Head(q) = q[1]
        /\ \A i \in 1 .. Len(Tail(q)) : Tail(q)[i] = q[i + 1]
    BY HeadTailProperties
  <2> QED BY <2>1, <2>2, LenProperties
<1>2. ~Mentioned(q, f) => ~Mentioned(Tail(q), f) /\ Head(q).file # f
  BY <1>1 DEF Mentioned
<1>3. ASSUME Last(q, f, k)
      PROVE  Last(Tail(q), f, k) \/ (Head(q).file = f /\ Head(q).kind = k /\ ~Mentioned(Tail(q), f))
  <2>1. PICK i \in 1 .. Len(q) : /\ q[i].file = f /\ q[i].kind = k
                                 /\ \A j \in 1 .. Len(q) : j > i => q[j].file # f
    BY <1>1, <1>3 DEF Last
  <2>2. CASE i = 1
    <3>1. \A j \in 1 .. (Len(q) - 1) : Tail(q)[j].file # f
      BY <1>1, <2>1, <2>2
    <3> QED BY <1>1, <2>1, <2>2, <3>1 DEF Mentioned
  <2>3. CASE i > 1
    <3>1. i - 1 \in 1 .. (Len(q) - 1) /\ Tail(q)[i - 1] = q[i]
      BY <1>1, <2>3
    <3>2. \A j \in 1 .. (Len(q) - 1) : j > i - 1 => Tail(q)[j].file # f
      BY <1>1, <2>1
    <3> QED BY <1>1, <2>1, <3>1, <3>2 DEF Last
  <2> QED BY <1>1, <2>2, <2>3
<1> QED BY <1>2, <1>3

\* An event that arrives is the last of its file, and nothing to the others.
LEMMA LastOfAppend ==
    ASSUME NEW q \in Seq(Events), NEW e \in Events
    PROVE  /\ Last(Append(q, e), e.file, e.kind)
           /\ \A g, k : g # e.file =>
                 /\ Last(q, g, k) => Last(Append(q, e), g, k)
                 /\ ~Mentioned(q, g) => ~Mentioned(Append(q, e), g)
<1>1. /\ Len(q) \in Nat /\ DOMAIN q = 1 .. Len(q) /\ DOMAIN Append(q, e) = 1 .. (Len(q) + 1)
      /\ \A i \in 1 .. Len(q) : Append(q, e)[i] = q[i]
      /\ Append(q, e)[Len(q) + 1] = e
  BY AppendProperties, LenProperties
<1>2. Last(Append(q, e), e.file, e.kind)
  BY <1>1 DEF Last
<1>3. ASSUME NEW g, NEW k, g # e.file, Last(q, g, k) PROVE Last(Append(q, e), g, k)
  <2>1. PICK i \in 1 .. Len(q) : /\ q[i].file = g /\ q[i].kind = k
                                 /\ \A j \in 1 .. Len(q) : j > i => q[j].file # g
    BY <1>1, <1>3 DEF Last
  <2>2. \A j \in 1 .. (Len(q) + 1) : j > i => Append(q, e)[j].file # g
    BY <1>1, <1>3, <2>1
  <2> QED BY <1>1, <2>1, <2>2 DEF Last
<1>4. ASSUME NEW g, g # e.file, ~Mentioned(q, g) PROVE ~Mentioned(Append(q, e), g)
  BY <1>1, <1>4 DEF Mentioned
<1> QED BY <1>2, <1>3, <1>4

\* An entry with the file's mtime is the file's, if the file is not suspect.
LEMMA TrustedIsVersion ==
    ASSUME CacheInv, NEW m \in Entries, Good(m), NEW f \in Files \ Suspect, Readable(f),
           m[f] # NONE, m[f].mtime = disk[f].mtime
    PROVE  m[f] = Version(f)
<1>1. m[f] \in history[f] /\ Version(f) \in history[f] /\ ~Collided(f)
  BY DEF CacheInv, OnRecord, Good, WereVersions, Suspect
<1>2. m[f].def = Version(f).def
  BY <1>1 DEF Collided, Version
<1>3. m[f] \in [mtime : mtimes, def : Defs]
  BY DEF Entries
<1> QED BY <1>2, <1>3 DEF Version

\* Which files are clean depends on the directory and its history only.
LEMMA SameClean ==
    ASSUME UNCHANGED <<disk, history, raced, noticed, writing>>
    PROVE  /\ Clean' = Clean /\ \A f \in Files : Readable(f)' = Readable(f) /\ Version(f)' = Version(f)
           /\ Clean \subseteq noticed /\ \A f \in Clean : f \notin Suspect
BY DEF Clean, Suspect, Collided, Readable, Version

\* Nothing is claimed where neither a load nor the event loop runs.
LEMMA Elsewhere ==
    ASSUME stage' \notin {"start", "watch"}, parsed' = NONE
    PROVE  CatchInv'
BY DEF CatchInv, LoadCatches, LoadCaught, EventsCatch, HalfCatches

\* Nor where every file has been missed.
LEMMA NothingNoticed == noticed' = {} => CatchInv'
BY DEF CatchInv, LoadCatches, LoadCaught, EventsCatch, HalfCatches, Clean

\* The listing: a file that is not there has no entry, the others come up.
LEMMA ScanCatches ==
    ASSUME TypeInv, Scan("up", "start")
    PROVE  CatchInv'
<1>1. /\ work' = [f \in Files |-> IF disk[f] = NONE THEN NONE ELSE ReadEntries[f]]
      /\ todo' = {f \in Files : disk[f] # NONE} /\ noticed' = Files /\ stage' = "start"
      /\ changed' = (manifest = NONE \/ work' # manifest)
      /\ UNCHANGED <<disk, manifest>> /\ parsed' = parsed /\ parsed = NONE
  BY DEF Scan, Present, watcher, TypeInv, TypeOK
<1>2. work' # NONE
  <2>1. \A f \in Files : ReadEntries[f] \in [mtime : mtimes, def : Defs] \cup {NONE}
    BY ReadType DEF Entries
  <2>2. work' \in Entries
    BY <1>1, <2>1 DEF Entries
  <2> QED BY <2>2, NoneAssumption
<1>3. \A f \in Files : f \in todo' \/ (disk'[f] = NONE /\ work'[f] = NONE)
  BY <1>1
<1>4. LoadCatches'
  BY <1>1, <1>3 DEF LoadCatches, Caught, Readable, Clean
<1> QED BY <1>1, <1>2, <1>4 DEF CatchInv, LoadCaught, EventsCatch, HalfCatches

\* One turn: the entry that is kept or made is the file's.
LEMMA UpsertEntry ==
    ASSUME TypeInv, CacheInv, NEW f \in Files, Upsert(f)
    PROVE  /\ f \in todo /\ todo' = todo \ {f} /\ changed' = (changed \/ ~Fresh(f))
           /\ UNCHANGED <<disk, manifest, stage, queue, parsed, history, raced, noticed, writing>>
           /\ stage \in {"boot", "start"} /\ parsed = NONE /\ work # NONE /\ work' # NONE
           /\ \A g \in Files \ {f} : work'[g] = work[g]
           /\ Fresh(f) => work' = work
           /\ f \notin Suspect => disk[f] # NONE /\ (Readable(f) => work'[f] = Version(f))
<1>1. /\ f \in todo /\ (Fresh(f) \/ Readable(f)) /\ todo' = todo \ {f}
      /\ work' = [work EXCEPT ![f] = IF Fresh(f) THEN work[f]
                    ELSE [mtime |-> scan[f], def |-> parse_toml(disk[f].text)]]
      /\ changed' = (changed \/ ~Fresh(f))
      /\ UNCHANGED <<disk, manifest, stage, queue, parsed, history, raced, noticed, writing>>
  BY DEF Upsert, watcher
<1>2. /\ stage \in {"boot", "start"} /\ parsed = NONE /\ work \in Entries /\ work # NONE /\ Good(work)
      /\ f \in raced \/ (disk[f] # NONE /\ disk[f].mtime = scan[f])
  BY <1>1, NoneAssumption DEF CacheInv, Shapes, TypeInv, Held, LookHolds
<1>3. \A g \in Files \ {f} : work'[g] = work[g]
  BY <1>1, <1>2 DEF Entries
<1>4. work'[f] = IF Fresh(f) THEN work[f] ELSE [mtime |-> scan[f], def |-> parse_toml(disk[f].text)]
  BY <1>1, <1>2 DEF Entries
<1>5. ASSUME f \notin Suspect PROVE disk[f] # NONE /\ (Readable(f) => work'[f] = Version(f))
  <2>1. disk[f] # NONE /\ disk[f].mtime = scan[f]
    BY <1>2, <1>5 DEF Suspect
  <2>2. CASE Fresh(f)
    <3>1. work[f] # NONE /\ work[f].mtime = disk[f].mtime
      BY <2>1, <2>2 DEF Fresh
    <3> QED BY <1>2, <1>4, <1>5, <2>1, <2>2, <3>1, TrustedIsVersion
  <2>3. CASE ~Fresh(f)
    BY <1>4, <2>1, <2>3 DEF Version
  <2> QED BY <2>1, <2>2, <2>3
<1>6. Fresh(f) => work' = work
  BY <1>1, <1>2 DEF Entries
<1>7. work' # NONE
  <2>1. work' \in Entries
    BY <1>1, <1>2, ReadType DEF TypeInv, Entries
  <2> QED BY <2>1, NoneAssumption
<1> QED BY <1>1, <1>2, <1>3, <1>5, <1>6, <1>7

\* So after its turn a clean file is caught.
LEMMA UpsertCatches ==
    ASSUME TypeInv, CacheInv, CatchInv, NEW f \in Files, Upsert(f)
    PROVE  CatchInv'
<1>1. /\ f \in todo /\ todo' = todo \ {f} /\ changed' = (changed \/ ~Fresh(f))
      /\ UNCHANGED <<disk, manifest, stage, queue, parsed, history, raced, noticed, writing>>
  BY UpsertEntry
<1>2. stage \in {"boot", "start"} /\ parsed = NONE /\ work # NONE
  BY UpsertEntry
<1>3. \A g \in Files \ {f} : work'[g] = work[g]
  BY UpsertEntry
<1>5. f \in Clean => disk[f] # NONE /\ (Readable(f) => work'[f] = Version(f))
  BY UpsertEntry DEF Clean
<1>6. Fresh(f) => work' = work
  BY UpsertEntry
<1>7. Clean \subseteq Files
  BY DEF Clean, TypeInv, TypeOK
<1>8. LoadCatches'
  <2> SUFFICES ASSUME stage = "start"
               PROVE /\ \A g \in Clean' : g \in todo' \/ Caught(work, g)'
                     /\ changed' \/ manifest' = work' \/ noticed' = {}
    BY <1>1 DEF LoadCatches
  <2>1. /\ \A g \in Clean : g \in todo \/ Caught(work, g)
        /\ changed \/ manifest = work \/ noticed = {}
    BY <1>2 DEF CatchInv, LoadCatches
  <2>2. ASSUME NEW g \in Clean PROVE g \in todo' \/ Caught(work, g)'
    <3>1. CASE g = f
      BY <1>1, <1>5, <1>7, <2>2, <3>1, SameClean DEF Caught
    <3>2. CASE g # f
      BY <1>1, <1>3, <1>7, <2>1, <2>2, <3>2, SameClean DEF Caught
    <3> QED BY <3>1, <3>2
  <2> QED BY <1>1, <1>6, <2>1, <2>2, SameClean
<1>9. work' # NONE
  BY UpsertEntry
<1> QED BY <1>1, <1>2, <1>8, <1>9 DEF CatchInv, LoadCaught, EventsCatch, HalfCatches

\* The load ends: the copy becomes the manifest, or is what the manifest is.
LEMMA FinishLoadCatches ==
    ASSUME TypeInv, CatchInv, FinishLoad
    PROVE  CatchInv'
<1>1. /\ stage \in {"boot", "start"} /\ todo = {} /\ work # NONE /\ parsed' = parsed /\ parsed = NONE
      /\ manifest' = (IF changed THEN work ELSE manifest) /\ work' = NONE
      /\ UNCHANGED <<disk, history, raced, noticed, writing>>
  BY DEF FinishLoad, EndLoad, watcher, TypeInv, TypeOK
<1>2. CASE stage = "boot"
  <2>1. stage' \notin {"start", "watch"}
    BY <1>2 DEF FinishLoad
  <2> QED BY <1>1, <2>1, Elsewhere
<1>3. CASE stage = "start"
  <2>1. stage' = "start"
    BY <1>3 DEF FinishLoad
  <2>2. /\ \A f \in Clean : Caught(work, f)
        /\ changed \/ manifest = work \/ noticed = {}
    BY <1>1, <1>3 DEF CatchInv, LoadCatches
  <2>3. ASSUME noticed # {} PROVE ReadEntries' = work
    BY <1>1, <2>2, <2>3 DEF ReadEntries
  <2>4. Clean \subseteq Files /\ Clean \subseteq noticed
    BY DEF Clean, TypeInv, TypeOK
  <2>5. LoadCaught'
    BY <1>1, <2>2, <2>3, <2>4, SameClean DEF LoadCaught, Caught
  <2> QED BY <1>1, <2>1, <2>5 DEF CatchInv, LoadCatches, EventsCatch, HalfCatches
<1> QED BY <1>1, <1>2, <1>3

\* The watch is added to a directory that the load has caught.
LEMMA WatchAddCatches ==
    ASSUME TypeInv, CatchInv, WatchAdd
    PROVE  CatchInv'
<1>1. /\ stage = "start" /\ work = NONE /\ stage' = "watch" /\ queue = <<>> /\ parsed = NONE
      /\ UNCHANGED <<disk, history, raced, noticed, writing, manifest, queue, parsed>>
  BY DEF WatchAdd, watcher, TypeInv, TypeOK
<1>2. \A f \in Clean : f \in Files /\ Caught(ReadEntries, f)
  BY <1>1 DEF CatchInv, LoadCaught, Clean, TypeInv, TypeOK
<1>3. \A f : ~Mentioned(queue', f)
  BY <1>1 DEF Mentioned
<1>4. ReadEntries' = ReadEntries
  BY <1>1 DEF ReadEntries
<1>5. EventsCatch'
  BY <1>1, <1>2, <1>3, <1>4, SameClean DEF EventsCatch, Caught
<1> QED BY <1>1, <1>5 DEF CatchInv, LoadCatches, LoadCaught, HalfCatches

\* A manifest with one entry changed is a manifest.
LEMMA EntryType ==
    ASSUME NEW m \in Entries, NEW f \in Files, NEW e \in [mtime : mtimes, def : Defs] \cup {NONE}
    PROVE  /\ [m EXCEPT ![f] = e] \in Entries /\ [m EXCEPT ![f] = e] # NONE
           /\ [m EXCEPT ![f] = e][f] = e
           /\ \A g \in Files \ {f} : [m EXCEPT ![f] = e][g] = m[g]
<1>1. [m EXCEPT ![f] = e] \in Entries
  BY DEF Entries
<1>2. /\ [m EXCEPT ![f] = e][f] = e
      /\ \A g \in Files \ {f} : [m EXCEPT ![f] = e][g] = m[g]
  BY DEF Entries
<1> QED BY <1>1, <1>2, NoneAssumption

\* The head is dealt with: a clean file has a later event, or its last event
\* was the head, or no event at all.
LEMMA HeadOrLater ==
    ASSUME TypeInv, CacheInv, CatchInv, stage = "watch", queue # <<>>, NEW f \in Clean
    PROVE  \/ Pending(Tail(queue), f)
           \/ /\ ~Mentioned(Tail(queue), f) /\ Head(queue).file = f
              /\ Head(queue).kind = IF disk[f] = NONE THEN "DELETE" ELSE "WRITE"
           \/ /\ ~Mentioned(Tail(queue), f) /\ Head(queue).file # f /\ Caught(ReadEntries, f)
<1>1. queue \in Seq(Events)
  BY DEF CacheInv, Shapes
<1>2. Pending(queue, f) \/ (~Mentioned(queue, f) /\ Caught(ReadEntries, f))
  BY DEF CatchInv, EventsCatch
<1> QED BY <1>1, <1>2, LastOfTail DEF Pending

\* A DELETE event takes the entry out.
LEMMA DeleteEventCatches ==
    ASSUME TypeInv, CacheInv, CatchInv, DeleteEvent
    PROVE  CatchInv'
<1> DEFINE h == Head(queue).file
<1>1. /\ stage = "watch" /\ stage' = stage /\ queue # <<>> /\ Head(queue).kind = "DELETE"
      /\ manifest' = [ReadEntries EXCEPT ![h] = NONE] /\ queue' = Tail(queue) /\ parsed' = parsed
      /\ UNCHANGED <<disk, history, raced, noticed, writing>>
  BY DEF DeleteEvent
<1>2. h \in Files /\ parsed = NONE
  BY <1>1, QueueSteps DEF CacheInv, Shapes
<1>3. ReadEntries \in Entries
  BY <1>2, ReadType
<1>4. /\ manifest' # NONE /\ manifest'[h] = NONE
      /\ \A g \in Files \ {h} : manifest'[g] = ReadEntries[g]
  <2> HIDE DEF h
  <2> QED BY <1>1, <1>2, <1>3, EntryType
<1>5. ReadEntries' = manifest'
  BY <1>4 DEF ReadEntries
<1>6. ASSUME NEW f \in Clean
      PROVE Pending(queue, f)' \/ (~Mentioned(queue', f) /\ Caught(ReadEntries, f)')
  <2>1. f \in Files
    BY DEF Clean, TypeInv, TypeOK
  <2>2. CASE Pending(Tail(queue), f)
    BY <1>1, <2>2 DEF Pending
  <2>3. CASE ~Mentioned(Tail(queue), f) /\ h = f
             /\ Head(queue).kind = IF disk[f] = NONE THEN "DELETE" ELSE "WRITE"
    <3>1. disk[f] = NONE
      BY <1>1, <2>3
    <3> QED BY <1>1, <1>4, <1>5, <2>3, <3>1 DEF Caught, Readable
  <2>4. CASE ~Mentioned(Tail(queue), f) /\ h # f /\ Caught(ReadEntries, f)
    BY <1>1, <1>4, <1>5, <2>1, <2>4, SameClean DEF Caught
  <2> QED BY <1>1, <2>2, <2>3, <2>4, HeadOrLater
<1>7. EventsCatch'
  BY <1>1, <1>6, SameClean DEF EventsCatch
<1> QED BY <1>1, <1>2, <1>7 DEF CatchInv, LoadCatches, LoadCaught, HalfCatches

\* A WRITE event of a file that cannot be read leaves the manifest alone; of
\* another it takes a copy.
LEMMA ParseEventCatches ==
    ASSUME TypeInv, CacheInv, CatchInv, ParseEvent
    PROVE  CatchInv'
<1> DEFINE h == Head(queue).file
<1>1. /\ stage = "watch" /\ stage' = stage /\ queue # <<>> /\ Head(queue).kind = "WRITE"
      /\ parsed = NONE /\ UNCHANGED <<disk, history, raced, noticed, writing>>
  BY DEF ParseEvent
<1>2. \A f \in Clean : f \in Files
  BY DEF Clean, TypeInv, TypeOK
<1>3. CASE Readable(h)
  <2>1. /\ parsed' = [file |-> h, def |-> parse_toml(disk[h].text)] /\ work' = ReadEntries
        /\ UNCHANGED <<manifest, queue>>
    BY <1>3 DEF ParseEvent
  <2>2. EventsCatch'
    <3>1. ReadEntries' = ReadEntries
      BY <2>1 DEF ReadEntries
    <3>2. \A f \in Clean : Pending(queue, f) \/ (~Mentioned(queue, f) /\ Caught(ReadEntries, f))
      BY <1>1 DEF CatchInv, EventsCatch
    <3> QED BY <1>1, <1>2, <2>1, <3>1, <3>2, SameClean DEF EventsCatch, Pending, Caught
  <2>3. ASSUME NEW f \in Clean
        PROVE \/ Pending(Tail(queue), f)'
              \/ ~Mentioned(Tail(queue), f)' /\ (f = parsed'.file \/ Caught(work, f)')
    <3>1. parsed'.file = h
      BY <2>1
    <3>2. Pending(Tail(queue), f) => Pending(Tail(queue), f)'
      BY <1>1, <2>1 DEF Pending
    <3>3. Caught(ReadEntries, f) => Caught(work, f)'
      BY <1>1, <1>2, <2>1, SameClean DEF Caught
    <3>4. Mentioned(Tail(queue), f)' = Mentioned(Tail(queue), f)
      BY <2>1
    <3> QED BY <1>1, <3>1, <3>2, <3>3, <3>4, HeadOrLater
  <2>4. HalfCatches'
    BY <1>1, <2>3, SameClean DEF HalfCatches
  <2> QED BY <1>1, <2>2, <2>4 DEF CatchInv, LoadCatches, LoadCaught
<1>4. CASE ~Readable(h)
  <2>1. manifest' = ReadEntries /\ queue' = Tail(queue) /\ parsed' = parsed
    BY <1>4 DEF ParseEvent
  <2>2. ReadEntries' = ReadEntries
    BY <2>1 DEF ReadEntries
  <2>3. ASSUME NEW f \in Clean
        PROVE Pending(queue, f)' \/ (~Mentioned(queue', f) /\ Caught(ReadEntries, f)')
    <3>1. Pending(Tail(queue), f) => Pending(queue, f)'
      BY <1>1, <2>1 DEF Pending
    <3>2. Caught(ReadEntries, f) => Caught(ReadEntries, f)'
      BY <1>1, <1>2, <2>2, SameClean DEF Caught
    <3>3. h = f /\ Head(queue).kind = (IF disk[f] = NONE THEN "DELETE" ELSE "WRITE")
             => Caught(ReadEntries, f)
      BY <1>1, <1>4 DEF Caught
    <3> QED BY <1>1, <2>1, <3>1, <3>2, <3>3, HeadOrLater
  <2>4. EventsCatch'
    BY <1>1, <2>3, SameClean DEF EventsCatch
  <2> QED BY <1>1, <2>1, <2>4 DEF CatchInv, LoadCatches, LoadCaught, HalfCatches
<1> QED BY <1>3, <1>4

\* The entry is stored: the parsed file is caught, unless it is suspect.
LEMMA StatEventCatches ==
    ASSUME TypeInv, CacheInv, CatchInv, StatEvent
    PROVE  CatchInv'
<1> DEFINE h == parsed.file
           e == [mtime |-> disk[h].mtime, def |-> parsed.def]
<1>1. /\ stage = "watch" /\ stage' = stage /\ parsed # NONE /\ parsed' = NONE /\ queue' = Tail(queue)
      /\ manifest' = IF disk[h] = NONE THEN work ELSE [work EXCEPT ![h] = e]
      /\ UNCHANGED <<disk, history, raced, noticed, writing>>
  BY DEF StatEvent
<1>2. h \in Files /\ parsed.def \in Defs /\ work \in Entries
  BY <1>1 DEF TypeInv, TypeOK
<1>3. disk[h] # NONE => e \in [mtime : mtimes, def : Defs]
  BY <1>2, ReadType
<1>4. /\ manifest' # NONE /\ \A g \in Files \ {h} : manifest'[g] = work[g]
      /\ disk[h] # NONE => manifest'[h] = e
  <2> HIDE DEF h, e
  <2> QED BY <1>1, <1>2, <1>3, EntryType, NoneAssumption
<1>5. ReadEntries' = manifest'
  BY <1>4 DEF ReadEntries
<1>6. h \in Clean => disk[h] # NONE /\ manifest'[h] = Version(h)
  BY <1>1, <1>4 DEF CacheInv, LookHolds, Clean, Suspect, Version, Readable
<1>7. ASSUME NEW f \in Clean
      PROVE Pending(queue, f)' \/ (~Mentioned(queue', f) /\ Caught(ReadEntries, f)')
  <2>1. f \in Files
    BY DEF Clean, TypeInv, TypeOK
  <2>2. \/ Pending(Tail(queue), f)
        \/ ~Mentioned(Tail(queue), f) /\ (f = h \/ Caught(work, f))
    BY <1>1 DEF CatchInv, HalfCatches
  <2>3. Pending(Tail(queue), f) => Pending(queue, f)'
    BY <1>1 DEF Pending
  <2>4. f = h => Caught(ReadEntries, f)'
    BY <1>1, <1>5, <1>6, <2>1, SameClean DEF Caught
  <2>5. f # h /\ Caught(work, f) => Caught(ReadEntries, f)'
    BY <1>1, <1>4, <1>5, <2>1, SameClean DEF Caught
  <2> QED BY <1>1, <2>2, <2>3, <2>4, <2>5
<1>8. EventsCatch'
  BY <1>1, <1>7, SameClean DEF EventsCatch
<1> QED BY <1>1, <1>8 DEF CatchInv, LoadCatches, LoadCaught, HalfCatches

(* A file changes. It is missed, or being written, or the change is the    *)
(* last event of the queue; nothing changes for the other files.           *)
LEMMA PutCatches ==
    ASSUME TypeInv, CacheInv, CatchInv, NEW f \in Files, NEW v, Put(f, v),
           \A g \in noticed' \ {f} : g \in noticed /\ (g # writing' => g # writing),
           stage = "watch" \/ noticed' \subseteq noticed,
           \/ queue' = queue /\ (f \notin noticed' \/ f = writing')
           \/ /\ stage = "watch"
              /\ queue' = Append(queue, [file |-> f, kind |-> IF v = NONE THEN "DELETE" ELSE "WRITE"])
    PROVE  CatchInv'
<1> DEFINE e == [file |-> f, kind |-> IF v = NONE THEN "DELETE" ELSE "WRITE"]
<1>1. /\ disk' = [disk EXCEPT ![f] = v] /\ raced \subseteq raced'
      /\ \A g \in Files \ {f} : history'[g] = history[g]
      /\ UNCHANGED <<manifest, stage, todo, work, changed, parsed>>
  BY DEF Put, loader, CacheInv, Shapes, OnFiles
<1>2. disk'[f] = v /\ \A g \in Files \ {f} : disk'[g] = disk[g]
  BY <1>1 DEF CacheInv, Shapes, OnFiles
<1>3. noticed \subseteq Files /\ queue \in Seq(Events) /\ e \in Events /\ e.file = f
  BY DEF TypeInv, TypeOK, CacheInv, Shapes, Events
<1>4. \A g \in Clean' : g # f => g \in Clean /\ g \in Files
  BY <1>1, <1>3 DEF Clean, Suspect, Collided
<1>5. \A g \in Files \ {f} : Readable(g)' = Readable(g) /\ Version(g)' = Version(g)
  BY <1>2 DEF Readable, Version
<1>6. \A g \in Files \ {f} : /\ Caught(work, g) => Caught(work, g)'
                             /\ Caught(ReadEntries, g) => Caught(ReadEntries, g)'
  BY <1>1, <1>2, <1>5 DEF Caught, ReadEntries
<1>7. queue' = queue \/ queue' = Append(queue, e)
  OBVIOUS
<1>8. f \in Clean' => stage = "watch" /\ queue' = Append(queue, e)
  BY DEF Clean
<1>9. LoadCatches'
  <2> SUFFICES ASSUME stage = "start", work # NONE
               PROVE /\ \A g \in Clean' : g \in todo' \/ Caught(work, g)'
                     /\ changed' \/ manifest' = work' \/ noticed' = {}
    BY <1>1 DEF LoadCatches
  <2>1. /\ \A g \in Clean : g \in todo \/ Caught(work, g)
        /\ changed \/ manifest = work \/ noticed = {}
    BY DEF CatchInv, LoadCatches
  <2> QED BY <1>1, <1>4, <1>6, <1>8, <2>1
<1>10. LoadCaught'
  <2> SUFFICES ASSUME stage = "start", work = NONE PROVE \A g \in Clean' : Caught(ReadEntries, g)'
    BY <1>1 DEF LoadCaught
  <2>1. \A g \in Clean : Caught(ReadEntries, g)
    BY DEF CatchInv, LoadCaught
  <2> QED BY <1>4, <1>6, <1>8, <2>1
<1>11. ASSUME NEW q \in Seq(Events), NEW g \in Files \ {f}
       PROVE  /\ Pending(q, g) => Last(q, g, IF disk'[g] = NONE THEN "DELETE" ELSE "WRITE")
              /\ Pending(q, g) => Last(Append(q, e), g, IF disk'[g] = NONE THEN "DELETE" ELSE "WRITE")
              /\ ~Mentioned(q, g) => ~Mentioned(Append(q, e), g)
  <2> HIDE DEF e
  <2> QED BY <1>2, <1>3, LastOfAppend DEF Pending
<1>12. ASSUME NEW q \in Seq(Events)
       PROVE Last(Append(q, e), f, IF disk'[f] = NONE THEN "DELETE" ELSE "WRITE")
  <2>1. e.kind = IF disk'[f] = NONE THEN "DELETE" ELSE "WRITE"
    BY <1>2
  <2> HIDE DEF e
  <2> QED BY <1>3, <2>1, LastOfAppend
<1>13. EventsCatch'
  <2> SUFFICES ASSUME stage = "watch", NEW g \in Clean'
               PROVE Pending(queue, g)' \/ (~Mentioned(queue', g) /\ Caught(ReadEntries, g)')
    BY <1>1 DEF EventsCatch
  <2>1. CASE g = f
    BY <1>3, <1>8, <1>12, <2>1 DEF Pending
  <2>2. CASE g # f
    <3>1. Pending(queue, g) \/ (~Mentioned(queue, g) /\ Caught(ReadEntries, g))
      BY <1>4, <2>2 DEF CatchInv, EventsCatch
    <3>2. Pending(queue, g) => Pending(queue, g)'
      BY <1>3, <1>4, <1>7, <1>11, <2>2 DEF Pending
    <3>3. ~Mentioned(queue, g) => ~Mentioned(queue', g)
      BY <1>3, <1>4, <1>7, <1>11, <2>2
    <3> QED BY <1>4, <1>6, <2>2, <3>1, <3>2, <3>3
  <2> QED BY <2>1, <2>2
<1>14. HalfCatches'
  <2> SUFFICES ASSUME parsed # NONE, NEW g \in Clean'
               PROVE \/ Pending(Tail(queue), g)'
                     \/ ~Mentioned(Tail(queue'), g) /\ (g = parsed.file \/ Caught(work, g)')
    BY <1>1 DEF HalfCatches
  <2>1. queue # <<>> /\ stage = "watch" /\ Tail(queue) \in Seq(Events)
    BY QueueSteps DEF CacheInv, Shapes
  <2>2. Tail(queue') = Tail(queue) \/ Tail(queue') = Append(Tail(queue), e)
    <3>1. Tail(Append(queue, e)) = Append(Tail(queue), e)
      <4> HIDE DEF e
      <4> QED BY <1>3, <2>1, HeadTailAppend
    <3> QED BY <1>7, <3>1
  <2>3. queue' = Append(queue, e) => Tail(queue') = Append(Tail(queue), e)
    <3> HIDE DEF e
    <3> QED BY <1>3, <2>1, HeadTailAppend
  <2>4. CASE g = f
    BY <1>8, <1>12, <2>1, <2>3, <2>4 DEF Pending
  <2>5. CASE g # f
    <3>1. \/ Pending(Tail(queue), g)
          \/ ~Mentioned(Tail(queue), g) /\ (g = parsed.file \/ Caught(work, g))
      BY <1>4, <2>5 DEF CatchInv, HalfCatches
    <3>2. Pending(Tail(queue), g) => Pending(Tail(queue), g)'
      BY <1>4, <1>11, <2>1, <2>2, <2>5 DEF Pending
    <3>3. ~Mentioned(Tail(queue), g) => ~Mentioned(Tail(queue'), g)
      BY <1>4, <1>11, <2>1, <2>2, <2>5
    <3> QED BY <1>4, <1>6, <2>5, <3>1, <3>2, <3>3
  <2> QED BY <2>4, <2>5
<1> QED BY <1>9, <1>10, <1>13, <1>14 DEF CatchInv

\* Every step keeps the invariant.
LEMMA StepCatch == CacheInv /\ TypeInv /\ WritingOK /\ CatchInv /\ [Next]_vars => CatchInv'
<1> SUFFICES ASSUME CacheInv, TypeInv, WritingOK, CatchInv, [Next]_vars PROVE CatchInv'
  OBVIOUS
<1>1. CASE BootLoad
  BY <1>1, Elsewhere DEF BootLoad, Scan, watcher, TypeInv, TypeOK
<1>2. CASE WatchLoad
  BY <1>2, ScanCatches DEF WatchLoad
<1>3. CASE FinishLoad
  BY <1>3, FinishLoadCatches
<1>4. CASE LoadError
  <2>1. parsed' = NONE /\ stage' \notin {"start", "watch"}
    BY <1>4 DEF LoadError, watcher, TypeInv, TypeOK
  <2> QED BY <2>1, Elsewhere
<1>5. ASSUME NEW f \in Files, LoadFails(f) PROVE CatchInv'
  <2>1. stage \in {"boot", "start"}
    BY <1>5 DEF LoadFails, CacheInv, Shapes
  <2>2. parsed' = NONE /\ stage' \notin {"start", "watch"}
    BY <1>5, <2>1 DEF LoadFails, watcher, TypeInv, TypeOK
  <2> QED BY <2>2, Elsewhere
<1>6. ASSUME NEW f \in Files, Upsert(f) PROVE CatchInv'
  BY <1>6, UpsertCatches
<1>7. CASE WatchAdd
  BY <1>7, WatchAddCatches
<1>8. CASE DeleteEvent
  BY <1>8, DeleteEventCatches
<1>9. CASE ParseEvent
  BY <1>9, ParseEventCatches
<1>10. CASE StatEvent
  BY <1>10, StatEventCatches
<1>11. CASE WatchDies \/ PowerOff
  BY <1>11, Elsewhere DEF WatchDies, PowerOff
<1>12. ASSUME NEW f \in Files, BeginWrite(f) PROVE CatchInv'
  <2>1. /\ Put(f, [text |-> Torn, mtime |-> now]) /\ writing = NONE /\ writing' = f
        /\ queue' = queue /\ noticed' = noticed
    BY <1>12 DEF BeginWrite
  <2>2. \A g \in noticed : g # NONE
    BY NoneAssumption DEF TypeInv, TypeOK
  <2> QED BY <2>1, <2>2, PutCatches
<1>13. \A t \in Texts \cup {Torn}, m \in mtimes : [text |-> t, mtime |-> m] # NONE
  BY NoneAssumption
<1>14. now \in mtimes /\ \A m \in 0 .. now : m \in mtimes
  BY BoundsAssumption DEF TypeInv, TypeOK, mtimes
<1>15. ASSUME NEW t \in Texts, EndWrite(t) PROVE CatchInv'
  <2> DEFINE f == writing
             v == [text |-> t, mtime |-> now]
  <2>1. writing \in Files /\ Put(f, v) /\ v # NONE /\ Notify(f, "WRITE") /\ writing' = NONE
    BY <1>13, <1>14, <1>15 DEF EndWrite, WritingOK
  <2>2. /\ \A g \in noticed' \ {f} : g \in noticed /\ (g # writing' => g # writing)
        /\ stage = "watch" \/ noticed' \subseteq noticed
        /\ \/ queue' = queue /\ f \notin noticed'
           \/ stage = "watch" /\ queue' = Append(queue, [file |-> f, kind |-> "WRITE"])
    BY <2>1 DEF Notify
  <2> HIDE DEF v
  <2> QED BY <2>1, <2>2, PutCatches
<1>16. ASSUME NEW t \in Texts, NEW f \in Files, MoveIn(f, t) PROVE CatchInv'
  <2>1. PICK m \in 0 .. now : Put(f, [text |-> t, mtime |-> m])
    BY <1>16 DEF MoveIn
  <2> DEFINE v == [text |-> t, mtime |-> m]
  <2>2. Put(f, v) /\ v # NONE /\ Notify(f, "WRITE") /\ writing' = writing
    BY <1>13, <1>14, <1>16, <2>1 DEF MoveIn
  <2>3. /\ \A g \in noticed' \ {f} : g \in noticed /\ (g # writing' => g # writing)
        /\ stage = "watch" \/ noticed' \subseteq noticed
        /\ \/ queue' = queue /\ f \notin noticed'
           \/ stage = "watch" /\ queue' = Append(queue, [file |-> f, kind |-> "WRITE"])
    BY <2>2 DEF Notify
  <2> HIDE DEF v
  <2> QED BY <2>2, <2>3, PutCatches
<1>17. ASSUME NEW f \in Files, Delete(f) PROVE CatchInv'
  <2>1. Put(f, NONE) /\ Notify(f, "DELETE") /\ writing' = writing
    BY <1>17 DEF Delete
  <2>2. /\ \A g \in noticed' \ {f} : g \in noticed /\ (g # writing' => g # writing)
        /\ stage = "watch" \/ noticed' \subseteq noticed
        /\ \/ queue' = queue /\ f \notin noticed'
           \/ stage = "watch" /\ queue' = Append(queue, [file |-> f, kind |-> "DELETE"])
    BY <2>1 DEF Notify
  <2> QED BY <2>1, <2>2, PutCatches
<1>18. ASSUME NEW f \in Files, RenameAway(f) PROVE CatchInv'
  BY <1>18, PutCatches DEF RenameAway
<1>19. CASE ManifestLost
  BY <1>19, NothingNoticed DEF ManifestLost
<1>20. CASE Tick \/ UNCHANGED vars
  <2>1. UNCHANGED <<disk, history, raced, noticed, writing, manifest, stage, scan, todo, work, changed,
                    queue, parsed>>
    BY <1>20 DEF Tick, vars, loader, watcher
  <2>2. Clean' = Clean /\ ReadEntries' = ReadEntries /\ Clean \subseteq Files
    BY <2>1, SameClean DEF ReadEntries, Clean, TypeInv, TypeOK
  <2>3. \A m, f : Caught(m, f) <=> (disk'[f] = NONE => m[f] = NONE) /\ (Readable(f)' => m[f] = Version(f)')
    BY <2>1 DEF Caught, Readable, Version
  <2>4. LoadCatches' /\ LoadCaught'
    BY <2>1, <2>2, <2>3 DEF CatchInv, LoadCatches, LoadCaught, Caught
  <2>5. EventsCatch' /\ HalfCatches'
    BY <2>1, <2>2, <2>3 DEF CatchInv, EventsCatch, HalfCatches, Caught, Pending
  <2> QED BY <2>4, <2>5 DEF CatchInv
<1> QED BY <1>1, <1>2, <1>3, <1>4, <1>5, <1>6, <1>7, <1>8, <1>9, <1>10, <1>11, <1>12, <1>15, <1>16,
           <1>17, <1>18, <1>19, <1>20 DEF Next

(* When flint-watch has no event left, the manifest says what the          *)
(* directory says of every file of which it missed no change, for any      *)
(* files, capacity of the inotify queue, edits, deaths, restarts and power *)
(* cuts: the order of the events of a file, the writes of torn files and   *)
(* the load before the watch is in place make no difference.               *)
THEOREM WatchHasCaughtUp == Spec => []WatchCatchesUp
<1>1. Init => CatchInv
  BY Elsewhere DEF Init, CatchInv, LoadCatches, LoadCaught, EventsCatch, HalfCatches
<1>2. CacheInv /\ CatchInv => WatchCatchesUp
  <2> SUFFICES ASSUME CacheInv, CatchInv, stage = "watch", queue = <<>>, manifest # NONE,
                      NEW f \in Clean
               PROVE  /\ disk[f] = NONE => manifest[f] = NONE
                      /\ Readable(f) => manifest[f] = Version(f)
    BY DEF WatchCatchesUp, Clean, Version
  <2>1. ~Pending(queue, f)
    BY DEF Pending, Last
  <2>2. Caught(ReadEntries, f) /\ ReadEntries = manifest
    BY <2>1 DEF CatchInv, EventsCatch, ReadEntries
  <2> QED BY <2>2 DEF Caught
<1> QED BY <1>1, <1>2, StepCatch, CacheInvariance, PTL DEF Spec

-----------------------------------------------------------------------------
(* The preflight. has_cycle counts the names its queue gives out; what     *)
(* that recursion computes is shown here by looking at the least turn at   *)
(* which a claim would fail.                                               *)

\* A set of natural numbers that is not empty has a least one.
LEMMA LeastNatural ==
    ASSUME NEW T \in SUBSET Nat, T # {}
    PROVE  \E x \in T : \A y \in T : x <= y
<1>1. PICK x \in T : \A y \in T : ~ (<<y, x>> \in OpToRel(<, Nat))
  <2> HIDE DEF IsWellFoundedOn
  <2> QED BY NatLessThanWellFounded, WFMin
<1>2. \A y \in T : ~ (y < x)
  BY <1>1, Zenon DEF OpToRel
<1> QED BY <1>2

\* The names whose definitions have all their edges from names of N.
Ready(dir, F, N) ==
    {n \in Named(dir, F) : \A f \in F : dir[f].name = n => KnownDeps(dir, F, f) \subseteq N}

\* t[i] holds the names given out in the first i turns, for i up to k.
Turns(dir, F, k, t) == t = [i \in 0 .. k |-> IF i = 0 THEN {} ELSE Ready(dir, F, t[i - 1])]

\* There is such a t: the recursion in Visited is well founded.
LEMMA TurnsExist ==
    ASSUME NEW dir, NEW F, NEW N \in Nat
    PROVE  \E t : Turns(dir, F, N, t)
<1> DEFINE Bad == {k \in Nat : ~ \E t : Turns(dir, F, k, t)}
<1> SUFFICES ASSUME Bad # {} PROVE FALSE
  OBVIOUS
<1>1. PICK k \in Bad : \A j \in Bad : k <= j
  <2>1. Bad \in SUBSET Nat
    OBVIOUS
  <2> HIDE DEF Bad
  <2> QED BY <2>1, LeastNatural
<1>2. CASE k = 0
  <2>1. Turns(dir, F, 0, [i \in 0 .. 0 |-> {}])
    BY DEF Turns
  <2> QED BY <1>1, <1>2, <2>1
<1>3. CASE k # 0
  <2>1. k \in Nat /\ k - 1 \in Nat /\ k - 1 \notin Bad
    BY <1>1, <1>3
  <2>2. PICK u : Turns(dir, F, k - 1, u)
    BY <2>1
  <2> DEFINE t == [i \in 0 .. k |-> IF i = 0 THEN {} ELSE Ready(dir, F, u[i - 1])]
  <2>3. \A i \in 0 .. (k - 1) : u[i] = IF i = 0 THEN {} ELSE Ready(dir, F, u[i - 1])
    BY <2>2 DEF Turns
  <2>4. \A i \in 0 .. (k - 1) : t[i] = u[i]
    BY <2>1, <2>3
  <2>5. \A i \in 0 .. k : i # 0 => i - 1 \in 0 .. (k - 1)
    BY <2>1
  <2>6. t = [i \in 0 .. k |-> IF i = 0 THEN {} ELSE Ready(dir, F, t[i - 1])]
    BY <2>4, <2>5
  <2> QED BY <1>1, <2>6 DEF Turns
<1> QED BY <1>2, <1>3

\* t holds the turns of has_cycle.
TurnsOf(dir, F, t) ==
    /\ Visited(dir, F) = t[Cardinality(F)] /\ t[0] = {}
    /\ \A i \in 1 .. Cardinality(F) : t[i] = Ready(dir, F, t[i - 1])

\* What the queue has given out when it is empty is the last of the turns.
LEMMA VisitedIsLastTurn ==
    ASSUME NEW dir, NEW F, IsFiniteSet(F)
    PROVE  \E t : TurnsOf(dir, F, t)
<1>1. Cardinality(F) \in Nat
  BY FS_CardinalityType
<1>2. Visited(dir, F) = (CHOOSE t : Turns(dir, F, Cardinality(F), t))[Cardinality(F)]
  BY DEF Visited, Turns, Ready
<1>3. PICK t : Turns(dir, F, Cardinality(F), t) /\ Visited(dir, F) = t[Cardinality(F)]
  BY <1>1, <1>2, TurnsExist
<1>4. \A i \in 0 .. Cardinality(F) : t[i] = IF i = 0 THEN {} ELSE Ready(dir, F, t[i - 1])
  BY <1>3 DEF Turns
<1>5. t[0] = {} /\ \A i \in 1 .. Cardinality(F) : t[i] = Ready(dir, F, t[i - 1])
  BY <1>1, <1>4
<1> QED BY <1>3, <1>5 DEF TurnsOf

\* The names of finitely many files.
LEMMA NamedFinite ==
    ASSUME NEW dir, NEW F, IsFiniteSet(F)
    PROVE  /\ IsFiniteSet(Named(dir, F)) /\ Cardinality(Named(dir, F)) <= Cardinality(F)
           /\ Cardinality(Named(dir, F)) \in Nat /\ Cardinality(F) \in Nat
           /\ Cardinality(Named(dir, F)) = Cardinality(F) =>
                \A f, g \in F : dir[f].name = dir[g].name => f = g
<1> DEFINE nm == [f \in F |-> dir[f].name]
<1>1. nm \in Surjection(F, Named(dir, F))
  <2>1. nm \in [F -> Named(dir, F)] /\ \A n \in Named(dir, F) : \E f \in F : nm[f] = n
    BY DEF Named
  <2> HIDE DEF nm
  <2> QED BY <2>1, Fun_IsSurj
<1>2. nm \in Injection(F, Named(dir, F)) => \A f, g \in F : dir[f].name = dir[g].name => f = g
  BY DEF Injection, IsInjective
<1>3. /\ IsFiniteSet(Named(dir, F)) /\ Cardinality(Named(dir, F)) <= Cardinality(F)
      /\ Cardinality(Named(dir, F)) = Cardinality(F) <=> nm \in Injection(F, Named(dir, F))
  <2> HIDE DEF nm
  <2> QED BY <1>1, FS_Surjection
<1> QED BY <1>2, <1>3, FS_CardinalityType

\* No set of services waits inside itself.
NoneWaitInside(dir, F) ==
    \A S \in SUBSET F : S # {} => \E f \in S : KnownDeps(dir, F, f) \cap Named(dir, S) = {}

(* If every name was given out, the first of a set to be given out waits   *)
(* for none of the set.                                                    *)
LEMMA NoCycleIsRight ==
    ASSUME NEW dir, NEW F, IsFiniteSet(F), ~has_cycle(dir, F)
    PROVE  Cardinality(Named(dir, F)) = Cardinality(F) /\ NoneWaitInside(dir, F)
<1> PICK t : TurnsOf(dir, F, t)
  BY VisitedIsLastTurn
<1>1. /\ Visited(dir, F) = t[Cardinality(F)] /\ t[0] = {}
      /\ \A i \in 1 .. Cardinality(F) : t[i] = Ready(dir, F, t[i - 1])
  BY DEF TurnsOf
<1>2. /\ IsFiniteSet(Named(dir, F)) /\ Cardinality(Named(dir, F)) <= Cardinality(F)
      /\ Cardinality(Named(dir, F)) \in Nat /\ Cardinality(F) \in Nat
  BY NamedFinite
<1>3. Visited(dir, F) \in SUBSET Named(dir, F)
  BY <1>1, <1>2 DEF Ready
<1>4. Visited(dir, F) = Named(dir, F) /\ Cardinality(Named(dir, F)) = Cardinality(F)
  <2>1. Cardinality(Visited(dir, F)) = Cardinality(F)
    BY DEF has_cycle
  <2>2. /\ Cardinality(Visited(dir, F)) <= Cardinality(Named(dir, F))
        /\ Cardinality(Visited(dir, F)) = Cardinality(Named(dir, F)) => Visited(dir, F) = Named(dir, F)
    BY <1>2, <1>3, FS_Subset
  <2> QED BY <1>2, <2>1, <2>2
<1>5. ASSUME NEW S \in SUBSET F, S # {}
      PROVE \E f \in S : KnownDeps(dir, F, f) \cap Named(dir, S) = {}
  <2> DEFINE Hit == {i \in 0 .. Cardinality(F) : t[i] \cap Named(dir, S) # {}}
  <2>1. Cardinality(F) \in Hit
    <3>1. Named(dir, S) \subseteq Named(dir, F) /\ Named(dir, S) # {}
      BY <1>5 DEF Named
    <3>2. t[Cardinality(F)] = Named(dir, F) /\ Cardinality(F) \in 0 .. Cardinality(F)
      BY <1>1, <1>2, <1>4
    <3> QED BY <3>1, <3>2
  <2>2. PICK i \in Hit : \A j \in Hit : i <= j
    <3>1. Hit \in SUBSET Nat /\ Hit # {}
      BY <1>2, <2>1
    <3> HIDE DEF Hit
    <3> QED BY <3>1, LeastNatural
  <2>3. i \in 1 .. Cardinality(F) /\ i - 1 \in 0 .. Cardinality(F) /\ i - 1 \notin Hit
    BY <1>1, <1>2, <2>2
  <2>4. PICK f \in S : dir[f].name \in t[i]
    BY <2>2 DEF Named
  <2>5. KnownDeps(dir, F, f) \subseteq t[i - 1]
    BY <1>1, <2>3, <2>4 DEF Ready
  <2> QED BY <2>3, <2>4, <2>5
<1> QED BY <1>4, <1>5 DEF NoneWaitInside

(* If no set waits inside itself, every turn gives out a further name      *)
(* until all are out, and there are turns enough.                          *)
LEMMA CycleIsRight ==
    ASSUME NEW dir, NEW F, IsFiniteSet(F),
           Cardinality(Named(dir, F)) = Cardinality(F), NoneWaitInside(dir, F)
    PROVE  ~has_cycle(dir, F)
<1> DEFINE N == Cardinality(F)
           All == Named(dir, F)
<1> PICK t : TurnsOf(dir, F, t)
  BY VisitedIsLastTurn
<1>1. /\ Visited(dir, F) = t[N] /\ t[0] = {}
      /\ \A i \in 1 .. N : t[i] = Ready(dir, F, t[i - 1])
  BY DEF TurnsOf
<1>2. /\ IsFiniteSet(All) /\ N \in Nat /\ Cardinality(All) = N
      /\ \A f, g \in F : dir[f].name = dir[g].name => f = g
  BY NamedFinite
<1>3. \A i \in 0 .. N : t[i] \in SUBSET All
  BY <1>1, <1>2 DEF Ready
<1>4. \A i \in 1 .. N : t[i - 1] \subseteq t[i]
  <2> DEFINE Bad == {i \in 1 .. N : ~ (t[i - 1] \subseteq t[i])}
  <2> SUFFICES ASSUME Bad # {} PROVE FALSE
    OBVIOUS
  <2>1. PICK i \in Bad : \A j \in Bad : i <= j
    <3>1. Bad \in SUBSET Nat
      BY <1>2
    <3> HIDE DEF Bad
    <3> QED BY <3>1, LeastNatural
  <2>2. CASE i = 1
    BY <1>1, <2>1, <2>2
  <2>3. CASE i # 1
    <3>1. i \in 1 .. N /\ i - 1 \in 1 .. N /\ i - 1 \notin Bad
      BY <1>2, <2>1, <2>3
    <3>2. t[(i - 1) - 1] \subseteq t[i - 1]
      BY <3>1
    <3>3. t[i] = Ready(dir, F, t[i - 1]) /\ t[i - 1] = Ready(dir, F, t[(i - 1) - 1])
      BY <1>1, <3>1
    <3>4. Ready(dir, F, t[(i - 1) - 1]) \subseteq Ready(dir, F, t[i - 1])
      BY <3>2 DEF Ready
    <3> QED BY <2>1, <3>3, <3>4
  <2> QED BY <2>2, <2>3
<1>5. ASSUME NEW i \in 1 .. N, t[i - 1] # All PROVE t[i] # t[i - 1]
  <2> DEFINE S == {f \in F : dir[f].name \notin t[i - 1]}
  <2>1. S # {} /\ S \in SUBSET F
    <3>1. i - 1 \in 0 .. N
      BY <1>2
    <3>2. t[i - 1] \subseteq All
      BY <1>3, <3>1
    <3> QED BY <1>5, <3>2 DEF Named
  <2>2. PICK f \in S : KnownDeps(dir, F, f) \cap Named(dir, S) = {}
    BY <2>1 DEF NoneWaitInside
  <2>3. KnownDeps(dir, F, f) \subseteq t[i - 1]
    BY <2>2 DEF KnownDeps, Named
  <2>4. dir[f].name \in Ready(dir, F, t[i - 1])
    BY <1>2, <2>2, <2>3 DEF Ready, Named
  <2> QED BY <1>1, <2>2, <2>4
<1>6. \A i \in 0 .. N : t[i] = All \/ Cardinality(t[i]) >= i
  <2> DEFINE Bad == {i \in 0 .. N : ~ (t[i] = All \/ Cardinality(t[i]) >= i)}
  <2> SUFFICES ASSUME Bad # {} PROVE FALSE
    OBVIOUS
  <2>1. PICK i \in Bad : \A j \in Bad : i <= j
    <3>1. Bad \in SUBSET Nat
      BY <1>2
    <3> HIDE DEF Bad
    <3> QED BY <3>1, LeastNatural
  <2>2. i # 0
    <3>1. Cardinality({}) = 0
      BY FS_EmptySet
    <3> QED BY <1>1, <2>1, <3>1
  <2>3. i \in 1 .. N /\ i - 1 \in 0 .. N /\ i - 1 \notin Bad
    BY <1>2, <2>1, <2>2
  <2>4. t[i - 1] \subseteq t[i] /\ t[i] \in SUBSET All /\ t[i] # All
    BY <1>3, <1>4, <2>1, <2>3
  <2>5. t[i - 1] # All /\ Cardinality(t[i - 1]) >= i - 1 /\ t[i] # t[i - 1]
    BY <1>3, <1>5, <2>3, <2>4
  <2>6. IsFiniteSet(t[i]) /\ t[i - 1] \in SUBSET t[i]
    BY <1>2, <2>4, FS_Subset
  <2>7. /\ IsFiniteSet(t[i - 1]) /\ Cardinality(t[i - 1]) <= Cardinality(t[i])
        /\ Cardinality(t[i - 1]) # Cardinality(t[i])
    BY <2>5, <2>6, FS_Subset
  <2>8. Cardinality(t[i]) \in Nat /\ Cardinality(t[i - 1]) \in Nat
    BY <2>6, <2>7, FS_CardinalityType
  <2>9. Cardinality(t[i]) >= i
    BY <2>3, <2>5, <2>7, <2>8
  <2> QED BY <2>1, <2>9
<1>7. t[N] = All
  <2>1. N \in 0 .. N /\ t[N] \in SUBSET All
    BY <1>2, <1>3
  <2>2. /\ Cardinality(t[N]) <= Cardinality(All) /\ IsFiniteSet(t[N])
        /\ Cardinality(t[N]) = Cardinality(All) => t[N] = All
    BY <1>2, <2>1, FS_Subset
  <2>3. Cardinality(t[N]) \in Nat
    BY <2>2, FS_CardinalityType
  <2> QED BY <1>2, <1>6, <2>1, <2>2, <2>3
<1> QED BY <1>1, <1>2, <1>7 DEF has_cycle

-----------------------------------------------------------------------------
(* What flint-ctl check says of a directory and what flint-init does with  *)
(* it. The entries that a load makes of the directory as it is:            *)
DiskEntries ==
    [f \in Files |-> IF disk[f] = NONE THEN NONE ELSE [def |-> parse_toml(disk[f].text)]]

\* For a directory of definitions ServiceGraph::build and has_cycle agree.
LEMMA BuildMeansNoCycle ==
    ASSUME \A f \in Files : DiskEntries[f] = NONE <=> disk[f] = NONE
    PROVE  Buildable(DiskEntries) <=> ~has_cycle(Contents, Present(disk))
<1> DEFINE F == Present(disk)
<1>1. /\ \A f \in F : f \in Files /\ Contents[f] = disk[f].text
      /\ \A f \in F : DiskEntries[f].def = parse_toml(disk[f].text)
      /\ F = {f \in Files : DiskEntries[f] # NONE}
  BY DEF Contents, Present, DiskEntries
<1>2. IsFiniteSet(F)
  <2>1. F \in SUBSET Files
    BY <1>1
  <2> QED BY <2>1, FilesFinite, FS_Subset
<1>3. \A f \in F : /\ DiskEntries[f].def.name = Contents[f].name
                   /\ DiskEntries[f].def.needs = Contents[f].needs
                   /\ DiskEntries[f].def.after = Contents[f].after
  <2> SUFFICES ASSUME NEW f \in F
               PROVE /\ DiskEntries[f].def.name = Contents[f].name
                     /\ DiskEntries[f].def.needs = Contents[f].needs
                     /\ DiskEntries[f].def.after = Contents[f].after
    OBVIOUS
  <2>1. DiskEntries[f].def = parse_toml(Contents[f])
    BY <1>1
  <2> HIDE DEF F
  <2> QED BY <2>1 DEF parse_toml
<1> HIDE DEF F
<1>4. ASSUME NEW S \in SUBSET F
      PROVE /\ {DiskEntries[f].def.name : f \in S} = Named(Contents, S)
            /\ \A f \in S : (DiskEntries[f].def.needs \cup DiskEntries[f].def.after) \cap Named(Contents, S)
                             = KnownDeps(Contents, F, f) \cap Named(Contents, S)
  <2>1. {DiskEntries[f].def.name : f \in S} = Named(Contents, S)
    BY <1>3 DEF Named
  <2>2. Named(Contents, S) \subseteq Named(Contents, F)
    BY DEF Named
  <2> QED BY <1>3, <2>1, <2>2 DEF KnownDeps
<1>5. Buildable(DiskEntries) <=>
         Cardinality(Named(Contents, F)) = Cardinality(F) /\ NoneWaitInside(Contents, F)
  <2> DEFINE Free(S) == \E f \in S : (DiskEntries[f].def.needs \cup DiskEntries[f].def.after)
                                        \cap {DiskEntries[g].def.name : g \in S} = {}
  <2>1. Buildable(DiskEntries) <=>
          /\ Cardinality({DiskEntries[f].def.name : f \in F}) = Cardinality(F)
          /\ \A S \in SUBSET F : S # {} => Free(S)
    BY <1>1 DEF Buildable
  <2>2. \A S \in SUBSET F : Free(S) <=> \E f \in S : KnownDeps(Contents, F, f) \cap Named(Contents, S) = {}
    BY <1>4
  <2>3. {DiskEntries[f].def.name : f \in F} = Named(Contents, F)
    BY <1>4
  <2> HIDE DEF Free
  <2>4. (\A S \in SUBSET F : S # {} => Free(S)) <=> NoneWaitInside(Contents, F)
    BY <2>2, Zenon DEF NoneWaitInside
  <2> QED BY <2>1, <2>3, <2>4
<1>6. Buildable(DiskEntries) <=> ~has_cycle(Contents, F)
  BY <1>2, <1>5, NoCycleIsRight, CycleIsRight
<1> QED BY <1>6 DEF F

\* Nor is NONE taken for a file that holds a definition.
LEMMA EntriesOfFiles ==
    ASSUME TypeInv, \A f \in Present(disk) : Readable(f)
    PROVE  \A f \in Files : DiskEntries[f] = NONE <=> disk[f] = NONE
<1> SUFFICES ASSUME NEW f \in Files, disk[f] # NONE PROVE DiskEntries[f] # NONE
  BY DEF DiskEntries
<1>1. parse_toml(disk[f].text) \in Defs
  BY ReadType DEF Present
<1>2. [def |-> parse_toml(disk[f].text)] \in [def : Defs]
  BY <1>1
<1> QED BY <1>2, NoneAssumption DEF DiskEntries

(* flint-ctl check cries wolf about no directory of definitions: when it   *)
(* reports a cycle, no dependency graph can be built, for any files, names *)
(* and dependencies, with names repeated or not.                           *)
THEOREM CycleAlarmIsAlwaysTrue == Spec => []CycleAlarmIsTrue
<1>1. TypeInv => CycleAlarmIsTrue
  <2> SUFFICES ASSUME TypeInv, \A f \in Present(disk) : Readable(f),
                      has_cycle(Contents, Present(disk))
               PROVE  ~Buildable(DiskEntries)
    BY DEF CycleAlarmIsTrue, DiskEntries
  <2> QED BY EntriesOfFiles, BuildMeansNoCycle
<1> QED BY <1>1, CacheInvariance, PTL

-----------------------------------------------------------------------------
(* What check says comes true at the boot. While flint-init loads, nothing *)
(* else touches the directory: the files whose turn has come are caught,   *)
(* and what it fails over is in the directory.                             *)
Bad(f) == disk[f] # NONE /\ ~disk[f].text.parses

BootCaught ==
    stage = "boot" /\ Suspect = {} => \A f \in Files \ todo : Caught(work, f)

FailedOver ==
    /\ stage = "unloadable" /\ Suspect = {} => \E f \in Files : Bad(f)
    /\ stage = "unbuildable" /\ Suspect = {} /\ (\A f \in Files : ~Bad(f)) => ~Buildable(DiskEntries)

PredictInv == BootCaught /\ FailedOver

\* Elsewhere nothing is claimed.
LEMMA NotBooting ==
    ASSUME stage' \notin {"boot", "unloadable", "unbuildable"}
    PROVE  PredictInv'
BY DEF PredictInv, BootCaught, FailedOver

\* Nothing is claimed of a directory but what is in it.
LEMMA SamePrediction ==
    ASSUME PredictInv, UNCHANGED <<disk, history, raced, stage, todo, work>>
    PROVE  PredictInv'
<1>1. Suspect' = Suspect /\ DiskEntries' = DiskEntries
  BY DEF Suspect, Collided, DiskEntries
<1>2. BootCaught'
  BY <1>1 DEF PredictInv, BootCaught, Caught, Readable, Version
<1>3. Buildable(DiskEntries)' = Buildable(DiskEntries) /\ \A f : Bad(f)' = Bad(f)
  BY <1>1 DEF Bad
<1>4. FailedOver'
  BY <1>1, <1>3 DEF PredictInv, FailedOver
<1> QED BY <1>2, <1>4 DEF PredictInv

\* The end of the load: the graph is built of what is in the directory.
LEMMA FinishLoadPredicts ==
    ASSUME TypeInv, PredictInv, FinishLoad
    PROVE  PredictInv'
<1>1. UNCHANGED <<disk, history, raced>> /\ todo = {}
  BY DEF FinishLoad
<1>2. Suspect' = Suspect /\ DiskEntries' = DiskEntries /\ \A f : Bad(f)' = Bad(f)
  BY <1>1 DEF Suspect, Collided, DiskEntries, Bad
<1>3. stage' # "boot" /\ stage' # "unloadable"
  BY DEF FinishLoad
<1>4. ASSUME stage' = "unbuildable", Suspect = {}, \A f \in Files : ~Bad(f)
      PROVE ~Buildable(DiskEntries)
  <2>1. stage = "boot" /\ ~Buildable(work)
    BY <1>4 DEF FinishLoad
  <2>2. \A f \in Files : Caught(work, f)
    BY <1>1, <1>4, <2>1 DEF PredictInv, BootCaught
  <2>3. \A f \in Present(disk) : Readable(f)
    BY <1>4 DEF Bad, Readable, Present
  <2>4. \A f \in Files : DiskEntries[f] = NONE <=> disk[f] = NONE
    BY <2>3, EntriesOfFiles
  <2>5. ASSUME NEW f \in Files, disk[f] # NONE
        PROVE work[f] # NONE /\ work[f].def = DiskEntries[f].def
    <3>1. work[f] = Version(f) /\ Readable(f)
      BY <2>2, <2>3, <2>5 DEF Caught, Present
    <3>2. Version(f) \in [mtime : mtimes, def : Defs]
      BY <2>5, <3>1, ReadType DEF Version
    <3>3. Version(f) # NONE
      BY <3>2, NoneAssumption
    <3> QED BY <2>5, <3>1, <3>3 DEF Version, DiskEntries
  <2>6. \A f \in Files : disk[f] = NONE => work[f] = NONE
    BY <2>2 DEF Caught
  <2> DEFINE F == {f \in Files : disk[f] # NONE}
  <2>7. {f \in Files : work[f] # NONE} = F /\ {f \in Files : DiskEntries[f] # NONE} = F
    BY <2>4, <2>5, <2>6
  <2>8. \A f \in F : work[f].def = DiskEntries[f].def
    BY <2>5
  <2> HIDE DEF F
  <2>9. \A S \in SUBSET F : {work[f].def.name : f \in S} = {DiskEntries[f].def.name : f \in S}
    BY <2>8
  <2>10. Buildable(work) <=> Buildable(DiskEntries)
    BY <2>7, <2>8, <2>9 DEF Buildable
  <2> QED BY <2>1, <2>10
<1>5. Buildable(DiskEntries)' = Buildable(DiskEntries)
  BY <1>2
<1> QED BY <1>2, <1>3, <1>4, <1>5 DEF PredictInv, BootCaught, FailedOver

\* The listing: a file that is not there has no entry, the others come up.
LEMMA BootLoadPredicts ==
    ASSUME BootLoad
    PROVE  PredictInv'
<1>1. /\ work' = [f \in Files |-> IF disk[f] = NONE THEN NONE ELSE ReadEntries[f]]
      /\ todo' = {f \in Files : disk[f] # NONE} /\ stage' = "boot" /\ disk' = disk
  BY DEF BootLoad, Scan, Present
<1>2. \A f \in Files \ todo' : disk'[f] = NONE /\ work'[f] = NONE
  BY <1>1
<1> QED BY <1>1, <1>2 DEF PredictInv, BootCaught, FailedOver, Caught, Readable

\* One turn of the loop at boot.
LEMMA UpsertPredicts ==
    ASSUME TypeInv, CacheInv, PredictInv, NEW f \in Files, Upsert(f)
    PROVE  PredictInv'
<1>1. /\ f \in todo /\ todo' = todo \ {f}
      /\ UNCHANGED <<disk, stage, history, raced>> /\ stage \in {"boot", "start"}
      /\ \A g \in Files \ {f} : work'[g] = work[g]
      /\ f \notin Suspect => disk[f] # NONE /\ (Readable(f) => work'[f] = Version(f))
  BY UpsertEntry
<1>2. Suspect' = Suspect /\ \A g : Readable(g)' = Readable(g) /\ Version(g)' = Version(g)
  BY <1>1 DEF Suspect, Collided, Readable, Version
<1>3. BootCaught'
  <2> SUFFICES ASSUME stage = "boot", Suspect = {}, NEW g \in Files, g \notin todo'
               PROVE  Caught(work, g)'
    BY <1>1, <1>2 DEF BootCaught
  <2>1. CASE g = f
    BY <1>1, <1>2, <2>1 DEF Caught
  <2>2. CASE g # f
    BY <1>1, <1>2, <2>2 DEF PredictInv, BootCaught, Caught
  <2> QED BY <2>1, <2>2
<1> QED BY <1>1, <1>3 DEF PredictInv, FailedOver

\* A load at boot that a file stops: the file is there and does not parse.
LEMMA LoadFailsPredicts ==
    ASSUME TypeInv, CacheInv, NEW f \in Files, LoadFails(f)
    PROVE  PredictInv'
<1>1. /\ f \in todo /\ ~Readable(f) /\ UNCHANGED <<disk, history, raced>>
      /\ stage' \in {"unloadable", "up"}
  BY DEF LoadFails
<1>2. Suspect' = Suspect /\ Bad(f)' = Bad(f)
  BY <1>1 DEF Suspect, Collided, Bad
<1>3. Suspect = {} => Bad(f)
  BY <1>1 DEF CacheInv, LookHolds, Suspect, Readable, Bad
<1> QED BY <1>1, <1>2, <1>3 DEF PredictInv, BootCaught, FailedOver

\* Every step keeps the invariant.
LEMMA StepPredict == CacheInv /\ TypeInv /\ PredictInv /\ [Next]_vars => PredictInv'
<1> SUFFICES ASSUME CacheInv, TypeInv, PredictInv, [Next]_vars PROVE PredictInv'
  OBVIOUS
<1>1. CASE BootLoad
  BY <1>1, BootLoadPredicts
<1>2. CASE WatchLoad \/ WatchAdd \/ DeleteEvent \/ ParseEvent \/ StatEvent \/ WatchDies \/ PowerOff
  BY <1>2, NotBooting DEF WatchLoad, Scan, WatchAdd, DeleteEvent, ParseEvent, StatEvent, WatchDies, PowerOff
<1>3. CASE FinishLoad
  BY <1>3, FinishLoadPredicts
<1>4. CASE LoadError
  BY <1>4, NotBooting DEF LoadError
<1>5. ASSUME NEW f \in Files, LoadFails(f) PROVE PredictInv'
  BY <1>5, LoadFailsPredicts
<1>6. ASSUME NEW f \in Files, Upsert(f) PROVE PredictInv'
  BY <1>6, UpsertPredicts
<1>7. ASSUME NEW f \in Files, BeginWrite(f) \/ Delete(f) \/ RenameAway(f) PROVE PredictInv'
  BY <1>7, NotBooting DEF BeginWrite, Delete, RenameAway, Put, CanEdit
<1>8. ASSUME NEW t \in Texts, EndWrite(t) \/ \E f \in Files : MoveIn(f, t) PROVE PredictInv'
  BY <1>8, NotBooting DEF EndWrite, MoveIn, Put, CanEdit
<1>9. CASE ManifestLost
  BY <1>9, NotBooting DEF ManifestLost, CanEdit
<1>10. CASE Tick \/ UNCHANGED vars
  BY <1>10, SamePrediction DEF Tick, vars, loader
<1> QED BY <1>1, <1>2, <1>3, <1>4, <1>5, <1>6, <1>7, <1>8, <1>9, <1>10 DEF Next

(* flint-ctl check is an honest preflight: where flint-init fails to load  *)
(* the services or to build the graph of them, check, asked of the same    *)
(* directory, says no, for any files and texts, with or without a manifest *)
(* and whatever became of it, unless a file is suspect.                    *)
THEOREM CheckPredictsTheBoot == Spec => []CheckPredictsBoot
<1>1. Init => PredictInv
  BY DEF Init, PredictInv, BootCaught, FailedOver
<1>2. TypeInv /\ PredictInv => CheckPredictsBoot
  <2> SUFFICES ASSUME TypeInv, PredictInv, stage \in {"unloadable", "unbuildable"},
                      Suspect = {}, run_check(Contents)
               PROVE  FALSE
    BY DEF CheckPredictsBoot
  <2>1. ASSUME NEW f \in Files, disk[f] # NONE
        PROVE Contents[f] = disk[f].text /\ Contents[f] # NONE
    <3>1. disk[f].text \in Texts \cup {Torn} /\ Contents[f] = disk[f].text
      BY <2>1, ReadType DEF Versions, Contents
    <3> QED BY <3>1, NoneAssumption
  <2>2. Present(Contents) = Present(disk)
    BY <2>1 DEF Present, Contents
  <2>3. Checked(Contents) = Present(disk) /\ ~has_cycle(Contents, Checked(Contents))
    <3>1. Checked(Contents) \subseteq Present(Contents)
      BY DEF Checked
    <3>2. Present(Contents) \ Checked(Contents) = {}
      BY DEF run_check, Errors
    <3>3. ~has_cycle(Contents, Checked(Contents))
      BY DEF run_check, Errors
    <3> QED BY <2>2, <3>1, <3>2, <3>3
  <2>4. \A f \in Present(disk) : Readable(f)
    BY <2>1, <2>2, <2>3 DEF Checked, Readable, Present
  <2>5. \A f \in Files : ~Bad(f)
    BY <2>4 DEF Bad, Readable, Present
  <2>6. Buildable(DiskEntries)
    BY <2>3, <2>4, EntriesOfFiles, BuildMeansNoCycle
  <2> QED BY <2>5, <2>6 DEF PredictInv, FailedOver
<1> QED BY <1>1, <1>2, StepPredict, CacheInvariance, PTL DEF Spec
=============================================================================
