# flint-init in TLA+

flint-init is a small init system: it reads service files, starts the services
in dependency order, waits for readiness files, restarts what crashes, obeys a
control socket and stops everything in reverse order. This directory holds TLA+
models of its supervisor, of the services directory with its cache and of PID 1
from exec to reboot(2), the TLC configurations that check them on small
instances, and TLAPS proofs that hold for every instance. Paths are relative to
the root of the repository's checkout (`src/`).

## The system

| Part | State | Operations | Interacts with |
|---|---|---|---|
| Dependency graph, `src/src/graph.rs` | edges, `in_degree`, hard edges | `build` (cycle test), `initially_ready`, `mark_ready`, `shutdown_order` | called by the executor |
| Executor, `src/src/executor.rs` | service states, `pid_to_name`, `ready_reported`, `blocked_services`, restart counts, `completed`, start queue, parked replies, loaded definitions | one loop: commands, readiness, launch, wait, poll; or the shutdown branch | kernel, both channels, shared status map |
| Control server, `src/src/ctl_server.rs`, `ctl_proto.rs` | one thread per connection | `status`, `stop` (read the shared pid, then kill), `start`/`restart`/`reload` (send a command, wait for the reply) | command channel, status map, kernel |
| Readiness watchers, `src/src/ready.rs` | one thread per readiness path | look, register inotify, look again, wait; send the name once | readiness channel |
| Entry point, `src/src/main.rs` | `SHUTDOWN`, `REBOOT` flags | signal handlers, stale-file removal, start of the threads, then `run` and the PID 1 end | everything |
| Configuration, `src/src/config.rs` | `session_user` | `apply_to`: `%U` expansion, once at boot | definitions given to graph and executor |
| Manifest cache, `src/src/cache.rs`, and flint-watch, `src/src/bin/flint_watch.rs` | `services.bin`, mtimes in seconds, inotify queue | load at boot and at flint-watch's start, update on events | service files, whoever edits them |
| Configuration check, `src/src/check.rs` | none | `has_cycle`, `run_preflight`, `run_check` | reads the same files as the boot |
| PID 1 duties, `src/src/pid1.rs`, `fstab.rs` | mount table | set-up, tmpfiles, fstab, unmount, reboot(2), zombie loop | before and after the executor |
| Tools: flint-ctl, catalog, scaffold, installer | none shared | command-line work | control socket, files |

What is hard here: children exit, watchers fire, clients ask and signals arrive
between any two steps of the executor's loop; pids are reused; a respawn can
fail half way; a reply can wait for an exit that never comes; the counters that
decide what starts next and when the machine halts are updated from five places.
What makes the parts correct: nothing starts before its dependencies have news,
and nothing starts whose hard dependency failed; the counters agree with the
states; the loop ends exactly when everything is over; no child and no reply is
lost; shutdown is ordered and always ends. Around the executor: the manifest is
never trusted when it is wrong, though files change between any two looks at
them, events are dropped and power is cut; `flint-ctl check` says of a directory
what the boot will do with it; a readiness file counts only if the service made
it in this boot, and is not missed; a reboot is not turned into a halt by a
signal handler that stopped half way; nothing stays mounted. `PROJECT.json`
lists the hazards line by line with the properties that cover them.

## Modules

* `ServiceGraph` - the graph after `build` accepted it: dependencies (edges to
  unknown names skipped), hard dependents, `initially_ready`, the two effects of
  `mark_ready`, and the leaves of `shutdown_order`. Names no file defines are
  the `Strangers`; `needs_dependents` keeps entries for them as the code does.
  The assumption `Acyclic` is what `build` guarantees; `GraphBuild` checks that.
* `GraphBuild` - `build`'s cycle test and `shutdown_order` turn by turn, started
  on every list of files over a few names (duplicates and unknown names too).
  `shutdown_order`'s draining branch has no action: `AlwaysALeaf` shows it is
  never reached.
* `Executor` - the supervisor. `pc` is the phase of the loop. Every action is a
  whole handler: a command with its spawn, its bookkeeping and its reply; a
  readiness message with `mark_ready` and the queue; a popped name; a polled
  child up to its respawn or its final bookkeeping; a step of the shutdown. The
  kernel is `proc` (free, alive, or a zombie with its status) and `sent` (the
  strongest signal). `svc_state` and `shared_pid` are `service_states` and the
  status map, which `sync_state` keeps equal. Channels and the start queue are
  sets: their members come from independent senders or have no order the
  properties tell apart, and no name is queued twice. A service file is its
  policy, whether it parses and whether its user exists; everything
  `spawn_service` refuses is one case, and `fork` may fail whenever it is
  called. `spawned`, `marks`, `verdict` and `lost` are history variables; `lost`
  holds the services whose respawn failed while their readiness message was to
  come. The ECHILD arm of the poll has no action: the theorem
  `ChildrenAreTracked` shows it is dead code.
* `BootOrder` - the abstract specification of a boot without operator: a service
  waits for news of all its dependencies, is then started or, if a hard one's
  news was bad, skipped, and reports its own news once.
* `Preflight` - `flint-ctl check` as operators on a directory: the definitions it
  goes on with, its own cycle test, the errors and the answer. A service text is
  whether it parses, whether `validate` accepts it, and the names in it.
* `ConfigCache` - the services directory. `disk` holds each file's text and mtime
  in seconds; `manifest` is `services.bin`. `Scan`, `Upsert`, `FinishLoad`,
  `LoadFails` and `LoadError` are `load_services_cached`, one action per turn of
  its loop, run by flint-init (`BootLoad`) and flint-watch (`WatchLoad`); without
  a manifest the code's `build_manifest` is the same loop over no entries.
  `WatchAdd`, `DeleteEvent`, `ParseEvent`, `StatEvent` and `WatchDies` are
  flint-watch, with the read of the text and of the mtime as two steps. Editors
  write in place (truncate, later close), packages move files in with any older
  mtime, files are deleted or renamed away, the manifest is lost, the power
  goes. `durable` is the manifest that is on stable storage: `write_manifest`
  renames without fsync, so after `PowerOff` the manifest may be the last one,
  an older one or none. `history`, `raced` and `noticed` are history variables.
* `ReadyWatch` - a readiness file, its directory and the watcher thread: look,
  register, look again, wait for an event, send. An inotify watch is on one
  directory inode (`dirgen`), so a directory made anew is not watched.
* `MountTable` - which fstab lines are mounted, which mounts `unmount_all` takes
  down and in which order, and what `umount2` with `MNT_DETACH` does to stacked
  mounts. `Shown` is how `/proc/mounts` spells a path, with octal escapes for
  blanks and backslashes; `unmount_all` takes that spelling for the path, and
  `parse_fstab` takes the field of a line for the path, escapes and all. `At(s,
  I)` is the list that a filter leaves: the elements of `s` at the positions
  `I`, in order.
* `SystemInit` - `main` and `pid1.rs`, composed of the last two: set-up, signal
  handlers (the stores of `handle_reboot` one by one, on any thread), preparation
  of the watchers, the executor's run, the way down. The executor is here only
  what may return; `Executor` and `SystemInit` meet in two places.
  `NoFalseReady` is the guard of `Executor!WatcherSignals`, and
  `Executor!ShutdownCompletes` is the fairness `SystemInit` assumes of
  `ExecutorReturns`.
* `MCExecutor`, `MCGraphBuild`, `MCConfigCache`, `MCSystemInit` - constants of the
  instances and symmetry sets.
* `ExecutorProofs`, `ReplyProofs` (extends it), `BootProofs`, `StatusProofs`,
  `ShutdownProofs` (each extends the one before), `GraphBuildProofs`,
  `ConfigCacheProofs`, `SystemInitProofs` - the TLAPS proofs.

Operators named `Mut...` are the plausible bugs used to confirm that each
property can fail; no specification uses them.

## Runs

| Run | Instance | Shows |
|---|---|---|
| `boot` | 4 services, 2 with readiness files, 4 pids, no clients, one restart each, shutdown at any time | order, counters, status, clean end, shutdown order, refinement of `BootOrder` |
| `live` | 3 services, `SpecExecutor` | a shutdown request ends the executor; under `FairBoot` no service of a boot waits for ever |
| `ctl` | 1 loaded and 1 unknown name, 2 clients with all requests and refusals, 3 pids, 2 file edits | children tracked, replies owned and final, a parked restart has a process to wait for, no unsignalled survivor |
| `ctl_reply` | 1 service, 2 clients with restart and stop, `SpecCtl` | every request is answered |
| `graph_build` | 3 files, 3 names: all 13824 inputs | cycle test and shutdown order against their definitions |
| `services_dir` | 2 files, 5 texts (a service, two that depend on each other, one `validate` refuses, one that does not parse), 3 edits, 2 clock values, a queue of 2 | trusted entries are true, flint-watch catches up, check foretells the boot, its cycle alarm is true |
| `init` | 1 service with a readiness file, a 7-line fstab out of order and with a blank in a path, a tmpfs and a disk mounted over it, both as PID 1 and not | no false readiness, none missed, reboot honoured, nothing left mounted, the way down ends |
| `find_early_exit`, `find_marked_twice`, `find_needs_failed`, `find_stuck_dependent`, `find_bad_edit` | the smallest instances that show it | the disagreements below |

Bounds. Four services give a chain, a join and a hard and a soft edge into the
same service; with one restart each the budget is met, spent and exceeded
(`MAX_RESTARTS` is 5 in the code; it is only compared). As many pids as services
let every service run at once; in the `ctl` run three pids for up to four spawns
make pids be reused. `fork` may fail in every state of every run. Two clients
are enough to overwrite a parked reply, to start what is being launched, and to
act on a stale pid. Failed respawns occur in `ctl`, but its second service is one
that a client has to bring in, so with two connections none is left to restart
what a failed respawn has left Ready without a process: the exception of
`ParkedHasProcess` is not needed there. With two services loaded at boot it is;
the theorem covers both. Each client is a connection, which makes one request.
Symmetry is used for pids and clients in safety runs only.

In `services_dir` three edits make a file, change it and delete it or its
neighbour, also while the load or flint-watch is between two looks; with two
clock values versions differ, coincide and go back in time; two queued events
let the queue overflow. Two files are enough for a cycle, a duplicate name and
a broken dependency. In `init` watchers do not share state, so one service shows
every interleaving of its own; the fstab mounts `/home/data` before `/home`, which
covers it, has a line whose path is escaped, and skips a comment, the root, a
`noauto` and a virtual line;
`MAX_DIRS` lets the directory be replaced once after the watch is on it. Writes to
service files during the fraction of a second in which flint-init itself loads
are left out (nothing but flint-init runs then); during flint-watch's load they
are in.

Fairness. `FairExecutor` is weak fairness of the executor's thread: it never
blocks without a deadline (50 ms wait, WNOHANG polls, 5 s, 1 s and 2 s limits in
the shutdown). `ShutdownCompletes` needs nothing else, so it holds even if no
child ever reacts. `FairBoot` says that daemons write their readiness file and
other children exit; without it a boot can wait for a service that does neither,
in the code as in the model. `FairTerm` says that a child that was signalled
exits: a restart has no deadline of its own. `FairClients` lets a stop request
reach its `kill`. `BootProgress` has `FairBoot` as its hypothesis, and so has
`FailurePropagates`, which `find_stuck_dependent` refutes. In `SystemInit` the
main thread, a signal handler that has been entered and each watcher thread are
scheduled, and the executor returns once `SHUTDOWN` is set; no service has to do
anything.

Most properties of `boot` hold without control requests only, and say so; the
findings show what requests do to three of them.

## Disagreements found

1. `find_early_exit`: `completed` counts exits, not services. A service started
   again by a client is counted again, so the executor can end, write the
   ready marker and (as PID 1) halt while another service runs.
2. `find_marked_twice`: the blocked branch ignores `ready_reported`; a service
   started by hand and later popped as blocked is marked ready twice.
3. `find_needs_failed`: a dependency that became ready and then failed for good
   does not bar dependents that are still waiting for something else.
4. `find_stuck_dependent`: when the respawn of a restart or reload fails, the
   dependents are neither blocked nor released.
5. `find_bad_edit`: flint-watch keeps the old entry of a file that stopped
   parsing "so boot still has a valid definition", but the file's mtime differs
   from the entry's, so the next boot parses the file, gets the error and fails
   as a whole. (It boots only if the broken version carries the old second.)

Seen in the model and not kept as runs: a service started by hand while pending
gets a second process from the launch loop, and the first exit then hides the
other from `status`; a readiness message still in flight when a respawn fails
turns the dead service Ready, after which a restart of it is never answered;
reload installs the definition without the `%U` expansion made at boot; two
files with one service name are reported as a dependency cycle
(`AcceptsExactlyAcyclic` states the exception). Two versions of a file within
one second, or a change between a reader's two looks, leave a wrong entry that
later boots trust; the properties name both as exceptions. A change between
flint-watch's load and its watch, a file renamed away, and events lost to a full
queue (the overflow notice has no name and is skipped) leave the manifest stale
until the next boot repairs it. `load_services_cached` never calls `validate`,
so a readiness path that check refuses is used by the boot. A directory without
services is fine for check, and makes `main` return, which ends PID 1. A
directory replaced under a watcher blinds it. A
virtual filesystem mounted over a real one makes `unmount_all` detach the upper
one and leave the lower. The kernel escapes blanks, tabs, newlines and
backslashes of a mount point in `/proc/mounts`, and `unmount_all` gives the field
to umount2 undecoded: the call fails, is logged, and the filesystem is still
mounted at the call of reboot(2), although the repository's README (line 110)
has all real filesystems unmounted first. An fstab line for a path with a blank
says `\040`, which is not decoded either: it mounts its filesystem on a directory
of that literal name, where it stays. `NothingLeftMounted` excepts these mounts
and says that they keep no other from being unmounted.

## Proofs

Every invariant and every action property that a passing run checks is also a
theorem, for every value of the constants; so is the refinement. Most are not
inductive as they stand; the strengthening is named with each.

### The executor, with any number of clients

`ExecutorProofs` proves, from the assumptions on the constants alone (finite
sets, well-formed graph, files that were loaded parse, `NONE` is nothing else):

* `TypeCorrect`: `Spec => []TypeOK`;
* `ChildrenAreTracked`: `Spec => []ChildrenTracked`.

The inductive invariant is `IndInv == TypeOK /\ ChildrenTracked`. Neither part is
inductive alone: a polled pid must have a name for the state functions to stay
well-typed, which is what `ChildrenTracked` says, and that in turn needs the new
pid of a spawn to be one the kernel had free. The step lemma has one case per
action; `SpawnType`, `SpawnTracked`, `MarkReadyType`, `AnswerType`, `ParkType` and
`HandlerEffect` say once what the helpers of the actions do.

`ReplyProofs` proves:

* `RepliesAreOwned`: `Spec => []ReplyOwned`;
* `RepliesAreFinal`: `Spec => ReplyFinal`;
* `ParkedRepliesHaveAProcess`: `Spec => []ParkedHasProcess`.

`ReplyOwned` counts reply senders; what is inductive is where they are
(`ReplyInv`): senders in the channel and under a service belong to waiting
clients, no client has two, and each waiting one has one. Every action is, for
the replies, nothing, a request, an answer, a parking, a wake-up or the drop of
everything (`ReplyStepKinds`), and these six keep `ReplyInv`. For parked replies
`ParkInv` needs more: whatever is reported up, has run without news or is marked
for a respawn has a process. A respawn may fail at any time, for want of memory,
of a pid or of the account. If the readiness message of the service has been
read by then, the service stays Failed and a restart of it spawns at once; if
not, the message turns the dead service Ready, and the next restart is parked
for an exit that cannot come. Those services are `lost`, and `ParkInv` shows that
they are the only ones. No assumption on accounts or memory is made.

`ShutdownProofs` proves `NoneSurvives`: `Spec => []NoSurvivor`. `KillInv`:
until the stragglers, a live process that is no longer tracked has been sent
SIGKILL; from then on a live process is on the list, is being waited for, or has
been sent SIGKILL.

### The executor without control requests

Under the further hypothesis `Clients = {}` (the findings show that requests
break these properties) `BootProofs` proves:

* `StartsInOrder`: `Spec => []StartedInOrder`;
* `InDegreeIsExact`: `Spec => []InDegreeExact`;
* `ReleasedOnce`: `Spec => []MarkedOnce`;
* `LoopImplementsBootOrder`: `Spec => ImplementsBootOrder`, the refinement of
  `BootOrder` (its safety; it states no fairness).

The inductive invariant `BootInv` ties the loop's five records of progress
together: a queued name has counter zero and a clean history (`QueuedFresh`);
what ran or was released has counter zero (`PastDependencies`), so `mark_ready`
can never queue it again; `blocked_services` is exactly the set of services
with a failed hard dependency (`BlockedExact`); `ready_reported` holds exactly the
services that ran and were released (`ReportedExact`), so `insert` returning true
means "first news"; and news only comes from services that ran
(`NewsFromSpawned`). The proof first shows that every action is, for the boot
order, nothing, a release, a skip or a start (`StepKinds`), then that these four
keep the invariant and are steps of `BootOrder` or stutters. The one arithmetic
fact is `MarkKeepsExact`: removing one released dependency from a finite set of
open ones takes exactly one unit from the counter.

`StatusProofs` proves:

* `StatusIsLive`: `Spec => []StatusLive`;
* `CompletedIsExact`: `Spec => []CompletedExact`;
* `FailuresAreFinal`: `Spec => FailedIsFinal`;
* `MarkerMeansClean`: `Spec => []CleanExit`.

`StatusInv` adds to `BootInv` that a name has at most one process, that a service
without news still has its own, that the reported state follows from the
history, and that nothing that could start is missing from the queue. The last
is what the end of the loop needs: if services were forgotten, one of them waits
for none of the others (`SomeServiceIsFirst`, from `Acyclic` and `MinimalSubset`:
a non-empty family of subsets of a finite set has a minimal member), so its
counter is zero and it is in the queue, which is empty.

`ShutdownProofs` proves `StopsInOrder`: `Spec => []StopOrder`. `OrderInv`: no
member of the present layer has a dependent among the services not yet stopped,
and what is tracked is among those.

### The graph

`GraphBuildProofs` proves, for every finite list of files, with names repeated
or unknown:

* `DegreesAreExact`: `Spec => []DegreesExact`;
* `BuildAcceptsExactlyAcyclic`: `Spec => []AcceptsExactlyAcyclic`;
* `ThereIsAlwaysALeaf`: `Spec => []AlwaysALeaf`;
* `ShutdownOrderIsSound`: `Spec => []OrderSound`.

`KahnInv` says of each turn that a counter is the number of edges from names not
yet popped, that the queue holds the names whose counter is zero, and that no
set that waits inside itself has lost a member. At the end the names not popped
are such a set, or there are none. `OrderInv` is the same for `shutdown_order`:
counts are of the remaining dependents, and the order so far has each name once
and after its dependents. `BuildAcceptsExactlyAcyclic` is what `ServiceGraph`
assumes as `Acyclic`, so the executor's theorems rest on no assumption about the
files that `build` does not enforce.

### The services directory

`ConfigCacheProofs` proves, for any files, texts, clock, edits and queue size:

* `EntriesCanBeTrusted`: `Spec => []TrustedEntriesAreTrue`;
* `CacheTypeCorrect`: `Spec => []TypeOK`;
* `WatchHasCaughtUp`: `Spec => []WatchCatchesUp`;
* `CycleAlarmIsAlwaysTrue`: `Spec => []CycleAlarmIsTrue`;
* `CheckPredictsTheBoot`: `Spec => []CheckPredictsBoot`.

The assumptions are that bounds are naturals (`BoundsAssumption`) and that `NONE`
is no file, text, version or manifest (`NoneAssumption`).

The first property speaks of entries whose mtime is the file's; what is
inductive is that every entry, in the manifest and in the copy being edited, was
once a version of its file (`Good`, against the history of versions), unless the
file is among the raced ones. For that the present version must be on record
(`OnRecord`), and what a reader took at its first look, the scanned mtime or the
parsed definition, must still fit the disk, unless a change meanwhile has made
the file a raced one (`LookHolds`). Then an entry with the file's mtime is a
version of the same second, and absent a collision it is the present one.
`WritingOK` and `Shapes` say when the copies exist at all. No step depends on
which events were delivered, so lost events need no case of their own.

For `WatchCatchesUp` they do: `CatchInv` says of each file of which no change was
missed that the manifest has it right, or that the file's last queued event
says of which kind its last change was. It has four parts, for the load, for the
time between load and watch, for the event loop, and for the half-dealt-with
event.

`CycleAlarmIsTrue` relates two cycle tests, `has_cycle` of check (turns of a
queue, a recursive function) and what `build` accepts (no set that waits inside
itself). The proof reads the turns off the recursive definition (`TurnsExist`,
`VisitedIsLastTurn`); then in one direction the first of a set to be given out
waits for none of the set, and in the other every turn gives out a further name
while any is left (`NoCycleIsRight`, `CycleIsRight`). Induction over the turns
is written as the choice of a least counterexample (`LeastNatural`), a statement
about sets, where the prover's induction rules would need an operator.
`CheckPredictsBoot` adds `PredictInv`: while flint-init loads, the entries of
the files whose turn has come are those of the disk, so it is the disk's own
graph that cannot be built.

Two definitions changed their form for the proofs: the `CASE` in `FinishLoad` had
overlapping arms, whose value the semantics leaves open (TLC takes the first),
and is now an `IF`; and `HasCycle` of `GraphBuild` got the parentheses that make
SANY and tlapm read it alike.

### PID 1

`SystemInitProofs` proves, for any readiness files, fstab, mounts and `ON_EXIT`:

* `NeverFalselyReady`: `Spec => []NoFalseReady`. `ReadyInv`: a watcher thread
  exists only for a service whose file main has removed; from then on a file is
  present, or an event pending, only if the service created it in this boot.
* `RebootIsHonoured`: `Spec => []RebootHonoured`. `RebootInv` follows the two
  flags through the phases: without SIGTERM, `SHUTDOWN` implies `REBOOT`,
  because of the order of the stores; so `Supervise` after an obeyed shutdown
  takes the reboot branch, and only a refused reboot(2) leads to the halting
  one.
* `InitTypeCorrect`: `Spec => []TypeOK`. `DirsBounded` ties the number of a
  directory to where setup is and whether the directory is there.
* `NothingIsLeftMounted`: `Spec => []NothingLeftMounted`. Two mounts may have the
  same path, so `UnmountInv` follows positions: there is an increasing map from
  the present table into the list that was read (`Embeds`) and a decreasing one
  from the turns of the loop onto its real mounts (`LastFirst`), and a mount that
  is still there is virtual, has an escaped path, is covered by a virtual one, or
  has its turn to come.
  When the turn of a mount comes and it is not the one umount2 finds, something
  covers it: if that is virtual we are done, and if it is not, its own turn is
  past and a virtual one covers both (`HiddenIsShielded`); it cannot have stayed
  for its escapes, since its path is that of the mount or lies above it, and has
  no character to escape either (`CoverIsPlain`). The assumptions used are that
  "lies below" is a strict order on paths, and that a path above one shown as it
  is, is shown as it is. `AtPicks` says what a filtered
  list is: its positions map in order onto the ones kept, by counting.

### Only model-checked

The liveness properties: `BootProgress`, `ShutdownCompletes`, `ReplyEventually`,
`ReadySeen`, `PowerDownCompletes`. Fairness and `ENABLED` are out of the
prover's reach.

## Not modelled

Orphans that PID 1 adopts while the executor runs: they are its children too,
but the loop polls only the pids it has spawned (`executor.rs:476-480`), so they
stay zombies until the machine goes down, and no property here is about them.
The removal of a readiness file just before a launch (`executor.rs:442-446`):
`main` has removed it already, and only the service makes it again.

Logging, JSON and socket set-up; what the forked child does before `exec`; time
(deadlines are nondeterministic steps, and the busy loop after all watchers have
ended is invisible); `SIGHUP`, which can only make a child exit; blank service
files in reload; the ready marker's file system. Of `check.rs` the migration audit
and the warnings, which do not decide the answer (its test whether the directory
of a readiness path is writable is never reached, `validate` admits ephemeral
paths only). Of `fstab.rs` the device path and the mount flags, which only
mount(2) sees. Of `pid1.rs` the redirection of stderr and the `/dev` links. A
readiness file that `remove_file` cannot remove (its result is dropped) is taken
not to exist. Mounts made by processes that survive the shutdown are left out.
flint-ctl's commands other than the requests, the catalog, the scaffolding and
the installer have no state in common with the supervisor: they write service
files, which `ConfigCache` has as edits.

## Plan

1. Done: `ServiceGraph`, `Executor`, `GraphBuild`, `BootOrder`, `Preflight`,
   `ConfigCache`, `ReadyWatch`, `MountTable`, `SystemInit`; theorems for every
   invariant and action property of the passing runs, and for the refinement.
2. Next: what remains true of the boot order with control requests (which of the
   `Clients = {}` theorems survive `stop` alone), and safety facts on which the
   liveness properties rest, such as ranking bounds for the shutdown branch.
3. The downloads of `flint-ctl get` into the services directory, with a failure
   half way, as further edits of `ConfigCache`.
