-------------------------- MODULE SystemInitProofs --------------------------
(***************************************************************************)
(* Proofs about SystemInit, for every set of watched services, fstab,      *)
(* later mounts and value of FLINT_ON_EXIT.                                *)
(***************************************************************************)
EXTENDS SystemInit, FiniteSetTheorems, FunctionTheorems, SequenceTheorems, TLAPS

(* What keeps a stale file from being believed: it is only there while the *)
(* service has no watcher; and an event only comes from the service.       *)
ReadyInv ==
    /\ file \in [Watched -> {"absent", "stale", "fresh"}]
    /\ watch \in [Watched -> {"none", "look", "register", "again", "wait", "sent", "failed"}]
    /\ \A s \in Watched : file[s] = "stale" => watch[s] = "none"
    /\ \A s \in Watched : file[s] = "fresh" => s \in created
    /\ pending \subseteq created
    /\ sent \subseteq created

(* What keeps a reboot from becoming a halt: SHUTDOWN without a SIGTERM    *)
(* means that REBOOT was stored before, and the way to RB_HALT_SYSTEM past *)
(* the test of REBOOT leads through a failed call.                         *)
RebootInv ==
    /\ SHUTDOWN \in BOOLEAN /\ REBOOT \in BOOLEAN /\ term \in BOOLEAN
    /\ obeyed \in BOOLEAN /\ refused \in BOOLEAN
    /\ usr1 \in {"stored", "done"} => REBOOT
    /\ SHUTDOWN => term \/ usr1 = "done"
    /\ obeyed => term \/ REBOOT
    /\ stage \in {"match", "halted"} => (obeyed => term \/ refused)
    /\ stage \in {"unmount", "call"} /\ how # "reboot" => (obeyed => term \/ refused)

-----------------------------------------------------------------------------
\* The watcher's own steps keep ReadyInv.
LEMMA WatcherKeepsReady ==
    ASSUME ReadyInv, NEW s \in Watched, Watcher(s)
    PROVE  ReadyInv'
<1>1. CASE Look(s, "look", "register")
  BY <1>1 DEF Look, SendName, placeVars, ReadyInv
<1>2. CASE Look(s, "again", "wait")
  BY <1>2 DEF Look, SendName, placeVars, ReadyInv
<1>3. CASE Register(s)
  BY <1>3 DEF Register, placeVars, ReadyInv
<1>4. CASE RegisterFails(s)
  BY <1>4 DEF RegisterFails, placeVars, ReadyInv
<1>5. CASE Event(s)
  BY <1>5 DEF Event, SendName, placeVars, ReadyInv
<1> QED BY <1>1, <1>2, <1>3, <1>4, <1>5 DEF Watcher

\* Whatever a service does with its file and directory keeps ReadyInv.
LEMMA ServiceFileKeepsReady ==
    ASSUME ReadyInv, NEW s, ServiceFile(s)
    PROVE  ReadyInv'
<1>1. CASE CreateFile(s)
  BY <1>1 DEF CreateFile, ReadyInv
<1>2. CASE RemoveFile(s)
  BY <1>2 DEF RemoveFile, ReadyInv
<1>3. CASE RemoveDir(s)
  BY <1>3 DEF RemoveDir, ReadyInv
<1>4. CASE MakeDir(s)
  BY <1>4 DEF MakeDir, ReadyInv
<1> QED BY <1>1, <1>2, <1>3, <1>4 DEF ServiceFile

\* A step that touches no readiness file and no watcher keeps ReadyInv.
LEMMA UnchangedKeepsReady ==
    ASSUME ReadyInv, UNCHANGED readyVars
    PROVE  ReadyInv'
BY DEF ReadyInv, readyVars, placeVars

\* Stale files without watchers satisfy ReadyInv.
LEMMA InitReady == Init => ReadyInv
BY DEF Init, ReadyInit, ReadyInv

\* Every step keeps ReadyInv.
LEMMA StepReady == ReadyInv /\ [Next]_vars => ReadyInv'
<1> SUFFICES ASSUME ReadyInv, [Next]_vars PROVE ReadyInv'
  OBVIOUS
<1>1. CASE MountEssential
  <2>1. ASSUME NEW hidden \in SUBSET Watched, NEW made \in SUBSET Watched,
               RunHidden(hidden), apply_tmpfiles(dirs \ hidden, made)
        PROVE  ReadyInv'
    BY <2>1 DEF RunHidden, apply_tmpfiles, ReadyInv
  <2> QED BY <1>1, <2>1, UnchangedKeepsReady DEF MountEssential
<1>2. ASSUME NEW s \in Watched, PrepareService(s) PROVE ReadyInv'
  BY <1>2 DEF PrepareService, Prepare, ReadyInv
<1>3. CASE ExecutorReturns \/ ExecutorFails
  BY <1>3 DEF ExecutorReturns, ExecutorFails, placeVars, ReadyInv
<1>4. CASE Services
  <2>1. ASSUME NEW s \in running, ServiceFile(s) PROVE ReadyInv'
    BY <2>1, ServiceFileKeepsReady
  <2> QED BY <1>4, <2>1, UnchangedKeepsReady DEF Services, StartService, ServiceMount
<1>5. CASE Watchers
  BY <1>5, WatcherKeepsReady DEF Watchers
<1>6. CASE UNCHANGED readyVars
  BY <1>6, UnchangedKeepsReady
<1>7. CASE UNCHANGED vars
  BY <1>7, UnchangedKeepsReady DEF vars
<1>8. CASE Setup
  BY <1>1, <1>6, <1>8 DEF Setup, EssentialFails, EndEssential, MountEntry, EndSetup
<1>9. CASE Main
  BY <1>2, <1>6, <1>9 DEF Main, InstallHandlers, LoadServices, PrepareFails, RunExecutor
<1>10. CASE Down
  BY <1>6, <1>10 DEF Down, Supervise, MatchOnExit, UmountNext, EndUnmount, RebootCall, RebootCallFails
<1>11. CASE EarlySignal \/ SigTerm \/ SigUsr1 \/ HandleReboot
  BY <1>6, <1>11 DEF EarlySignal, SigTerm, SigUsr1, HandleReboot
<1> QED BY <1>3, <1>4, <1>5, <1>7, <1>8, <1>9, <1>10, <1>11 DEF Next

(* No service is reported ready on the strength of a file that an earlier  *)
(* boot left: whatever the initial directory holds, whether or not /run is *)
(* mounted anew, a name is sent only after the service of this boot has    *)
(* created its file.                                                       *)
THEOREM NeverFalselyReady == Spec => []NoFalseReady
<1>1. ReadyInv => NoFalseReady
  BY DEF ReadyInv, NoFalseReady
<1> QED BY <1>1, InitReady, StepReady, PTL DEF Spec

-----------------------------------------------------------------------------
\* With both flags clear RebootInv holds.
LEMMA InitReboot == Init => RebootInv
BY DEF Init, RebootInv

\* A step to a stage that says nothing of the way down.
LEMMA ElsewhereKeepsReboot ==
    ASSUME RebootInv, UNCHANGED <<flags, downVars>>,
           stage' \notin {"match", "halted", "unmount", "call"}
    PROVE  RebootInv'
BY DEF RebootInv, flags, downVars

\* A step that stays where it is.
LEMMA StayKeepsReboot ==
    ASSUME RebootInv, UNCHANGED <<flags, downVars, stage>>
    PROVE  RebootInv'
BY DEF RebootInv, flags, downVars

\* Every step keeps RebootInv.
LEMMA StepReboot == RebootInv /\ [Next]_vars => RebootInv'
<1> SUFFICES ASSUME RebootInv, [Next]_vars PROVE RebootInv'
  OBVIOUS
<1>1. CASE Setup
  BY <1>1, ElsewhereKeepsReboot, StayKeepsReboot
     DEF Setup, MountEssential, EssentialFails, EndEssential, MountEntry, EndSetup
<1>2. CASE Main
  BY <1>2, ElsewhereKeepsReboot, StayKeepsReboot
     DEF Main, InstallHandlers, LoadServices, PrepareService, PrepareFails, RunExecutor
<1>3. CASE Services
  BY <1>3, StayKeepsReboot DEF Services, StartService, ServiceMount, mainVars
<1>4. CASE ExecutorReturns
  <2>1. SHUTDOWN => term \/ REBOOT
    BY DEF RebootInv
  <2> QED BY <1>4, <2>1 DEF ExecutorReturns, RebootInv, flags
<1>5. CASE ExecutorFails
  BY <1>5, ElsewhereKeepsReboot DEF ExecutorFails
<1>6. CASE Down
  <2>1. CASE Supervise
    BY <2>1 DEF Supervise, Unmount, RebootInv, flags
  <2>2. CASE MatchOnExit
    BY <2>2 DEF MatchOnExit, Unmount, RebootInv, flags
  <2>3. CASE UmountNext
    BY <2>3, StayKeepsReboot DEF UmountNext
  <2>4. CASE EndUnmount
    BY <2>4 DEF EndUnmount, RebootInv, flags, downVars
  <2>5. CASE RebootCall
    BY <2>5 DEF RebootCall, RebootInv, flags, downVars
  <2>6. CASE RebootCallFails
    BY <2>6 DEF RebootCallFails, RebootInv, flags
  <2> QED BY <1>6, <2>1, <2>2, <2>3, <2>4, <2>5, <2>6 DEF Down
<1>7. CASE EarlySignal
  BY <1>7, ElsewhereKeepsReboot DEF EarlySignal
<1>8. CASE SigTerm
  BY <1>8 DEF SigTerm, RebootInv, mainVars, downVars
<1>9. CASE SigUsr1
  BY <1>9 DEF SigUsr1, RebootInv, mainVars, downVars
<1>10. CASE HandleReboot
  <2>1. UNCHANGED <<stage, term, obeyed, how, refused>>
    BY <1>10 DEF HandleReboot, mainVars, downVars
  <2>2. CASE usr1 = "entered" /\ REBOOT' = TRUE /\ usr1' = "stored" /\ SHUTDOWN' = SHUTDOWN
    <3>1. SHUTDOWN => term
      BY <2>2 DEF RebootInv
    <3> QED BY <2>1, <2>2, <3>1 DEF RebootInv
  <2>3. CASE usr1 = "stored" /\ SHUTDOWN' = TRUE /\ usr1' = "done" /\ REBOOT' = REBOOT
    <3>1. REBOOT
      BY <2>3 DEF RebootInv
    <3> QED BY <2>1, <2>3, <3>1 DEF RebootInv
  <2> QED BY <1>10, <2>2, <2>3 DEF HandleReboot
<1>11. CASE Watchers
  BY <1>11, StayKeepsReboot DEF Watchers, mainVars
<1>12. CASE UNCHANGED vars
  BY <1>12, StayKeepsReboot DEF vars, mainVars
<1> QED BY <1>1, <1>2, <1>3, <1>4, <1>5, <1>6, <1>7, <1>8, <1>9, <1>10, <1>11, <1>12 DEF Next

(* A machine asked to reboot is not halted: if the executor stopped        *)
(* because it saw SHUTDOWN and no SIGTERM or SIGINT was delivered, main    *)
(* sees REBOOT, wherever the handler was interrupted; RB_HALT_SYSTEM is    *)
(* then reached only after a call of reboot(2) has failed.                 *)
THEOREM RebootIsHonoured == Spec => []RebootHonoured
<1>1. RebootInv => RebootHonoured
  BY DEF RebootInv, RebootHonoured
<1> QED BY <1>1, InitReboot, StepReboot, PTL DEF Spec

-----------------------------------------------------------------------------
(* What a filtered list is: there is an increasing map of its positions    *)
(* onto the positions that were kept.                                      *)
Picks(g, n, I) ==
    /\ g \in [1 .. n -> I]
    /\ \A i, j \in 1 .. n : i < j => g[i] < g[j]
    /\ \A x \in I : \E k \in 1 .. n : g[k] = x

\* At returns the elements at the given positions, each once and in order.
LEMMA AtPicks ==
    ASSUME NEW s, NEW n \in Nat, NEW I \in SUBSET (1 .. n)
    PROVE  /\ Cardinality(I) \in Nat /\ Cardinality(I) <= n
           /\ \E g : /\ Picks(g, Cardinality(I), I)
                     /\ At(s, I) = [k \in 1 .. Cardinality(I) |-> s[g[k]]]
<1> DEFINE N == Cardinality(I)
           UpTo(i) == {j \in I : j <= i}
           rank == [i \in I |-> Cardinality(UpTo(i))]
           g == [k \in 1 .. N |-> CHOOSE i \in I : Cardinality(UpTo(i)) = k]
<1>1. IsFiniteSet(I) /\ N \in Nat /\ N <= n
  <2>1. IsFiniteSet(1 .. n) /\ Cardinality(1 .. n) = n
    BY FS_Interval
  <2> QED BY <2>1, FS_Subset, FS_CardinalityType
<1>2. \A i \in I : i \in Int /\ i \in UpTo(i) /\ UpTo(i) \in SUBSET I
  OBVIOUS
<1>3. \A x, y \in I : x < y \/ y < x \/ x = y
  OBVIOUS
<1>4. \A i \in I : IsFiniteSet(UpTo(i)) /\ Cardinality(UpTo(i)) \in Nat /\ Cardinality(UpTo(i)) <= N
  BY <1>1, <1>2, FS_Subset, FS_CardinalityType
<1>5. \A i \in I : Cardinality(UpTo(i)) \in 1 .. N
  BY <1>2, <1>4, FS_EmptySet
<1>6. \A i, j \in I : i < j => Cardinality(UpTo(i)) < Cardinality(UpTo(j))
  <2> SUFFICES ASSUME NEW i \in I, NEW j \in I, i < j PROVE Cardinality(UpTo(i)) < Cardinality(UpTo(j))
    OBVIOUS
  <2>1. i \in Int /\ j \in Int /\ \A x \in I : x \in Int
    BY <1>2
  <2>2. \A x \in I : x <= i => x <= j
    BY <2>1
  <2>3. (\A x \in UpTo(i) : x \in UpTo(j)) /\ j \in UpTo(j) /\ j \notin UpTo(i)
    BY <2>1, <2>2
  <2> HIDE DEF UpTo
  <2>4. Cardinality(UpTo(i)) <= Cardinality(UpTo(j)) /\ Cardinality(UpTo(j)) # Cardinality(UpTo(i))
    BY <1>4, <2>3, FS_Subset
  <2> QED BY <1>4, <2>4
<1> HIDE DEF N, UpTo
<1>7. rank \in Injection(I, 1 .. N)
  <2>1. rank \in [I -> 1 .. N]
    BY <1>5
  <2>2. ASSUME NEW i \in I, NEW j \in I, rank[i] = rank[j] PROVE i = j
    <3>1. Cardinality(UpTo(i)) = Cardinality(UpTo(j))
      BY <2>2
    <3>2. ~(i < j) /\ ~(j < i)
      BY <1>4, <1>6, <3>1
    <3> QED BY <1>2, <3>2
  <2> HIDE DEF rank
  <2> QED BY <2>1, <2>2 DEF Injection, IsInjective
<1>8. rank \in Surjection(I, 1 .. N)
  <2>1. IsFiniteSet(1 .. N) /\ Cardinality(1 .. N) = N
    BY <1>1, FS_Interval
  <2> HIDE DEF rank
  <2> QED BY <1>7, <2>1, FS_Injection DEF N
<1>9. \A k \in 1 .. N : \E i \in I : Cardinality(UpTo(i)) = k
  <2>1. \A k \in 1 .. N : \E i \in I : rank[i] = k
    <3> HIDE DEF rank
    <3> QED BY <1>8, Fun_SurjectionProperties DEF Surjection
  <2> QED BY <2>1
<1>10. \A k \in 1 .. N : g[k] \in I /\ Cardinality(UpTo(g[k])) = k
  BY <1>9
<1>11. g \in [1 .. N -> I]
  BY <1>10
<1>12. At(s, I) = [k \in 1 .. N |-> s[g[k]]]
  BY DEF At, N, UpTo
<1> HIDE DEF g
<1>13. ASSUME NEW i \in 1 .. N, NEW j \in 1 .. N, i < j PROVE g[i] < g[j]
  <2>1. g[i] \in I /\ g[j] \in I /\ Cardinality(UpTo(g[i])) = i /\ Cardinality(UpTo(g[j])) = j
    BY <1>10
  <2>2. g[j] < g[i] => j < i
    BY <1>6, <2>1
  <2>3. ~(j < i) /\ i # j
    BY <1>1, <1>13
  <2>4. g[i] # g[j]
    BY <2>1, <2>3
  <2> QED BY <1>3, <2>1, <2>2, <2>3, <2>4
<1>14. ASSUME NEW x \in I PROVE \E k \in 1 .. N : g[k] = x
  <2> DEFINE k == Cardinality(UpTo(x))
  <2>1. k \in 1 .. N /\ g[k] \in I /\ Cardinality(UpTo(g[k])) = k
    BY <1>5, <1>10
  <2>2. ~(g[k] < x) /\ ~(x < g[k])
    <3>1. g[k] < x => Cardinality(UpTo(g[k])) < Cardinality(UpTo(x))
      BY <1>6, <2>1
    <3>2. x < g[k] => Cardinality(UpTo(x)) < Cardinality(UpTo(g[k]))
      BY <1>6, <2>1
    <3> QED BY <1>4, <2>1, <3>1, <3>2
  <2>3. g[k] = x
    BY <1>3, <2>1, <2>2
  <2> QED BY <2>1, <2>3
<1> QED BY <1>1, <1>11, <1>12, <1>13, <1>14 DEF Picks, N

\* So it is a sequence of elements of s.
LEMMA AtOfSeq ==
    ASSUME NEW T, NEW s \in Seq(T), NEW I \in SUBSET DOMAIN s
    PROVE  /\ At(s, I) \in Seq(T) /\ DOMAIN At(s, I) = 1 .. Len(At(s, I)) /\ Len(At(s, I)) \in Nat
           /\ \E g : Picks(g, Len(At(s, I)), I) /\ \A k \in 1 .. Len(At(s, I)) : At(s, I)[k] = s[g[k]]
<1> DEFINE n == Cardinality(I)
<1>1. DOMAIN s = 1 .. Len(s) /\ Len(s) \in Nat /\ \A i \in DOMAIN s : s[i] \in T
  OBVIOUS
<1>2. n \in Nat /\ \E g : Picks(g, n, I) /\ At(s, I) = [k \in 1 .. n |-> s[g[k]]]
  <2>1. I \in SUBSET (1 .. Len(s)) /\ Len(s) \in Nat
    BY <1>1
  <2> QED BY <2>1, AtPicks, Zenon
<1> HIDE DEF n
<1>3. PICK g : Picks(g, n, I) /\ At(s, I) = [k \in 1 .. n |-> s[g[k]]]
  BY <1>2
<1>4. \A k \in 1 .. n : g[k] \in DOMAIN s
  BY <1>3 DEF Picks
<1>5. At(s, I) \in [1 .. n -> T]
  BY <1>1, <1>3, <1>4
<1>6. At(s, I) \in Seq(T) /\ Len(At(s, I)) = n
  BY <1>2, <1>5
<1> QED BY <1>2, <1>3, <1>6

\* mount_all goes through lines that have a mount point other than the root.
LEMMA ToMountType ==
    /\ Len(ToMount(Fstab)) \in Nat
    /\ \A i \in 1 .. Len(ToMount(Fstab)) : ToMount(Fstab)[i].file \in Paths
<1> DEFINE lines == parse_fstab(Fstab)
           I == {i \in DOMAIN lines : should_mount(lines[i])}
<1>1. lines \in Seq(Line)
  BY FstabAssumption, AtOfSeq DEF parse_fstab
<1>2. ToMount(Fstab) = At(lines, I)
  BY DEF ToMount
<1> HIDE DEF lines
<1>3. I \in SUBSET DOMAIN lines
  OBVIOUS
<1>4. \A i \in I : i \in DOMAIN lines /\ should_mount(lines[i])
  OBVIOUS
<1> HIDE DEF I
<1>5. Len(At(lines, I)) \in Nat
  BY <1>1, <1>3, AtOfSeq
<1>6. PICK g : Picks(g, Len(At(lines, I)), I) /\ \A k \in 1 .. Len(At(lines, I)) : At(lines, I)[k] = lines[g[k]]
  BY <1>1, <1>3, AtOfSeq
<1>7. ASSUME NEW k \in 1 .. Len(At(lines, I)) PROVE At(lines, I)[k].file \in Paths
  <2>1. g[k] \in I /\ At(lines, I)[k] = lines[g[k]]
    BY <1>6 DEF Picks
  <2>2. lines[g[k]] \in Line /\ should_mount(lines[g[k]])
    BY <1>1, <1>4, <2>1
  <2>3. lines[g[k]].file \in Paths \cup {"/"} /\ lines[g[k]].file # "/"
    BY <2>2 DEF Line, should_mount
  <2> QED BY <2>1, <2>3
<1> QED BY <1>2, <1>5, <1>7

(* The paths of unmount_all: those of the mounts that are not virtual, as  *)
(* they are shown, in the reverse order of the list.                       *)
LastFirst(r, list, ps) ==
    /\ r \in [1 .. Len(ps) -> DOMAIN list]
    /\ \A i, j \in 1 .. Len(ps) : i < j => r[j] < r[i]
    /\ \A k \in 1 .. Len(ps) : ps[k] = Shown[list[r[k]].path]
    /\ \A x \in DOMAIN list : list[x].virtual \/ \E k \in 1 .. Len(ps) : r[k] = x

LEMMA PathsAreLastFirst ==
    ASSUME NEW list \in Seq(Mount)
    PROVE  /\ PathsToUnmount(list) \in Seq(Fields)
           /\ \E r : LastFirst(r, list, PathsToUnmount(list))
<1> DEFINE I == {i \in DOMAIN list : ~list[i].virtual}
           real == At(list, I)
           n == Len(real)
           ps == PathsToUnmount(list)
<1>1. I \in SUBSET DOMAIN list
  OBVIOUS
<1>2. RealMounts(list) = real /\ \A x \in DOMAIN list : ~list[x].virtual => x \in I
  BY DEF RealMounts
<1> HIDE DEF I
<1>3. real \in Seq(Mount) /\ DOMAIN real = 1 .. n /\ n \in Nat
  BY <1>1, AtOfSeq
<1>4. PICK g : Picks(g, n, I) /\ \A k \in 1 .. n : real[k] = list[g[k]]
  BY <1>1, AtOfSeq
<1>5. ps = Reverse([i \in 1 .. n |-> Shown[real[i].path]])
  BY <1>2, <1>3 DEF PathsToUnmount
<1> HIDE DEF real, n, ps
<1>6. ps = [i \in 1 .. n |-> Shown[real[(n - i) + 1].path]]
  <2> DEFINE q == [i \in 1 .. n |-> Shown[real[i].path]]
  <2>1. Len(q) = n /\ \A i \in 1 .. n : q[i] = Shown[real[i].path]
    BY <1>3
  <2>2. ps = Reverse(q)
    BY <1>5
  <2> HIDE DEF q
  <2>3. \A i \in 1 .. n : (n - i) + 1 \in 1 .. n
    BY <1>3
  <2>4. ps = [i \in 1 .. n |-> q[(n - i) + 1]]
    BY <2>1, <2>2 DEF Reverse
  <2> QED BY <2>1, <2>3, <2>4
<1>7. \A i \in 1 .. n : (n - i) + 1 \in 1 .. n
  BY <1>3
<1>8. \A i \in 1 .. n : Shown[real[i].path] \in Fields
  <2>1. \A i \in 1 .. n : real[i] \in Mount
    BY <1>3
  <2> QED BY <2>1 DEF Mount, Fields
<1>9. ps \in [1 .. n -> Fields]
  BY <1>6, <1>7, <1>8
<1>10. ps \in Seq(Fields) /\ Len(ps) = n
  BY <1>3, <1>9
<1> DEFINE r == [k \in 1 .. n |-> g[(n - k) + 1]]
<1>11. r \in [1 .. n -> DOMAIN list]
  BY <1>1, <1>4, <1>7 DEF Picks
<1>12. ASSUME NEW i \in 1 .. n, NEW j \in 1 .. n, i < j PROVE r[j] < r[i]
  <2>1. (n - j) + 1 < (n - i) + 1
    BY <1>3, <1>12
  <2> QED BY <1>4, <1>7, <2>1 DEF Picks
<1>13. \A k \in 1 .. n : ps[k] = Shown[list[r[k]].path]
  BY <1>4, <1>6, <1>7
<1>14. ASSUME NEW x \in DOMAIN list, ~list[x].virtual PROVE \E k \in 1 .. n : r[k] = x
  <2>1. PICK m \in 1 .. n : g[m] = x
    BY <1>2, <1>4, <1>14 DEF Picks
  <2>2. (n - m) + 1 \in 1 .. n /\ (n - ((n - m) + 1)) + 1 = m
    BY <1>3
  <2> QED BY <2>1, <2>2
<1> HIDE DEF r
<1>15. LastFirst(r, list, ps)
  BY <1>10, <1>11, <1>12, <1>13, <1>14 DEF LastFirst
<1> QED BY <1>10, <1>15 DEF ps

-----------------------------------------------------------------------------
(* Types. A directory is made once more for the tmpfs on /run, and again   *)
(* when it is missing; so its number is bounded only together with where   *)
(* setup is and whether the directory is there.                            *)
DirsBounded ==
    \A s \in Watched :
        /\ dirgen[s] <= 2 \/ dirgen[s] <= MAX_DIRS
        /\ s \notin dirs => dirgen[s] <= 1 \/ dirgen[s] < MAX_DIRS
        /\ stage = "essential" /\ step <= 3 => dirgen[s] <= 1

PlaceInv ==
    /\ ReadyTypeOK /\ DirsBounded
    /\ dirgen \in [Watched -> Nat] /\ reg \in [Watched -> Nat]
    /\ \A s \in Watched : reg[s] <= 2 \/ reg[s] <= MAX_DIRS

MainTypes ==
    /\ pid1 \in BOOLEAN /\ stage \in Stages
    /\ step \in Nat \ {0}
    /\ stage = "essential" => step <= Len(Essentials) + 1
    /\ stage = "fstab" => step <= Len(ToMount(Fstab)) + 1
    /\ stage = "unmount" => step <= Len(paths) + 1
    /\ mounts \in Seq(Mount) /\ listed \in Seq(Mount) /\ paths \in Seq(Fields)
    /\ left \subseteq Watched /\ running \subseteq Watched
    /\ running # {} => left = {}
    /\ stage = "services" => left = {}
    /\ how \in {"none", "reboot", "exit_reboot", "exit_halt"}

FlagTypes ==
    /\ SHUTDOWN \in BOOLEAN /\ REBOOT \in BOOLEAN /\ term \in BOOLEAN
    /\ obeyed \in BOOLEAN /\ refused \in BOOLEAN
    /\ usr1 \in {"none", "entered", "stored", "done"}

InitTypeInv == PlaceInv /\ MainTypes /\ FlagTypes

\* The mount on /run is the third.
LEMMA RunIsThird ==
    Len(Essentials) = 5 /\ \A i \in 1 .. 5 : Essentials[i] = "/run" => i = 3
BY DEF Essentials

\* What is left of a mount table is a mount table.
LEMMA UmountType ==
    ASSUME NEW table \in Seq(Mount), NEW path
    PROVE  umount2(table, path) \in Seq(Mount)
<1> DEFINE top == CHOOSE i \in DOMAIN table : table[i].path = path /\ Visible(table, i)
           I == {i \in DOMAIN table : i < top \/ (i > top /\ <<table[i].path, path>> \notin Below)}
<1>1. umount2(table, path) = IF ~IsMounted(table, path) THEN table ELSE At(table, I)
  BY DEF umount2
<1>2. I \in SUBSET DOMAIN table
  OBVIOUS
<1> HIDE DEF I
<1> QED BY <1>1, <1>2, AtOfSeq

\* Initially everything has its type.
LEMMA InitTypes == Init => InitTypeInv
<1> SUFFICES ASSUME Init PROVE InitTypeInv
  OBVIOUS
<1>1. PlaceInv
  BY WatchedAssumption DEF Init, ReadyInit, PlaceInv, ReadyTypeOK, DirsBounded
<1>2. MainTypes
  BY RunIsThird, EmptySeq DEF Init, MainTypes, Stages, Ended
<1>3. FlagTypes
  BY DEF Init, FlagTypes
<1> QED BY <1>1, <1>2, <1>3 DEF InitTypeInv

\* Files and watchers do not notice what main does elsewhere.
LEMMA SamePlace ==
    ASSUME PlaceInv, UNCHANGED readyVars,
           stage' = "essential" => stage = "essential" /\ step <= step' /\ {step, step'} \subseteq Nat
    PROVE  PlaceInv'
BY DEF PlaceInv, ReadyTypeOK, DirsBounded, readyVars, placeVars

\* A watcher's step: at most the number of the directory is taken over.
LEMMA WatcherPlace ==
    ASSUME PlaceInv, NEW s \in Watched, Watcher(s), UNCHANGED mainVars
    PROVE  PlaceInv'
<1>1. UNCHANGED <<file, dirs, dirgen, listening, created, stage, step>>
  BY DEF Watcher, Look, SendName, Register, RegisterFails, Event, placeVars, mainVars
<1>2. DirsBounded'
  BY <1>1 DEF PlaceInv, DirsBounded
<1>3. /\ watch' \in [Watched -> {"none", "look", "register", "again", "wait", "sent", "failed"}]
      /\ pending' \subseteq Watched /\ sent' \subseteq Watched
  BY DEF Watcher, Look, SendName, Register, RegisterFails, Event, PlaceInv, ReadyTypeOK
<1>4. reg' = reg \/ reg' = [reg EXCEPT ![s] = dirgen[s]]
  BY DEF Watcher, Look, Register, RegisterFails, Event
<1>5. \A x \in Watched : reg'[x] = reg[x] \/ reg'[x] = dirgen[x]
  BY <1>4 DEF PlaceInv
<1>6. reg' \in [Watched -> Nat] /\ reg' \in [Watched -> 0 .. (MAX_DIRS + 1)]
  BY <1>4 DEF PlaceInv, ReadyTypeOK
<1> QED BY <1>1, <1>2, <1>3, <1>5, <1>6 DEF PlaceInv, ReadyTypeOK, DirsBounded

\* A service's step on its own file and directory.
LEMMA ServicePlace ==
    ASSUME PlaceInv, NEW s \in Watched, ServiceFile(s), UNCHANGED mainVars, stage = "services"
    PROVE  PlaceInv'
<1>1. stage' = "services" /\ UNCHANGED <<watch, reg, listening, sent>>
  BY DEF ServiceFile, CreateFile, RemoveFile, RemoveDir, MakeDir, mainVars
<1>2. CASE CreateFile(s)
  BY <1>1, <1>2 DEF CreateFile, PlaceInv, ReadyTypeOK, DirsBounded
<1>3. CASE RemoveFile(s)
  BY <1>1, <1>3 DEF RemoveFile, PlaceInv, ReadyTypeOK, DirsBounded
<1>4. CASE RemoveDir(s)
  BY <1>1, <1>4, WatchedAssumption DEF RemoveDir, PlaceInv, ReadyTypeOK, DirsBounded
<1>5. CASE MakeDir(s)
  BY <1>1, <1>5, WatchedAssumption DEF MakeDir, PlaceInv, ReadyTypeOK, DirsBounded
<1> QED BY <1>2, <1>3, <1>4, <1>5 DEF ServiceFile

\* main prepares the file of a service.
LEMMA PreparePlace ==
    ASSUME PlaceInv, NEW s \in Watched, Prepare(s), stage' # "essential"
    PROVE  PlaceInv'
<1>1. /\ dirs' = dirs \cup {s} /\ UNCHANGED <<reg, pending, listening, sent, created>>
      /\ file' = [file EXCEPT ![s] = "absent"] /\ watch' = [watch EXCEPT ![s] = "look"]
      /\ dirgen' = [dirgen EXCEPT ![s] = IF s \in dirs THEN dirgen[s] ELSE dirgen[s] + 1]
  BY DEF Prepare
<1>2. dirgen' \in [Watched -> Nat]
  BY <1>1 DEF PlaceInv
<1>3. DirsBounded'
  BY <1>1, <1>2, WatchedAssumption DEF PlaceInv, DirsBounded
<1>4. \A x \in Watched : dirgen'[x] \in 0 .. (MAX_DIRS + 1)
  BY <1>2, <1>3, WatchedAssumption DEF DirsBounded
<1> QED BY <1>1, <1>2, <1>3, <1>4 DEF PlaceInv, ReadyTypeOK

\* A new tmpfs on /run and the directories of tmpfiles.d.
LEMMA RunPlace ==
    ASSUME PlaceInv, NEW hidden \in SUBSET Watched, NEW made \in SUBSET Watched,
           RunHidden(hidden), apply_tmpfiles(dirs \ hidden, made),
           stage = "essential", step = 3, step' = 4
    PROVE  PlaceInv'
<1>1. /\ dirs' = (dirs \ hidden) \cup made /\ UNCHANGED <<watch, reg, pending, listening, sent, created>>
      /\ file' = [s \in Watched |-> IF s \in hidden THEN "absent" ELSE file[s]]
      /\ dirgen' = [s \in Watched |-> dirgen[s] + IF s \in made \ (dirs \ hidden) THEN 1 ELSE 0]
  BY DEF RunHidden, apply_tmpfiles
<1>2. \A s \in Watched : dirgen[s] \in Nat /\ dirgen[s] <= 1
  BY DEF PlaceInv, DirsBounded
<1>3. \A s \in Watched : /\ dirgen'[s] \in Nat /\ dirgen'[s] <= 2
                         /\ s \notin dirs' => dirgen'[s] <= 1
  BY <1>1, <1>2
<1>4. DirsBounded'
  BY <1>3 DEF DirsBounded
<1>5. dirgen' \in [Watched -> Nat] /\ dirgen' \in [Watched -> 0 .. (MAX_DIRS + 1)]
  BY <1>1, <1>3, WatchedAssumption
<1> QED BY <1>1, <1>4, <1>5 DEF PlaceInv, ReadyTypeOK

\* Every step keeps files, directories and watchers in their types.
LEMMA StepPlace == InitTypeInv /\ [Next]_vars => PlaceInv'
<1> SUFFICES ASSUME InitTypeInv, [Next]_vars PROVE PlaceInv'
  OBVIOUS
<1>1. PlaceInv /\ step \in Nat \ {0} /\ running \subseteq Watched
  BY DEF InitTypeInv, MainTypes
<1>2. CASE UNCHANGED readyVars /\ stage' # "essential"
  BY <1>1, <1>2, SamePlace
<1>3. CASE UNCHANGED <<readyVars, stage, step>>
  BY <1>1, <1>3, SamePlace
<1>4. CASE MountEssential
  <2>1. stage = "essential" /\ stage' = stage /\ step' = step + 1 /\ step \in 1 .. 5
    BY <1>1, <1>4, RunIsThird DEF MountEssential
  <2>2. CASE UNCHANGED readyVars
    BY <1>1, <2>1, <2>2, SamePlace
  <2>3. ASSUME Essentials[step] = "/run", NEW hidden \in SUBSET Watched, NEW made \in SUBSET Watched,
               RunHidden(hidden), apply_tmpfiles(dirs \ hidden, made)
        PROVE  PlaceInv'
    <3>1. step = 3 /\ step' = 4
      BY <2>1, <2>3, RunIsThird
    <3> QED BY <1>1, <2>1, <2>3, <3>1, RunPlace
  <2> QED BY <1>4, <2>2, <2>3 DEF MountEssential
<1>5. CASE Setup
  BY <1>2, <1>3, <1>4, <1>5 DEF Setup, EssentialFails, EndEssential, MountEntry, EndSetup
<1>6. CASE Main
  <2>1. ASSUME NEW s \in Watched, PrepareService(s) PROVE PlaceInv'
    BY <1>1, <2>1, PreparePlace DEF PrepareService
  <2> QED BY <1>2, <1>6, <2>1 DEF Main, InstallHandlers, LoadServices, PrepareFails, RunExecutor
<1>7. CASE Services
  <2>1. ASSUME NEW s \in running, stage = "services", ServiceFile(s), UNCHANGED mainVars PROVE PlaceInv'
    BY <1>1, <2>1, ServicePlace
  <2> QED BY <1>3, <1>7, <2>1 DEF Services, StartService, ServiceMount
<1>8. CASE ExecutorReturns \/ ExecutorFails
  BY <1>1, <1>8 DEF ExecutorReturns, ExecutorFails, placeVars, PlaceInv, ReadyTypeOK, DirsBounded
<1>9. CASE Down
  <2>1. UNCHANGED readyVars /\ stage' # "essential"
    BY <1>9 DEF Down, Supervise, MatchOnExit, Unmount, UmountNext, EndUnmount, RebootCall, RebootCallFails
  <2> QED BY <1>2, <2>1
<1>10. CASE EarlySignal \/ SigTerm \/ SigUsr1 \/ HandleReboot
  BY <1>2, <1>3, <1>10 DEF EarlySignal, SigTerm, SigUsr1, HandleReboot, mainVars
<1>11. CASE Watchers
  BY <1>1, <1>11, WatcherPlace DEF Watchers
<1>12. CASE UNCHANGED vars
  BY <1>3, <1>12 DEF vars, mainVars
<1> QED BY <1>5, <1>6, <1>7, <1>8, <1>9, <1>10, <1>11, <1>12 DEF Next

\* A step of main that moves between stages and leaves lists and services.
LEMMA SameMain ==
    ASSUME MainTypes, UNCHANGED <<pid1, mounts, left, running, how, paths, listed>>,
           stage' \in Stages, step' \in Nat \ {0},
           stage' = "services" => left = {},
           stage' \in {"essential", "fstab", "unmount"} => stage' = stage /\ step' = step
    PROVE  MainTypes'
BY DEF MainTypes

\* Every step keeps what main has in its types.
LEMMA StepMain == InitTypeInv /\ [Next]_vars => MainTypes'
<1> SUFFICES ASSUME InitTypeInv, [Next]_vars PROVE MainTypes'
  OBVIOUS
<1>1. MainTypes /\ step \in Nat \ {0} /\ stage \in Stages
  BY DEF InitTypeInv, MainTypes
<1>2. CASE UNCHANGED mainVars
  BY <1>1, <1>2, SameMain DEF mainVars, downVars, MainTypes
<1>3. CASE MountEssential
  BY <1>1, <1>3, RunIsThird DEF MountEssential, downVars, MainTypes
<1>4. CASE EndEssential
  BY <1>1, <1>4, ToMountType DEF EndEssential, downVars, MainTypes, Stages
<1>5. CASE MountEntry
  <2>1. step \in 1 .. Len(ToMount(Fstab))
    BY <1>1, <1>5, ToMountType DEF MountEntry
  <2>2. mounts' \in Seq(Mount)
    <3> DEFINE m == [path |-> ToMount(Fstab)[step].file, virtual |-> FALSE]
    <3>1. m \in Mount
      BY <2>1, ToMountType DEF Mount
    <3>2. mounts' = mounts \/ mounts' = Append(mounts, m)
      BY <1>5 DEF MountEntry
    <3> HIDE DEF m
    <3> QED BY <1>1, <3>1, <3>2 DEF MainTypes
  <2> QED BY <1>1, <1>5, <2>1, <2>2, ToMountType DEF MountEntry, downVars, MainTypes
<1>6. CASE EssentialFails \/ EndSetup
  BY <1>1, <1>6, SameMain DEF EssentialFails, EndSetup, downVars, Stages, Ended
<1>7. CASE InstallHandlers \/ LoadServices \/ PrepareFails \/ RunExecutor
  BY <1>1, <1>7, SameMain DEF InstallHandlers, LoadServices, PrepareFails, RunExecutor, downVars, Stages, Ended
<1>8. ASSUME NEW s \in Watched, PrepareService(s) PROVE MainTypes'
  BY <1>1, <1>8 DEF PrepareService, downVars, MainTypes
<1>9. ASSUME NEW s \in Watched, StartService(s) PROVE MainTypes'
  BY <1>1, <1>9 DEF StartService, downVars, MainTypes
<1>10. ASSUME NEW m \in LaterMounts, ServiceMount(m) PROVE MainTypes'
  <2>1. m \in Mount
    BY FstabAssumption
  <2>2. mounts' \in Seq(Mount)
    BY <1>1, <1>10, <2>1 DEF ServiceMount, MainTypes
  <2> QED BY <1>1, <1>10, <2>2 DEF ServiceMount, downVars, MainTypes
<1>11. CASE ExecutorReturns \/ ExecutorFails \/ EarlySignal
  BY <1>1, <1>11, SameMain DEF ExecutorReturns, ExecutorFails, EarlySignal, downVars, Stages, Ended
<1>12. ASSUME NEW mode \in {"reboot", "exit_reboot", "exit_halt"}, Unmount(mode),
              UNCHANGED <<pid1, mounts, left, running>>
       PROVE  MainTypes'
  <2>1. /\ stage' = "unmount" /\ how' = mode /\ step' = 1
        /\ listed' = mounts \/ listed' = <<>>
        /\ paths' = PathsToUnmount(listed')
    BY <1>12 DEF Unmount
  <2>2. listed' \in Seq(Mount)
    BY <1>1, <2>1, EmptySeq DEF MainTypes
  <2>3. paths' \in Seq(Fields) /\ Len(paths') \in Nat
    BY <2>1, <2>2, PathsAreLastFirst
  <2> QED BY <1>1, <1>12, <2>1, <2>2, <2>3 DEF MainTypes, Stages
<1>13. CASE Supervise
  BY <1>1, <1>12, <1>13, SameMain DEF Supervise, Stages, Ended
<1>14. CASE MatchOnExit
  BY <1>12, <1>14 DEF MatchOnExit
<1>15. CASE UmountNext
  <2>1. mounts' \in Seq(Mount)
    BY <1>1, <1>15, UmountType DEF UmountNext, MainTypes
  <2> QED BY <1>1, <1>15, <2>1 DEF UmountNext, downVars, MainTypes
<1>16. CASE EndUnmount \/ RebootCall \/ RebootCallFails
  BY <1>1, <1>16, SameMain DEF EndUnmount, RebootCall, RebootCallFails, downVars, Stages, Ended
<1>17. CASE SigTerm \/ SigUsr1 \/ HandleReboot \/ Watchers \/ UNCHANGED vars
  BY <1>2, <1>17 DEF SigTerm, SigUsr1, HandleReboot, Watchers, vars
<1>18. CASE Setup \/ Main
  BY <1>3, <1>4, <1>5, <1>6, <1>7, <1>8, <1>18 DEF Setup, Main
<1>19. CASE Services
  BY <1>2, <1>9, <1>10, <1>19 DEF Services
<1>20. CASE Down
  BY <1>13, <1>14, <1>15, <1>16, <1>20 DEF Down
<1> QED BY <1>11, <1>17, <1>18, <1>19, <1>20 DEF Next

\* Every step keeps the flags in their types.
LEMMA StepFlags == FlagTypes /\ [Next]_vars => FlagTypes'
<1> SUFFICES ASSUME FlagTypes, [Next]_vars PROVE FlagTypes'
  OBVIOUS
<1>1. CASE UNCHANGED <<flags, obeyed, refused>>
  BY <1>1 DEF FlagTypes, flags
<1>2. CASE Setup
  BY <1>1, <1>2 DEF Setup, MountEssential, EssentialFails, EndEssential, MountEntry, EndSetup, downVars
<1>3. CASE Main
  BY <1>1, <1>3 DEF Main, InstallHandlers, LoadServices, PrepareService, PrepareFails, RunExecutor, downVars
<1>4. CASE Services
  BY <1>1, <1>4 DEF Services, StartService, ServiceMount, mainVars, downVars
<1>5. CASE ExecutorReturns \/ ExecutorFails \/ EarlySignal
  BY <1>1, <1>5 DEF ExecutorReturns, ExecutorFails, EarlySignal, FlagTypes, flags, downVars
<1>6. CASE Down
  BY <1>1, <1>6 DEF Down, Supervise, MatchOnExit, UmountNext, EndUnmount, RebootCall, RebootCallFails,
                    FlagTypes, flags, downVars
<1>7. CASE SigTerm \/ SigUsr1 \/ HandleReboot
  BY <1>7 DEF SigTerm, SigUsr1, HandleReboot, FlagTypes, mainVars, downVars
<1>8. CASE Watchers \/ UNCHANGED vars
  BY <1>1, <1>8 DEF Watchers, vars, mainVars, downVars
<1> QED BY <1>2, <1>3, <1>4, <1>5, <1>6, <1>7, <1>8 DEF Next

\* InitTypeInv is an invariant.
LEMMA InitTypeInvariance == Spec => []InitTypeInv
<1>1. InitTypeInv /\ [Next]_vars => InitTypeInv'
  BY StepPlace, StepMain, StepFlags DEF InitTypeInv
<1> QED BY <1>1, InitTypes, PTL DEF Spec

(* Type correctness of flint-init's life, for every fstab, set of services *)
(* and of their mounts: no loop of setup or of unmount_all runs past the   *)
(* end of its list, every path it unmounts is how /proc/mounts shows one   *)
(* of the mount points, no file exists outside a directory.                *)
THEOREM InitTypeCorrect == Spec => []TypeOK
<1>1. InitTypeInv => TypeOK
  BY DEF InitTypeInv, PlaceInv, MainTypes, FlagTypes, TypeOK
<1> QED BY <1>1, InitTypeInvariance, PTL

-----------------------------------------------------------------------------
(* Nothing is left mounted. The mount table is always what is left of the  *)
(* list unmount_all read, in its order; and of that list a mount is still  *)
(* there only if it is virtual, if its path is shown escaped, if a virtual *)
(* one covers it, or if its turn has not come. The positions in the list   *)
(* are what tells two mounts with the same path apart. A mount that stays  *)
(* because its path is escaped hides no plain one: what covers a plain     *)
(* path is at a plain path.                                                *)
Embeds(g, table, list) ==
    /\ g \in [DOMAIN table -> DOMAIN list]
    /\ \A i, j \in DOMAIN table : i < j => g[i] < g[j]
    /\ \A i \in DOMAIN table : table[i] = list[g[i]]

Shielded(list, j) == \E k \in DOMAIN list : list[k].virtual /\ Covers(list, k, j)

Accounted(g, r) ==
    /\ Embeds(g, mounts, listed) /\ LastFirst(r, listed, paths)
    /\ \A i \in DOMAIN mounts :
          \/ listed[g[i]].virtual \/ ~Plain(listed[g[i]].path) \/ Shielded(listed, g[i])
          \/ \E k \in step .. Len(paths) : r[k] = g[i]

UnmountInv ==
    /\ stage = "call" => step > Len(paths)
    /\ stage \in {"unmount", "call"} /\ listed # <<>> => \E g, r : Accounted(g, r)

\* Covering is transitive.
LEMMA CoversTransitive ==
    ASSUME NEW list \in Seq(Mount), NEW i \in DOMAIN list, NEW j \in DOMAIN list, NEW k \in DOMAIN list,
           Covers(list, j, i), Covers(list, k, j)
    PROVE  Covers(list, k, i)
<1>1. list[i].path \in Paths /\ list[j].path \in Paths /\ list[k].path \in Paths
  <2>1. list[i] \in Mount /\ list[j] \in Mount /\ list[k] \in Mount
    OBVIOUS
  <2> QED BY <2>1 DEF Mount
<1>2. i < k
  BY DEF Covers
<1> QED BY <1>1, <1>2, BelowIsAnOrder DEF Covers

\* Of the mounts at one path only the last can be visible.
LEMMA OneVisible ==
    ASSUME NEW table \in Seq(Mount), NEW i \in DOMAIN table, NEW j \in DOMAIN table,
           table[i].path = table[j].path, Visible(table, i), Visible(table, j)
    PROVE  i = j
<1>1. DOMAIN table = 1 .. Len(table) /\ Len(table) \in Nat
  OBVIOUS
<1>2. ~(i < j) /\ ~(j < i)
  BY DEF Visible, Covers
<1> QED BY <1>1, <1>2

\* What covers a plain path is at a plain path.
LEMMA CoverIsPlain ==
    ASSUME NEW list \in Seq(Mount), NEW i \in DOMAIN list, NEW j \in DOMAIN list,
           Covers(list, j, i), Plain(list[i].path)
    PROVE  Plain(list[j].path)
<1>1. list[i] \in Mount /\ list[j] \in Mount
  OBVIOUS
<1>2. list[i].path \in Paths /\ list[j].path \in Paths
  BY <1>1 DEF Mount
<1> QED BY <1>2, PlainAssumption DEF Covers

\* When its turn comes, a mount at a plain path is found there or is shielded.
LEMMA HiddenIsShielded ==
    ASSUME InitTypeInv, NEW g, NEW r, Accounted(g, r), step \in 1 .. Len(paths),
           NEW i \in DOMAIN mounts, g[i] = r[step], ~Visible(mounts, i),
           Plain(mounts[i].path)
    PROVE  Shielded(listed, g[i])
<1>1. mounts \in Seq(Mount) /\ listed \in Seq(Mount) /\ Len(paths) \in Nat /\ step \in Nat
  BY DEF InitTypeInv, MainTypes
<1>2. PICK j \in DOMAIN mounts : Covers(mounts, j, i)
  BY DEF Visible
<1>3. /\ g[i] \in DOMAIN listed /\ g[j] \in DOMAIN listed /\ g[i] < g[j]
      /\ mounts[i] = listed[g[i]] /\ mounts[j] = listed[g[j]]
  BY <1>2 DEF Accounted, Embeds, Covers
<1>4. Covers(listed, g[j], g[i])
  BY <1>2, <1>3 DEF Covers
<1>5. CASE listed[g[j]].virtual
  BY <1>3, <1>4, <1>5 DEF Shielded
<1>6. CASE Shielded(listed, g[j])
  <2>1. PICK k \in DOMAIN listed : listed[k].virtual /\ Covers(listed, k, g[j])
    BY <1>6 DEF Shielded
  <2> QED BY <1>1, <1>3, <1>4, <2>1, CoversTransitive DEF Shielded
<1>7. ASSUME NEW k \in step .. Len(paths), r[k] = g[j] PROVE FALSE
  <2>1. k = step \/ step < k
    BY <1>1, <1>7
  <2>2. step < k => r[k] < r[step]
    BY <1>1, <1>7 DEF Accounted, LastFirst
  <2>3. g[i] \in Nat /\ g[j] \in Nat
    BY <1>1, <1>3
  <2> QED BY <1>3, <1>7, <2>1, <2>2, <2>3
<1>8. Plain(listed[g[j]].path)
  BY <1>1, <1>3, <1>4, CoverIsPlain
<1> QED BY <1>2, <1>5, <1>6, <1>7, <1>8 DEF Accounted

\* What umount2 leaves: a part of the table that is without the mount found.
LEMMA UmountLeaves ==
    ASSUME NEW table \in Seq(Mount), NEW path
    PROVE  \E h : /\ Embeds(h, umount2(table, path), table)
                  /\ \A i \in DOMAIN umount2(table, path) :
                        ~(table[h[i]].path = path /\ Visible(table, h[i]))
<1> DEFINE At1(i) == table[i].path = path /\ Visible(table, i)
           top == CHOOSE i \in DOMAIN table : At1(i)
           I == {i \in DOMAIN table : i < top \/ (i > top /\ <<table[i].path, path>> \notin Below)}
<1>1. umount2(table, path) = IF ~IsMounted(table, path) THEN table ELSE At(table, I)
  BY DEF umount2
<1>2. CASE ~IsMounted(table, path)
  <2> DEFINE h == [i \in DOMAIN table |-> i]
  <2>1. Embeds(h, table, table)
    BY DEF Embeds
  <2>2. \A i \in DOMAIN table : h[i] \in DOMAIN table /\ ~At1(h[i])
    BY <1>2 DEF IsMounted
  <2> HIDE DEF h
  <2> QED BY <1>1, <1>2, <2>1, <2>2
<1>3. CASE IsMounted(table, path)
  <2>1. top \in DOMAIN table /\ At1(top)
    BY <1>3 DEF IsMounted
  <2> HIDE DEF top
  <2>2. I \in SUBSET DOMAIN table /\ top \notin I
    BY <2>1
  <2> HIDE DEF I
  <2> DEFINE left1 == At(table, I)
  <2>3. left1 \in Seq(Mount) /\ DOMAIN left1 = 1 .. Len(left1) /\ Len(left1) \in Nat
    BY <2>2, AtOfSeq
  <2>4. PICK h : Picks(h, Len(left1), I) /\ \A k \in 1 .. Len(left1) : left1[k] = table[h[k]]
    BY <2>2, AtOfSeq
  <2> HIDE DEF left1
  <2>5. Embeds(h, left1, table)
    BY <2>2, <2>3, <2>4 DEF Embeds, Picks
  <2>6. ASSUME NEW i \in DOMAIN left1, At1(h[i]) PROVE FALSE
    <3>1. h[i] \in I /\ h[i] \in DOMAIN table
      BY <2>2, <2>3, <2>4 DEF Picks
    <3>2. h[i] = top
      BY <2>1, <2>6, <3>1, OneVisible
    <3> QED BY <2>2, <3>1, <3>2
  <2> QED BY <1>1, <1>3, <2>5, <2>6 DEF left1
<1> QED BY <1>2, <1>3

\* One turn of the loop of unmount_all.
LEMMA UmountNextAccounts ==
    ASSUME InitTypeInv, UnmountInv, UmountNext
    PROVE  UnmountInv'
<1>1. /\ stage = "unmount" /\ stage' = "unmount" /\ step \in 1 .. Len(paths) /\ step' = step + 1
      /\ mounts' = umount2(mounts, paths[step]) /\ UNCHANGED <<paths, listed>>
      /\ mounts \in Seq(Mount) /\ step \in Nat /\ Len(paths) \in Nat
  BY DEF UmountNext, downVars, InitTypeInv, MainTypes
<1> SUFFICES ASSUME listed # <<>> PROVE \E g, r : Accounted(g, r)'
  BY <1>1 DEF UnmountInv
<1>2. PICK g, r : Accounted(g, r)
  BY <1>1 DEF UnmountInv
<1>3. PICK h : /\ Embeds(h, mounts', mounts)
               /\ \A i \in DOMAIN mounts' : ~(mounts[h[i]].path = paths[step] /\ Visible(mounts, h[i]))
  BY <1>1, UmountLeaves
<1> PICK gh : gh = [i \in DOMAIN mounts' |-> g[h[i]]]
  OBVIOUS
<1>4. Embeds(gh, mounts', listed)
  BY <1>2, <1>3 DEF Embeds, Accounted
<1>5. ASSUME NEW i \in DOMAIN mounts'
      PROVE  \/ listed[gh[i]].virtual \/ ~Plain(listed[gh[i]].path) \/ Shielded(listed, gh[i])
             \/ \E k \in (step + 1) .. Len(paths) : r[k] = gh[i]
  <2>1. h[i] \in DOMAIN mounts /\ gh[i] = g[h[i]] /\ mounts[h[i]] = listed[g[h[i]]]
    BY <1>2, <1>3 DEF Embeds, Accounted
  <2>2. CASE r[step] = g[h[i]] /\ Plain(mounts[h[i]].path)
    <3>1. mounts[h[i]].path = paths[step]
      BY <1>1, <1>2, <2>1, <2>2 DEF Accounted, LastFirst, Plain
    <3>2. ~Visible(mounts, h[i])
      BY <1>3, <3>1
    <3> QED BY <1>1, <1>2, <2>1, <2>2, <3>2, HiddenIsShielded
  <2>3. ASSUME NEW k \in step .. Len(paths), k # step, r[k] = g[h[i]]
        PROVE  \E x \in (step + 1) .. Len(paths) : r[x] = gh[i]
    <3>1. k \in (step + 1) .. Len(paths)
      BY <1>1, <2>3
    <3> QED BY <2>1, <2>3, <3>1
  <2> QED BY <1>2, <2>1, <2>2, <2>3 DEF Accounted
<1>6. Embeds(gh, mounts, listed)'
  BY <1>1, <1>4 DEF Embeds
<1>7. LastFirst(r, listed, paths)'
  BY <1>1, <1>2 DEF Accounted, LastFirst
<1>8. \A x : Shielded(listed, x)' <=> Shielded(listed, x)
  BY <1>1 DEF Shielded, Covers
<1>9. Accounted(gh, r)'
  BY <1>1, <1>5, <1>6, <1>7, <1>8 DEF Accounted
<1> QED BY <1>9

\* unmount_all reads the table: all of it is there, and no turn has come.
LEMMA UnmountAccounts ==
    ASSUME InitTypeInv, NEW mode, Unmount(mode), UNCHANGED mounts
    PROVE  UnmountInv'
<1>1. /\ stage' = "unmount" /\ step' = 1 /\ mounts \in Seq(Mount)
      /\ listed' = mounts \/ listed' = <<>>
      /\ paths' = PathsToUnmount(listed')
  BY DEF Unmount, InitTypeInv, MainTypes
<1> SUFFICES ASSUME listed' # <<>> PROVE \E g, r : Accounted(g, r)'
  BY <1>1 DEF UnmountInv
<1>2. listed' = mounts /\ paths' = PathsToUnmount(mounts) /\ Len(paths') \in Nat
  BY <1>1, PathsAreLastFirst
<1>3. PICK r : LastFirst(r, mounts, paths')
  BY <1>1, <1>2, PathsAreLastFirst
<1> PICK g : g = [i \in DOMAIN mounts |-> i]
  OBVIOUS
<1>4. Embeds(g, mounts, mounts) /\ \A i \in DOMAIN mounts : g[i] = i
  BY DEF Embeds
<1>5. \A i \in DOMAIN mounts : mounts[g[i]].virtual \/ \E k \in 1 .. Len(paths') : r[k] = g[i]
  BY <1>3, <1>4 DEF LastFirst
<1>6. Accounted(g, r)'
  BY <1>1, <1>2, <1>3, <1>4, <1>5 DEF Accounted, Embeds, LastFirst
<1> QED BY <1>6

\* Elsewhere nothing is claimed.
LEMMA NotUnmounting == stage' \notin {"unmount", "call"} => UnmountInv'
BY DEF UnmountInv

\* Where mounts and list stay as they are.
LEMMA SameUnmount ==
    ASSUME UnmountInv, UNCHANGED <<mounts, listed, paths, step>>,
           stage' = stage \/ (stage = "unmount" /\ step > Len(paths))
    PROVE  UnmountInv'
<1>1. \A g, r : Accounted(g, r)' <=> Accounted(g, r)
  BY DEF Accounted, Embeds, LastFirst, Shielded, Covers
<1>2. stage' = "call" => step' > Len(paths')
  BY DEF UnmountInv
<1>3. stage' \in {"unmount", "call"} /\ listed' # <<>> => \E g, r : Accounted(g, r)
  BY DEF UnmountInv
<1> QED BY <1>1, <1>2, <1>3 DEF UnmountInv

\* Every step keeps the account.
LEMMA StepUnmount == InitTypeInv /\ UnmountInv /\ [Next]_vars => UnmountInv'
<1> SUFFICES ASSUME InitTypeInv, UnmountInv, [Next]_vars PROVE UnmountInv'
  OBVIOUS
<1>1. CASE UNCHANGED mainVars
  BY <1>1, SameUnmount DEF mainVars, downVars
<1>2. CASE Setup
  BY <1>2, NotUnmounting DEF Setup, MountEssential, EssentialFails, EndEssential, MountEntry, EndSetup
<1>3. CASE Main
  BY <1>3, NotUnmounting DEF Main, InstallHandlers, LoadServices, PrepareService, PrepareFails, RunExecutor
<1>4. CASE Services
  BY <1>1, <1>4, NotUnmounting DEF Services, StartService, ServiceMount
<1>5. CASE ExecutorReturns \/ ExecutorFails \/ EarlySignal
  BY <1>5, NotUnmounting DEF ExecutorReturns, ExecutorFails, EarlySignal
<1>6. CASE Supervise
  BY <1>6, NotUnmounting, UnmountAccounts DEF Supervise
<1>7. CASE MatchOnExit
  BY <1>7, UnmountAccounts DEF MatchOnExit
<1>8. CASE UmountNext
  BY <1>8, UmountNextAccounts
<1>9. CASE EndUnmount
  BY <1>9, SameUnmount DEF EndUnmount, downVars
<1>10. CASE RebootCall \/ RebootCallFails
  BY <1>10, NotUnmounting DEF RebootCall, RebootCallFails
<1>11. CASE SigTerm \/ SigUsr1 \/ HandleReboot \/ Watchers \/ UNCHANGED vars
  BY <1>1, <1>11 DEF SigTerm, SigUsr1, HandleReboot, Watchers, vars
<1> QED BY <1>2, <1>3, <1>4, <1>5, <1>6, <1>7, <1>8, <1>9, <1>10, <1>11 DEF Next, Down

(* When flint-init calls reboot(2) no filesystem with data is mounted, for *)
(* every fstab and every sequence of mounts the services made, stacked on  *)
(* one path or hiding each other, and however often reboot(2) has failed;  *)
(* except one that a virtual filesystem covered, and one at a path that    *)
(* /proc/mounts shows escaped, which umount2 is then asked for in vain.    *)
THEOREM NothingIsLeftMounted == Spec => []NothingLeftMounted
<1>1. Init => UnmountInv
  BY DEF Init, UnmountInv
<1>2. InitTypeInv /\ UnmountInv => NothingLeftMounted
  <2> SUFFICES ASSUME InitTypeInv, UnmountInv, stage = "call", listed # <<>>,
                      NEW i \in DOMAIN mounts, ~mounts[i].virtual,
                      Plain(mounts[i].path)
               PROVE  \E j, k \in DOMAIN listed :
                         listed[j] = mounts[i] /\ listed[k].virtual /\ Covers(listed, k, j)
    BY DEF NothingLeftMounted
  <2>1. PICK g, r : Accounted(g, r)
    BY DEF UnmountInv
  <2>2. step > Len(paths) /\ step \in Nat /\ Len(paths) \in Nat
    BY DEF UnmountInv, InitTypeInv, MainTypes
  <2>3. g[i] \in DOMAIN listed /\ listed[g[i]] = mounts[i]
    BY <2>1 DEF Accounted, Embeds
  <2>4. Shielded(listed, g[i])
    BY <2>1, <2>2, <2>3 DEF Accounted
  <2> QED BY <2>3, <2>4 DEF Shielded
<1> QED BY <1>1, <1>2, InitTypeInvariance, StepUnmount, PTL DEF Spec
=============================================================================
