----------------------------- MODULE MountTable -----------------------------
(***************************************************************************)
(* Mounts as flint-init makes and undoes them: which lines of /etc/fstab   *)
(* it mounts (src/src/fstab.rs), which mounts it takes down and in which   *)
(* order (unmount_all of src/src/pid1.rs), and the kernel's answer. A      *)
(* table is a sequence in the order of mounting, which is the order of     *)
(* /proc/mounts.                                                           *)
(***************************************************************************)
EXTENDS Naturals, Sequences, FiniteSets, SequencesExt

CONSTANTS
    Paths,  \* mount points; "/" is the root
    Below,  \* <<p, q>> : path p lies below path q
    Shown   \* Shown[p] : how /proc/mounts spells path p

ASSUME BelowIsAnOrder ==
    /\ Below \subseteq Paths \X Paths
    /\ \A p, q, r \in Paths : <<p, q>> \in Below /\ <<q, r>> \in Below => <<p, r>> \in Below
    /\ \A p \in Paths : <<p, p>> \notin Below

(* The kernel writes blanks, tabs, newlines and backslashes of a path as   *)
(* octal escapes. A plain path, which has none, is shown as it is, and so  *)
(* is every path above it.                                                 *)
Plain(p) == Shown[p] = p
Fields   == {Shown[p] : p \in Paths}

ASSUME PlainAssumption ==
    /\ DOMAIN Shown = Paths
    /\ \A p, q \in Paths : <<p, q>> \in Below /\ Plain(p) => Plain(q)

\* VIRTUAL_TYPES and SKIP_TYPES list the same kinds: here a flag of a mount.
Mount == [path : Paths, virtual : BOOLEAN]

\* The elements of s at the positions in I, in the order of s.
At(s, I) ==
    [k \in 1..Cardinality(I) |-> s[CHOOSE i \in I : Cardinality({j \in I : j <= i}) = k]]

-----------------------------------------------------------------------------
(* fstab.rs. A line is a comment or too short, or has the fields that      *)
(* decide about it. The second field becomes the path letter by letter:    *)
(* escapes are not decoded, so a line for "/my disk", which has to say     *)
(* /my\040disk, is a line for a directory of that very name.               *)
Line == [entry : BOOLEAN, file : Paths \cup {"/"}, virtual : BOOLEAN, noauto : BOOLEAN]

parse_fstab(lines) == At(lines, {i \in DOMAIN lines : lines[i].entry})

should_mount(l) == l.file # "/" /\ ~l.noauto /\ ~l.virtual

\* The entries that mount_all goes through.
ToMount(lines) ==
    LET entries == parse_fstab(lines)
    IN At(entries, {i \in DOMAIN entries : should_mount(entries[i])})

-----------------------------------------------------------------------------
(* The kernel. A mount is covered by a later one on the same path or above *)
(* it: looking its path up no longer leads there.                          *)
Covers(table, j, i) ==
    i < j /\ (table[i].path = table[j].path \/ <<table[i].path, table[j].path>> \in Below)

Visible(table, i) == \A j \in DOMAIN table : ~Covers(table, j, i)

\* umount2(path, MNT_DETACH): the visible mount at path goes, with all that
\* is mounted in it; an error if there is none.
IsMounted(table, path) == \E i \in DOMAIN table : table[i].path = path /\ Visible(table, i)

umount2(table, path) ==
    IF ~IsMounted(table, path) THEN table
    ELSE LET top == CHOOSE i \in DOMAIN table : table[i].path = path /\ Visible(table, i)
         IN At(table, {i \in DOMAIN table :
                          i < top \/ (i > top /\ <<table[i].path, path>> \notin Below)})

-----------------------------------------------------------------------------
\* The mounts that unmount_all collects.
RealMounts(table) == At(table, {i \in DOMAIN table : ~table[i].virtual})

\* Mutant: the paths are taken in the order of /proc/mounts.
MutPathsForward(table) ==
    [i \in DOMAIN RealMounts(table) |-> Shown[RealMounts(table)[i].path]]

\* unmount_all: the paths it will detach, the last mounted first. They are
\* fields of /proc/mounts, and are not decoded.
PathsToUnmount(table) ==
    LET real == RealMounts(table)
    IN Reverse([i \in DOMAIN real |-> Shown[real[i].path]])
=============================================================================
