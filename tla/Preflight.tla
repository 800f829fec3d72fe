----------------------------- MODULE Preflight -----------------------------
(***************************************************************************)
(* flint-ctl check, the preflight of src/src/check.rs: what it says of a   *)
(* directory of service files. A directory is a function from file names   *)
(* to texts, or to NONE where there is no such file.                       *)
(***************************************************************************)
EXTENDS Naturals, FiniteSets

CONSTANTS
    Files,   \* names of the .toml files a directory may hold
    Labels,  \* service names that texts may have or mention
    NONE

ASSUME FilesFinite == IsFiniteSet(Files) /\ IsFiniteSet(Labels)

(* A text, as far as the readers of it can tell: whether it is a TOML      *)
(* service definition, whether validate accepts its ready.path, and the    *)
(* names it has and mentions.                                              *)
Text == [parses : BOOLEAN, valid : BOOLEAN,
         name : Labels, needs : SUBSET Labels, after : SUBSET Labels]

Present(dir) == {f \in Files : dir[f] # NONE}

\* The definitions run_preflight goes on with; the others are file errors.
Checked(dir) == {f \in Present(dir) : dir[f].parses /\ dir[f].valid}

Named(dir, F) == {dir[f].name : f \in F}

\* Mutant: the cycle test looks at the hard dependencies only.
MutNeedsOnly(dir, F, f) == dir[f].needs \cap Named(dir, F)

\* Mutant: edges to names that nothing has are counted too.
MutEveryDep(dir, F, f) == dir[f].after \cup dir[f].needs

\* has_cycle: the edges of one definition, to known names only.
KnownDeps(dir, F, f) == (dir[f].after \cup dir[f].needs) \cap Named(dir, F)

(* The names the queue of has_cycle gives out. A name leaves the queue     *)
(* once, when the last of its definitions' edges has been taken off.       *)
Visited(dir, F) ==
    LET turn[i \in 0..Cardinality(F)] ==
            IF i = 0 THEN {}
            ELSE {n \in Named(dir, F) :
                    \A f \in F : dir[f].name = n => KnownDeps(dir, F, f) \subseteq turn[i - 1]}
    IN turn[Cardinality(F)]

has_cycle(dir, F) == Cardinality(Visited(dir, F)) # Cardinality(F)

BrokenNeeds(dir, f) == dir[f].needs \ Named(dir, Checked(dir))

\* What run_preflight reports as errors; "(graph)" stands for the cycle.
\* Warnings (no such binary, unknown after-dep) do not decide anything.
Errors(dir) ==
    (Present(dir) \ Checked(dir))
    \cup {f \in Checked(dir) : BrokenNeeds(dir, f) # {}}
    \cup (IF has_cycle(dir, Checked(dir)) THEN {"(graph)"} ELSE {})

\* run_check's answer, which becomes the exit status.
run_check(dir) == Errors(dir) = {}
=============================================================================
