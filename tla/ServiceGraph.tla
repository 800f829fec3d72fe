---------------------------- MODULE ServiceGraph ----------------------------
(***************************************************************************)
(* The dependency graph of src/src/graph.rs, after ServiceGraph::build has *)
(* accepted it: which service waits for which, and the two pure steps the  *)
(* executor takes on it, mark_ready and the layers of shutdown_order.      *)
(* The names an administrator can mention but no loaded file defines are   *)
(* the Strangers: build skips edges to them, the control socket does not.  *)
(***************************************************************************)
EXTENDS Naturals, FiniteSets

CONSTANTS
    Services,   \* names of the loaded service definitions
    Strangers,  \* other names that appear in deps or in ctl requests
    After,      \* [Services -> SUBSET Names]: deps.after
    Needs       \* [Services -> SUBSET Names]: deps.needs

Names == Services \cup Strangers

\* build: all_deps, the union of after and needs, restricted to known names.
Deps(s) == (After[s] \cup Needs[s]) \cap Services

\* build: the reverse adjacency `dependents` (every edge).
dependents(n) == {s \in Services : n \in Deps(s)}

\* build: the reverse adjacency of the hard edges; an unknown name keeps its
\* entry here although build warns about it.
needs_dependents(n) == {s \in Services : n \in Needs[s]}

ASSUME GraphShape ==
    /\ IsFiniteSet(Services)
    /\ IsFiniteSet(Strangers)
    /\ Services \cap Strangers = {}
    /\ After \in [Services -> SUBSET Names]
    /\ Needs \in [Services -> SUBSET Names]

\* What build's cycle test leaves: the edges admit a topological numbering.
ASSUME Acyclic ==
    \E rank \in [Services -> 0..Cardinality(Services)] :
        \A s \in Services : \A d \in Deps(s) : rank[d] < rank[s]

-----------------------------------------------------------------------------
\* build: one unit of in-degree per distinct known dependency.
InitialInDegree == [s \in Services |-> Cardinality(Deps(s))]

\* initially_ready: nothing to wait for.
initially_ready(deg) == {s \in Services : deg[s] = 0}

\* Mutant: mark_ready without the guard `*d > 0`'s effect on the last unit.
MutDecrementTwice(deg, n) ==
    [s \in Services |-> IF s \in dependents(n) /\ deg[s] > 1
                           THEN deg[s] - 2 ELSE IF s \in dependents(n) THEN 0 ELSE deg[s]]

\* Mutant: the edge is taken off twice, without the guard `*d > 0`.
MutDecrementWraps(deg, n) ==
    [s \in Services |-> IF s \in dependents(n) THEN deg[s] - 2 ELSE deg[s]]

\* mark_ready: every dependent loses one unit, never below zero ...
DecrementDependents(deg, n) ==
    [s \in Services |-> IF s \in dependents(n) /\ deg[s] > 0
                           THEN deg[s] - 1 ELSE deg[s]]

\* Mutant: mark_ready announcing a dependent one unit early.
MutNewlyReadyEarly(deg, n) == {s \in dependents(n) : deg[s] \in {1, 2}}

\* ... and the ones that lose their last unit are returned.
NewlyReady(deg, n) == {s \in dependents(n) : deg[s] = 1}

\* Mutant: shutdown_order looking at dependencies instead of dependents.
MutLeavesInverted(running) ==
    {n \in running : ~ \E d \in running : n \in dependents(d)}

\* shutdown_order: the services nobody still running depends on.
Leaves(running) == {n \in running : dependents(n) \cap running = {}}
=============================================================================
