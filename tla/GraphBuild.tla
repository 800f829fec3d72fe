----------------------------- MODULE GraphBuild -----------------------------
(***************************************************************************)
(* The two algorithms of src/src/graph.rs on every small input: the cycle  *)
(* test of ServiceGraph::build (Kahn's algorithm) and shutdown_order. The  *)
(* input is a list of parsed files; nothing in the code makes their names  *)
(* distinct, and a dependency may name no file at all.                     *)
(***************************************************************************)
EXTENDS Naturals, FiniteSets, Sequences

CONSTANTS
    Files,  \* the entries of the Vec<ServiceDef> given to build
    Labels  \* names that services may have or mention

ASSUME FilesAndLabelsFinite == IsFiniteSet(Files) /\ IsFiniteSet(Labels)

VARIABLES
    phase,       \* "kahn", "built", "cycle", "order", "ordered"
    name, deps,  \* the input: service.name and deps.after \cup deps.needs
    queue, tmp_degree, visited, \* Kahn: the queue, the counters, the count
    popped,      \* history: the names the queue has given out
    running, dep_count, remaining, leaves, order  \* shutdown_order

input == <<name, deps>>
kahn  == <<queue, tmp_degree, visited, popped>>
stop  == <<running, dep_count, remaining, leaves, order>>
vars  == <<phase, input, kahn, stop>>

-----------------------------------------------------------------------------
service_names == {name[f] : f \in Files}

\* Edges to unknown names are skipped.
KnownDeps(f) == deps[f] \cap service_names

\* The files pushed on dependents[n]; a name pushed twice counts twice.
Pushed(n)     == {f \in Files : n \in KnownDeps(f)}
dependents(n) == {name[f] : f \in Pushed(n)}

\* How many units of in-degree of m the edges out of n account for.
EdgesBetween(n, m) == Cardinality({f \in Pushed(n) : name[f] = m})

in_degree ==
    [m \in service_names |->
        Cardinality({e \in service_names \X Files : e[2] \in Pushed(e[1]) /\ name[e[2]] = m})]

Init ==
    /\ name \in [Files -> Labels]
    /\ deps \in [Files -> SUBSET Labels]
    /\ phase = "kahn"
    /\ queue = {m \in service_names : in_degree[m] = 0}
    /\ tmp_degree = in_degree
    /\ visited = 0 /\ popped = {}
    /\ running = {} /\ remaining = {} /\ leaves = {} /\ order = <<>>
    /\ dep_count = [m \in service_names |-> 0]

\* Mutant: every dependent of the popped name joins the queue.
MutVisitPushesAll(n) ==
    /\ phase = "kahn" /\ n \in queue
    /\ visited' = visited + 1
    /\ popped' = popped \cup {n}
    /\ tmp_degree' = [m \in service_names |->
                        IF tmp_degree[m] < EdgesBetween(n, m) THEN 0
                        ELSE tmp_degree[m] - EdgesBetween(n, m)]
    /\ queue' = (queue \ {n}) \cup dependents(n)
    /\ UNCHANGED <<phase, input, stop>>

\* One turn of the loop: n leaves the queue, its dependents lose their units.
Visit(n) ==
    /\ phase = "kahn" /\ n \in queue
    /\ visited' = visited + 1
    /\ popped' = popped \cup {n}
    /\ tmp_degree' = [m \in service_names |-> tmp_degree[m] - EdgesBetween(n, m)]
    /\ queue' = (queue \ {n}) \cup {m \in dependents(n) : tmp_degree'[m] = 0}
    /\ UNCHANGED <<phase, input, stop>>

\* Mutant: a graph is accepted as soon as anything could be visited.
MutEndKahnLoose ==
    /\ phase = "kahn" /\ queue = {}
    /\ phase' = IF visited > 0 THEN "built" ELSE "cycle"
    /\ UNCHANGED <<input, kahn, stop>>

\* The count of visited names is compared with the number of definitions.
EndKahn ==
    /\ phase = "kahn" /\ queue = {}
    /\ phase' = IF visited = Cardinality(Files) THEN "built" ELSE "cycle"
    /\ UNCHANGED <<input, kahn, stop>>

-----------------------------------------------------------------------------
\* shutdown_order(R): count, for each running name, its running dependents.
AskOrder(R) ==
    /\ phase = "built"
    /\ phase' = "order"
    /\ running' = R /\ remaining' = R
    /\ dep_count' = [m \in service_names |->
                        IF m \in R THEN Cardinality({f \in Pushed(m) : name[f] \in R}) ELSE 0]
    /\ UNCHANGED <<input, kahn, leaves, order>>

FindLeaves ==
    /\ phase = "order" /\ leaves = {} /\ remaining # {}
    /\ {m \in remaining : dep_count[m] = 0} # {}
    /\ leaves' = {m \in remaining : dep_count[m] = 0}
    /\ UNCHANGED <<phase, input, kahn, running, dep_count, remaining, order>>

\* Mutants: the counters are left alone; they are cleared at the first leaf.
MutCountsKept(n) == dep_count
MutCountsCleared(n) ==
    [m \in service_names |-> IF n \in dependents(m) THEN 0 ELSE dep_count[m]]

\* What the leaf depended on and is still to be stopped loses one unit.
CountsWithout(n) ==
    [m \in service_names |->
        IF m \in remaining \ {n} /\ n \in dependents(m) /\ dep_count[m] > 0
           THEN dep_count[m] - 1 ELSE dep_count[m]]

\* The leaf goes into the order.
TakeLeaf(n) ==
    /\ phase = "order" /\ n \in leaves
    /\ leaves' = leaves \ {n}
    /\ remaining' = remaining \ {n}
    /\ order' = Append(order, n)
    /\ dep_count' = CountsWithout(n)
    /\ UNCHANGED <<phase, input, kahn, running>>

EndOrder ==
    /\ phase = "order" /\ leaves = {} /\ remaining = {}
    /\ phase' = "ordered"
    /\ UNCHANGED <<input, kahn, stop>>

\* Nothing is asked of a rejected graph, and one order is enough.
Terminated == phase \in {"cycle", "ordered"} /\ UNCHANGED vars

Next ==
    \/ \E n \in service_names : Visit(n) \/ TakeLeaf(n)
    \/ EndKahn
    \/ \E R \in SUBSET service_names : AskOrder(R)
    \/ FindLeaves \/ EndOrder
    \/ Terminated

Spec == Init /\ [][Next]_vars

-----------------------------------------------------------------------------
\* Reference: a set of services each of which waits for another of the set.
HasCycle ==
    \E S \in (SUBSET service_names) \ {{}} :
        \A m \in S : \E f \in Files : name[f] = m /\ KnownDeps(f) \cap S # {}

Distinct == \A f, g \in Files : name[f] = name[g] => f = g

(* build accepts exactly the acyclic inputs, for distinct service names;   *)
(* whatever the names, it never accepts a cyclic one.                      *)
AcceptsExactlyAcyclic ==
    /\ phase \in {"built", "order", "ordered"} => Distinct /\ ~HasCycle
    /\ phase = "cycle" => HasCycle \/ ~Distinct

(* The counter arithmetic `*d -= 1` never underflows: at every turn the    *)
(* counter of a name is the number of edges from names not yet popped.     *)
DegreesExact ==
    phase = "kahn" =>
        \A m \in service_names :
            tmp_degree[m] = Cardinality({e \in (service_names \ popped) \X Files :
                                            e[2] \in Pushed(e[1]) /\ name[e[2]] = m})

(* shutdown_order never gets stuck on an accepted graph: while services    *)
(* remain, one of them is a leaf, so the draining branch is never taken.   *)
AlwaysALeaf ==
    phase = "order" /\ remaining # {} =>
        leaves # {} \/ \E m \in remaining : dep_count[m] = 0

(* The returned order holds each running service once, and every running   *)
(* dependent of a service comes before it.                                 *)
OrderSound ==
    phase = "ordered" =>
        /\ {order[i] : i \in DOMAIN order} = running
        /\ Len(order) = Cardinality(running)
        /\ \A i, j \in DOMAIN order : order[i] \in dependents(order[j]) => i < j
=============================================================================
