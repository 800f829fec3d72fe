-------------------------- MODULE GraphBuildProofs --------------------------
(* Theorems about the two algorithms of GraphBuild for every list of       *)
(* files, whatever their number, names and dependencies.                   *)
EXTENDS GraphBuild, FiniteSetTheorems, FunctionTheorems, SequenceTheorems, TLAPS

Phases == {"kahn", "built", "cycle", "order", "ordered"}

\* The edges from the names of S to m, as pairs of a name and a file.
EdgesFrom(S, m) == {e \in S \X Files : e[2] \in Pushed(e[1]) /\ name[e[2]] = m}

Shape ==
    /\ name \in [Files -> Labels] /\ deps \in [Files -> SUBSET Labels]
    /\ phase \in Phases
    /\ popped \subseteq service_names
    /\ tmp_degree \in [service_names -> Nat]

-----------------------------------------------------------------------------
USE DEF vars, input, kahn, stop

\* The input never changes, and what is computed from it does not either.
LEMMA SameInput ==
    ASSUME UNCHANGED input
    PROVE  /\ service_names' = service_names
           /\ \A f : KnownDeps(f)' = KnownDeps(f)
           /\ \A n : Pushed(n)' = Pushed(n) /\ dependents(n)' = dependents(n)
           /\ \A n, m : EdgesBetween(n, m)' = EdgesBetween(n, m)
           /\ \A S, m : EdgesFrom(S, m)' = EdgesFrom(S, m)
           /\ HasCycle' = HasCycle /\ Distinct' = Distinct
BY DEF service_names, KnownDeps, Pushed, dependents, EdgesBetween, EdgesFrom, HasCycle, Distinct

\* Nothing in build or shutdown_order touches the list of definitions.
LEMMA InputKept == ASSUME [Next]_vars PROVE UNCHANGED input
BY DEF Next, Visit, TakeLeaf, EndKahn, AskOrder, FindLeaves, EndOrder, Terminated

\* name maps the files onto the finite set of service names.
LEMMA NamesFinite ==
    ASSUME Shape
    PROVE  /\ name \in Surjection(Files, service_names)
           /\ IsFiniteSet(service_names)
           /\ Cardinality(service_names) <= Cardinality(Files)
           /\ Cardinality(service_names) = Cardinality(Files) <=> Distinct
<1>1. name \in Surjection(Files, service_names)
  BY DEF Shape, service_names, Surjection
<1>2. name \in Injection(Files, service_names) <=> Distinct
  BY <1>1 DEF Injection, IsInjective, Surjection, Distinct
<1> QED BY <1>1, <1>2, FS_Surjection, FilesAndLabelsFinite

\* So are the edges out of any names.
LEMMA EdgesFinite ==
    ASSUME Shape, NEW S \in SUBSET service_names, NEW m
    PROVE  IsFiniteSet(EdgesFrom(S, m))
<1>1. IsFiniteSet(S)
  BY NamesFinite, FS_Subset
<1>2. IsFiniteSet(S \X Files)
  BY <1>1, FS_Product, FilesAndLabelsFinite
<1>3. EdgesFrom(S, m) \in SUBSET (S \X Files)
  BY DEF EdgesFrom
<1> QED BY <1>2, <1>3, FS_Subset

\* The files that are pushed on dependents[n] and are called m are as many as
\* the edges from n to m.
LEMMA EdgesOfOne ==
    ASSUME Shape, NEW n \in service_names, NEW m
    PROVE  Cardinality(EdgesFrom({n}, m)) = EdgesBetween(n, m)
<1> DEFINE F == {f \in Pushed(n) : name[f] = m}
           b == [f \in F |-> <<n, f>>]
<1>1. IsFiniteSet(F)
  <2>1. F \in SUBSET Files
    BY DEF Pushed
  <2> QED BY <2>1, FilesAndLabelsFinite, FS_Subset
<1>2. b \in Bijection(F, EdgesFrom({n}, m))
  <2>1. \A f \in F : f \in Files /\ f \in Pushed(n) /\ name[f] = m
    BY DEF Pushed
  <2>2. b \in [F -> EdgesFrom({n}, m)]
    BY <2>1 DEF EdgesFrom
  <2>3. \A f, g \in F : b[f] = b[g] => f = g
    OBVIOUS
  <2>4. \A e \in EdgesFrom({n}, m) : \E f \in F : b[f] = e
    <3> SUFFICES ASSUME NEW e \in EdgesFrom({n}, m) PROVE \E f \in F : b[f] = e
      OBVIOUS
    <3>1. e = <<n, e[2]>> /\ e[2] \in F
      BY DEF EdgesFrom
    <3> QED BY <3>1
  <2> HIDE DEF b, F
  <2> QED BY <2>2, <2>3, <2>4, Fun_IsBij
<1>3. ExistsBijection(F, EdgesFrom({n}, m))
  BY <1>2 DEF ExistsBijection
<1> HIDE DEF b
<1> QED BY <1>1, <1>3, FS_Bijection DEF EdgesBetween

\* Without n, the edges to m are fewer by exactly those from n to m.
LEMMA EdgesWithout ==
    ASSUME Shape, NEW S \in SUBSET service_names, NEW n \in S, NEW m
    PROVE  /\ Cardinality(EdgesFrom(S \ {n}, m)) = Cardinality(EdgesFrom(S, m)) - EdgesBetween(n, m)
           /\ Cardinality(EdgesFrom(S \ {n}, m)) \in Nat
           /\ Cardinality(EdgesFrom(S, m)) \in Nat
           /\ EdgesBetween(n, m) \in Nat
<1>1. EdgesFrom(S \ {n}, m) = EdgesFrom(S, m) \ EdgesFrom({n}, m)
  BY DEF EdgesFrom
<1>2. EdgesFrom(S, m) \cap EdgesFrom({n}, m) = EdgesFrom({n}, m)
  BY DEF EdgesFrom
<1>3. IsFiniteSet(EdgesFrom(S, m)) /\ IsFiniteSet(EdgesFrom({n}, m)) /\ IsFiniteSet(EdgesFrom(S \ {n}, m))
  BY EdgesFinite
<1>4. Cardinality(EdgesFrom(S \ {n}, m))
        = Cardinality(EdgesFrom(S, m)) - Cardinality(EdgesFrom({n}, m))
  BY <1>1, <1>2, <1>3, FS_Difference
<1>5. Cardinality(EdgesFrom({n}, m)) = EdgesBetween(n, m)
  BY EdgesOfOne
<1> QED BY <1>3, <1>4, <1>5, FS_CardinalityType

-----------------------------------------------------------------------------
(* Kahn's algorithm. The counters are exact; the queue holds exactly the   *)
(* names that wait for nothing unpopped; the count is that of the popped.  *)
QueueExact ==
    phase = "kahn" =>
        /\ queue = {m \in service_names \ popped : tmp_degree[m] = 0}
        /\ \A m \in popped : tmp_degree[m] = 0

VisitedExact == visited = Cardinality(popped)

\* A set whose members all wait for each other; none of it is ever popped.
WaitsForItself(S) == \A m \in S : \E f \in Files : name[f] = m /\ KnownDeps(f) \cap S # {}

CyclesUnpopped == \A S \in SUBSET service_names : WaitsForItself(S) => S \cap popped = {}

KahnInv == Shape /\ DegreesExact /\ QueueExact /\ VisitedExact /\ CyclesUnpopped

\* A counter at zero means that no unpopped name has an edge to the name.
LEMMA ZeroMeansFree ==
    ASSUME KahnInv, phase = "kahn", NEW m \in service_names
    PROVE  /\ tmp_degree[m] = Cardinality(EdgesFrom(service_names \ popped, m))
           /\ tmp_degree[m] = 0 <=>
                \A d \in service_names \ popped : \A f \in Pushed(d) : name[f] # m
<1>1. tmp_degree[m] = Cardinality(EdgesFrom(service_names \ popped, m))
  BY DEF KahnInv, DegreesExact, EdgesFrom
<1>2. IsFiniteSet(EdgesFrom(service_names \ popped, m))
  BY EdgesFinite DEF KahnInv
<1>3. tmp_degree[m] = 0 <=> EdgesFrom(service_names \ popped, m) = {}
  BY <1>1, <1>2, FS_EmptySet
<1>4. EdgesFrom(service_names \ popped, m) = {} <=>
          \A d \in service_names \ popped : \A f \in Pushed(d) : name[f] # m
  <2>1. ASSUME EdgesFrom(service_names \ popped, m) = {},
               NEW d \in service_names \ popped, NEW f \in Pushed(d), name[f] = m
        PROVE FALSE
    <3>1. <<d, f>> \in EdgesFrom(service_names \ popped, m)
      BY <2>1 DEF EdgesFrom, Pushed
    <3> QED BY <2>1, <3>1
  <2>2. ASSUME \A d \in service_names \ popped : \A f \in Pushed(d) : name[f] # m,
               NEW e \in EdgesFrom(service_names \ popped, m)
        PROVE FALSE
    <3>1. e[1] \in service_names \ popped /\ e[2] \in Pushed(e[1]) /\ name[e[2]] = m
      BY DEF EdgesFrom
    <3> QED BY <2>2, <3>1
  <2> QED BY <2>1, <2>2
<1> QED BY <1>1, <1>3, <1>4

\* One turn of the loop.
LEMMA VisitKeeps ==
    ASSUME KahnInv, NEW n \in service_names, Visit(n)
    PROVE  KahnInv'
<1> DEFINE Left == service_names \ popped
<1>1. /\ phase = "kahn" /\ phase' = "kahn" /\ n \in queue
      /\ popped' = popped \cup {n} /\ visited' = visited + 1
      /\ UNCHANGED input
  BY DEF Visit
<1>2. n \in Left /\ tmp_degree[n] = 0
  BY <1>1 DEF KahnInv, QueueExact
<1>3. service_names' = service_names /\ service_names \ popped' = Left \ {n}
  BY <1>1, SameInput
<1>4. \A m \in service_names :
          /\ tmp_degree'[m] = tmp_degree[m] - EdgesBetween(n, m)
          /\ tmp_degree[m] = Cardinality(EdgesFrom(Left, m))
          /\ tmp_degree'[m] = Cardinality(EdgesFrom(Left \ {n}, m))
          /\ tmp_degree'[m] \in Nat /\ tmp_degree[m] \in Nat /\ EdgesBetween(n, m) \in Nat
  <2> SUFFICES ASSUME NEW m \in service_names
               PROVE /\ tmp_degree'[m] = tmp_degree[m] - EdgesBetween(n, m)
                     /\ tmp_degree[m] = Cardinality(EdgesFrom(Left, m))
                     /\ tmp_degree'[m] = Cardinality(EdgesFrom(Left \ {n}, m))
                     /\ tmp_degree'[m] \in Nat /\ tmp_degree[m] \in Nat
                     /\ EdgesBetween(n, m) \in Nat
    OBVIOUS
  <2>1. tmp_degree'[m] = tmp_degree[m] - EdgesBetween(n, m)
    BY DEF Visit
  <2>2. tmp_degree[m] = Cardinality(EdgesFrom(Left, m))
    BY <1>1, ZeroMeansFree
  <2>3. /\ Cardinality(EdgesFrom(Left \ {n}, m))
             = Cardinality(EdgesFrom(Left, m)) - EdgesBetween(n, m)
        /\ Cardinality(EdgesFrom(Left \ {n}, m)) \in Nat
        /\ EdgesBetween(n, m) \in Nat
    BY <1>2, EdgesWithout DEF KahnInv
  <2> QED BY <2>1, <2>2, <2>3 DEF KahnInv, Shape
<1>5. Shape'
  <2>1. tmp_degree' \in [service_names -> Nat]
    BY <1>4 DEF Visit
  <2> QED BY <1>1, <1>2, <1>3, <2>1 DEF KahnInv, Shape
<1>6. DegreesExact'
  <2>1. \A m : EdgesFrom(service_names \ popped, m)' = EdgesFrom(Left \ {n}, m)
    BY <1>1, <1>3, SameInput DEF EdgesFrom
  <2>2. \A m \in service_names' : tmp_degree'[m] = Cardinality(EdgesFrom(service_names \ popped, m)')
    BY <1>3, <1>4, <2>1
  <2> QED BY <2>2 DEF DegreesExact, EdgesFrom
<1>7. \A m \in service_names : EdgesBetween(n, m) # 0 <=> m \in dependents(n)
  <2> SUFFICES ASSUME NEW m \in service_names
               PROVE EdgesBetween(n, m) # 0 <=> m \in dependents(n)
    OBVIOUS
  <2>1. {f \in Pushed(n) : name[f] = m} \in SUBSET Files
    BY DEF Pushed
  <2>2. IsFiniteSet({f \in Pushed(n) : name[f] = m})
    BY <2>1, FilesAndLabelsFinite, FS_Subset
  <2>3. EdgesBetween(n, m) # 0 <=> {f \in Pushed(n) : name[f] = m} # {}
    BY <2>2, FS_EmptySet DEF EdgesBetween
  <2> QED BY <2>3 DEF dependents
<1>8. QueueExact'
  <2>1. queue' = (queue \ {n}) \cup {m \in dependents(n) : tmp_degree'[m] = 0}
    BY DEF Visit
  <2>2. dependents(n) \subseteq service_names
    BY DEF dependents, service_names, Pushed
  <2>3. \A m \in popped : tmp_degree[m] = 0 /\ m \in service_names
    BY <1>1 DEF KahnInv, QueueExact, Shape
  <2>4. queue = {m \in Left : tmp_degree[m] = 0}
    BY <1>1 DEF KahnInv, QueueExact
  <2>5. \A m \in service_names : tmp_degree[m] = 0 => tmp_degree'[m] = 0 /\ m \notin dependents(n)
    BY <1>4, <1>7
  <2>6. \A m \in service_names : m \notin dependents(n) => tmp_degree'[m] = tmp_degree[m]
    BY <1>4, <1>7
  <2>7. queue' = {m \in Left \ {n} : tmp_degree'[m] = 0}
    BY <1>2, <2>1, <2>2, <2>3, <2>4, <2>5, <2>6
  <2>8. \A m \in popped' : tmp_degree'[m] = 0
    BY <1>1, <1>2, <2>3, <2>5
  <2> QED BY <1>3, <2>7, <2>8 DEF QueueExact
<1>9. VisitedExact'
  <2>1. IsFiniteSet(popped)
    BY NamesFinite, FS_Subset DEF KahnInv, Shape
  <2> QED BY <1>1, <1>2, <2>1, FS_AddElement DEF KahnInv, VisitedExact
<1>10. CyclesUnpopped'
  <2> SUFFICES ASSUME NEW S \in SUBSET service_names, WaitsForItself(S) PROVE S \cap popped' = {}
    BY <1>1, <1>3, SameInput DEF CyclesUnpopped, WaitsForItself
  <2>1. S \cap popped = {}
    BY DEF KahnInv, CyclesUnpopped
  <2>2. ASSUME n \in S PROVE FALSE
    <3>1. PICK f \in Files : name[f] = n /\ KnownDeps(f) \cap S # {}
      BY <2>2 DEF WaitsForItself
    <3>2. PICK d \in KnownDeps(f) : d \in S
      BY <3>1
    <3>3. d \in service_names \ popped /\ f \in Pushed(d)
      BY <2>1, <3>2 DEF Pushed
    <3> QED BY <1>1, <1>2, <3>1, <3>3, ZeroMeansFree
  <2> QED BY <1>1, <2>1, <2>2
<1> QED BY <1>5, <1>6, <1>8, <1>9, <1>10 DEF KahnInv

\* The other steps leave the counters and the popped names alone.
LEMMA OthersKeepKahn ==
    ASSUME KahnInv, UNCHANGED input, UNCHANGED kahn, phase' \in Phases,
           phase' = "kahn" => phase = "kahn"
    PROVE  KahnInv'
<1>1. Shape' /\ VisitedExact'
  BY SameInput DEF KahnInv, Shape, VisitedExact
<1>2. DegreesExact'
  BY SameInput DEF KahnInv, DegreesExact
<1>3. QueueExact' /\ CyclesUnpopped'
  BY SameInput DEF KahnInv, QueueExact, CyclesUnpopped, WaitsForItself
<1> QED BY <1>1, <1>2, <1>3 DEF KahnInv

\* Every step keeps the invariant.
LEMMA StepKahnInv == KahnInv /\ [Next]_vars => KahnInv'
<1> SUFFICES ASSUME KahnInv, [Next]_vars PROVE KahnInv'
  OBVIOUS
<1>1. ASSUME NEW n \in service_names, Visit(n) PROVE KahnInv'
  BY <1>1, VisitKeeps
<1>2. CASE \/ UNCHANGED vars \/ (\E n \in service_names : TakeLeaf(n)) \/ EndKahn
           \/ (\E R \in SUBSET service_names : AskOrder(R)) \/ FindLeaves \/ EndOrder \/ Terminated
  <2>1. /\ UNCHANGED input /\ UNCHANGED kahn /\ phase' \in Phases
        /\ phase' = "kahn" => phase = "kahn"
    BY <1>2 DEF TakeLeaf, EndKahn, AskOrder, FindLeaves, EndOrder, Terminated, Phases, KahnInv, Shape
  <2> QED BY <2>1, OthersKeepKahn
<1> QED BY <1>1, <1>2 DEF Next

\* build starts Kahn's algorithm with exact counters and nothing popped.
LEMMA InitKahnInv == Init => KahnInv
<1> SUFFICES ASSUME Init PROVE KahnInv
  OBVIOUS
<1>1. /\ name \in [Files -> Labels] /\ deps \in [Files -> SUBSET Labels] /\ phase = "kahn"
      /\ popped = {} /\ visited = 0 /\ tmp_degree = in_degree
      /\ queue = {m \in service_names : in_degree[m] = 0}
  BY DEF Init
<1>2. name \in Surjection(Files, service_names)
  BY <1>1 DEF service_names, Surjection
<1>3. IsFiniteSet(service_names \X Files)
  BY <1>2, FS_Surjection, FS_Product, FilesAndLabelsFinite
<1>4. \A m \in service_names :
          tmp_degree[m] = Cardinality(EdgesFrom(service_names, m)) /\ tmp_degree[m] \in Nat
  <2> SUFFICES ASSUME NEW m \in service_names
               PROVE tmp_degree[m] = Cardinality(EdgesFrom(service_names, m)) /\ tmp_degree[m] \in Nat
    OBVIOUS
  <2>1. tmp_degree[m] = Cardinality(EdgesFrom(service_names, m))
    BY <1>1 DEF in_degree, EdgesFrom
  <2>2. EdgesFrom(service_names, m) \in SUBSET (service_names \X Files)
    BY DEF EdgesFrom
  <2> QED BY <1>3, <2>1, <2>2, FS_Subset, FS_CardinalityType
<1>5. Shape
  BY <1>1, <1>4 DEF Shape, Phases, in_degree
<1>6. DegreesExact
  <2>1. service_names \ popped = service_names
    BY <1>1
  <2> QED BY <1>4, <2>1 DEF DegreesExact, EdgesFrom
<1>7. QueueExact /\ VisitedExact /\ CyclesUnpopped
  BY <1>1, FS_EmptySet DEF QueueExact, VisitedExact, CyclesUnpopped
<1> QED BY <1>5, <1>6, <1>7 DEF KahnInv

\* So it holds throughout.
LEMMA KahnInvariance == Spec => []KahnInv
BY InitKahnInv, StepKahnInv, PTL DEF Spec

(* The counter arithmetic of the cycle test never underflows: at every     *)
(* turn, for every list of files, with names repeated or not, a counter is *)
(* the number of edges from the names not yet popped.                      *)
THEOREM DegreesAreExact == Spec => []DegreesExact
<1>1. KahnInv => DegreesExact
  BY DEF KahnInv
<1> QED BY <1>1, KahnInvariance, PTL

-----------------------------------------------------------------------------
(* The verdict of the cycle test. The queue runs dry with every name       *)
(* popped, or with a set of names left that all wait for each other.       *)

\* The end of the loop: the comparison of the count with the definitions.
LEMMA VerdictIsRight ==
    ASSUME KahnInv, EndKahn
    PROVE  /\ phase' = "built" => Distinct /\ ~HasCycle
           /\ phase' = "cycle" => HasCycle \/ ~Distinct
           /\ phase' \in {"built", "cycle"}
<1> DEFINE Left == service_names \ popped
<1>1. /\ phase = "kahn" /\ queue = {}
      /\ phase' = IF visited = Cardinality(Files) THEN "built" ELSE "cycle"
  BY DEF EndKahn
<1>2. /\ Shape /\ popped \subseteq service_names /\ visited = Cardinality(popped)
  BY DEF KahnInv, Shape, VisitedExact
<1>3. /\ IsFiniteSet(service_names) /\ Cardinality(service_names) <= Cardinality(Files)
      /\ Cardinality(service_names) = Cardinality(Files) <=> Distinct
  BY <1>2, NamesFinite
<1>4. /\ IsFiniteSet(popped) /\ Cardinality(popped) <= Cardinality(service_names)
      /\ Cardinality(popped) = Cardinality(service_names) => popped = service_names
  BY <1>2, <1>3, FS_Subset
<1>5. /\ Cardinality(popped) \in Nat /\ Cardinality(service_names) \in Nat
      /\ Cardinality(Files) \in Nat
  BY <1>3, <1>4, FilesAndLabelsFinite, FS_CardinalityType
<1>6. ASSUME visited = Cardinality(Files) PROVE Distinct /\ ~HasCycle
  <2>1. popped = service_names /\ Distinct
    BY <1>2, <1>3, <1>4, <1>5, <1>6
  <2>2. \A S \in SUBSET service_names : WaitsForItself(S) => S = {}
    BY <2>1 DEF KahnInv, CyclesUnpopped
  <2> QED BY <2>1, <2>2 DEF HasCycle, WaitsForItself
<1>7. ASSUME visited # Cardinality(Files), Distinct PROVE HasCycle
  <2>1. Left # {}
    BY <1>2, <1>3, <1>7
  <2>2. WaitsForItself(Left)
    <3> SUFFICES ASSUME NEW m \in Left
                 PROVE \E f \in Files : name[f] = m /\ KnownDeps(f) \cap Left # {}
      BY DEF WaitsForItself
    <3>1. tmp_degree[m] # 0
      BY <1>1 DEF KahnInv, QueueExact
    <3>2. PICK d \in Left : \E f \in Pushed(d) : name[f] = m
      BY <1>1, <3>1, ZeroMeansFree
    <3> QED BY <3>2 DEF Pushed
  <2> QED BY <2>1, <2>2 DEF HasCycle, WaitsForItself
<1> QED BY <1>1, <1>6, <1>7

\* What build says stays true: the input it was said of never changes.
LEMMA StepAccepts ==
    ASSUME KahnInv, AcceptsExactlyAcyclic, [Next]_vars
    PROVE  AcceptsExactlyAcyclic'
<1>1. HasCycle' = HasCycle /\ Distinct' = Distinct
  BY InputKept, SameInput
<1>2. CASE EndKahn
  BY <1>1, <1>2, VerdictIsRight DEF AcceptsExactlyAcyclic
<1>3. CASE ~EndKahn
  <2>1. /\ phase' = "cycle" => phase = "cycle"
        /\ phase' \in {"built", "order", "ordered"} => phase \in {"built", "order", "ordered"}
    BY <1>3 DEF Next, Visit, TakeLeaf, AskOrder, FindLeaves, EndOrder, Terminated
  <2> QED BY <1>1, <2>1 DEF AcceptsExactlyAcyclic
<1> QED BY <1>2, <1>3

(* ServiceGraph::build accepts exactly the inputs with distinct names in   *)
(* which no set of services waits for itself, for every list of files. A   *)
(* repeated name is refused too, with the error that reports a cycle.      *)
THEOREM BuildAcceptsExactlyAcyclic == Spec => []AcceptsExactlyAcyclic
<1>1. Init => AcceptsExactlyAcyclic
  BY DEF Init, AcceptsExactlyAcyclic
<1>2. KahnInv /\ AcceptsExactlyAcyclic /\ [Next]_vars => AcceptsExactlyAcyclic'
  BY StepAccepts
<1> QED BY <1>1, <1>2, KahnInvariance, PTL DEF Spec

-----------------------------------------------------------------------------
(* shutdown_order, on a graph that build accepted. What is left to stop    *)
(* shrinks from the leaves, the counters follow it, and nothing taken has  *)
(* a dependent left.                                                       *)
Ordering == {"order", "ordered"}

\* The files whose service is among R and that wait for m.
WaitingIn(R, m) == {f \in Pushed(m) : name[f] \in R}

OrderShape ==
    /\ dep_count \in [service_names -> Nat] /\ order \in Seq(service_names)
    /\ leaves \subseteq remaining /\ remaining \subseteq running /\ running \subseteq service_names
    /\ phase \in {"kahn", "built"} => leaves = {} /\ order = <<>>
    /\ phase = "ordered" => remaining = {}

CountsExact ==
    phase \in Ordering =>
        \A m \in remaining : dep_count[m] = Cardinality(WaitingIn(remaining, m))

LeavesAreFree == \A m \in leaves : dependents(m) \cap remaining = {}

TakenOnce ==
    phase \in Ordering =>
        /\ {order[i] : i \in DOMAIN order} = running \ remaining
        /\ Len(order) = Cardinality(running \ remaining)

TakenInOrder ==
    /\ \A i, j \in DOMAIN order : order[i] \in dependents(order[j]) => i < j
    /\ \A j \in DOMAIN order : dependents(order[j]) \cap remaining = {}

OrderInv == OrderShape /\ CountsExact /\ LeavesAreFree /\ TakenOnce /\ TakenInOrder

\* The counter of a service is zero exactly when none that wait for it are left.
LEMMA NoneWaiting ==
    ASSUME Shape, NEW R, NEW m
    PROVE  /\ IsFiniteSet(WaitingIn(R, m)) /\ Cardinality(WaitingIn(R, m)) \in Nat
           /\ Cardinality(WaitingIn(R, m)) = 0 <=> dependents(m) \cap R = {}
<1>1. WaitingIn(R, m) \in SUBSET Files
  BY DEF WaitingIn, Pushed
<1>2. IsFiniteSet(WaitingIn(R, m))
  BY <1>1, FilesAndLabelsFinite, FS_Subset
<1>3. WaitingIn(R, m) = {} <=> dependents(m) \cap R = {}
  BY DEF WaitingIn, dependents
<1> QED BY <1>2, <1>3, FS_CardinalityType, FS_EmptySet

\* With distinct names, a service that is stopped is one unit of a counter.
LEMMA OneUnitEach ==
    ASSUME Shape, Distinct, NEW R, NEW n \in R, NEW m
    PROVE  Cardinality(WaitingIn(R \ {n}, m)) =
               IF n \in dependents(m) THEN Cardinality(WaitingIn(R, m)) - 1
                                      ELSE Cardinality(WaitingIn(R, m))
<1>1. CASE n \in dependents(m)
  <2>1. PICK f \in Pushed(m) : name[f] = n
    BY <1>1 DEF dependents
  <2>2. f \in WaitingIn(R, m) /\ WaitingIn(R \ {n}, m) = WaitingIn(R, m) \ {f}
    BY <2>1 DEF WaitingIn, Distinct, Pushed
  <2>3. IsFiniteSet(WaitingIn(R, m))
    BY NoneWaiting
  <2> QED BY <1>1, <2>2, <2>3, FS_RemoveElement
<1>2. CASE n \notin dependents(m)
  <2>1. WaitingIn(R \ {n}, m) = WaitingIn(R, m)
    BY <1>2 DEF WaitingIn, dependents
  <2> QED BY <1>2, <2>1
<1> QED BY <1>1, <1>2

\* The counters after a leaf is taken.
LEMMA CountsFollow ==
    ASSUME Shape, OrderInv, Distinct, phase = "order", NEW n \in leaves
    PROVE  /\ CountsWithout(n) \in [service_names -> Nat]
           /\ \A m \in remaining \ {n} :
                  CountsWithout(n)[m] = Cardinality(WaitingIn(remaining \ {n}, m))
<1>1. \A m \in service_names : dep_count[m] \in Nat
  BY DEF OrderInv, OrderShape
<1>2. CountsWithout(n) \in [service_names -> Nat]
  <2>1. \A m \in service_names : CountsWithout(n)[m] \in Nat
    BY <1>1 DEF CountsWithout
  <2> QED BY <2>1 DEF CountsWithout
<1>3. ASSUME NEW m \in remaining \ {n}
      PROVE CountsWithout(n)[m] = Cardinality(WaitingIn(remaining \ {n}, m))
  <2>1. m \in service_names /\ n \in remaining
    BY DEF OrderInv, OrderShape
  <2>2. dep_count[m] = Cardinality(WaitingIn(remaining, m))
    BY DEF OrderInv, CountsExact, Ordering
  <2>3. n \in dependents(m) => dep_count[m] # 0
    BY <2>1, <2>2, NoneWaiting
  <2>4. CountsWithout(n)[m] = IF n \in dependents(m) THEN dep_count[m] - 1 ELSE dep_count[m]
    BY <1>1, <2>1, <2>3 DEF CountsWithout
  <2> QED BY <2>1, <2>2, <2>4, OneUnitEach
<1> QED BY <1>2, <1>3

\* A leaf is taken.
LEMMA TakeLeafKeeps ==
    ASSUME Shape, OrderInv, Distinct, NEW n \in service_names, TakeLeaf(n)
    PROVE  OrderInv'
<1>1. /\ phase = "order" /\ phase' = "order" /\ n \in leaves /\ leaves' = leaves \ {n}
      /\ remaining' = remaining \ {n} /\ order' = Append(order, n)
      /\ dep_count' = CountsWithout(n) /\ running' = running /\ UNCHANGED input
  BY DEF TakeLeaf
<1>2. service_names' = service_names /\ \A m : dependents(m)' = dependents(m)
  BY <1>1, SameInput
<1>3. \A R, m : WaitingIn(R, m)' = WaitingIn(R, m)
  BY <1>1, SameInput DEF WaitingIn
<1>4. n \in remaining /\ order \in Seq(service_names) /\ dependents(n) \cap remaining = {}
  BY <1>1 DEF OrderInv, OrderShape, LeavesAreFree
<1>5. /\ order' \in Seq(service_names) /\ DOMAIN order = 1 .. Len(order)
      /\ Len(order) \in Nat /\ Len(order') = Len(order) + 1 /\ DOMAIN order' = 1 .. (Len(order) + 1)
      /\ \A i \in 1 .. Len(order) : order'[i] = order[i]
      /\ order'[Len(order) + 1] = n
  BY <1>1, <1>4, AppendProperties, LenProperties
<1>6. OrderShape'
  BY <1>1, <1>2, <1>5, CountsFollow DEF OrderInv, OrderShape
<1>7. CountsExact'
  BY <1>1, <1>3, CountsFollow DEF CountsExact
<1>8. LeavesAreFree'
  BY <1>1, <1>2 DEF OrderInv, LeavesAreFree
<1>9. TakenOnce'
  <2>1. /\ {order[i] : i \in DOMAIN order} = running \ remaining
        /\ Len(order) = Cardinality(running \ remaining)
    BY <1>1 DEF OrderInv, TakenOnce, Ordering
  <2>2. running \ remaining' = (running \ remaining) \cup {n} /\ n \notin running \ remaining
    BY <1>1, <1>4 DEF OrderInv, OrderShape
  <2>3. {order'[i] : i \in DOMAIN order'} = {order[i] : i \in DOMAIN order} \cup {n}
    BY <1>5
  <2>4. running \ remaining \subseteq service_names /\ IsFiniteSet(service_names)
    BY NamesFinite DEF OrderInv, OrderShape
  <2>5. IsFiniteSet(running \ remaining)
    BY <2>4, FS_Subset
  <2>6. Cardinality(running \ remaining') = Cardinality(running \ remaining) + 1
    BY <2>2, <2>5, FS_AddElement
  <2> QED BY <1>1, <1>5, <2>1, <2>2, <2>3, <2>6 DEF TakenOnce
<1>10. TakenInOrder'
  <2>1. /\ \A i, j \in 1 .. Len(order) : order[i] \in dependents(order[j]) => i < j
        /\ \A j \in 1 .. Len(order) : dependents(order[j]) \cap remaining = {}
    BY <1>5 DEF OrderInv, TakenInOrder
  <2>2. ASSUME NEW i \in 1 .. (Len(order) + 1), NEW j \in 1 .. (Len(order) + 1),
               order'[i] \in dependents(order'[j])
        PROVE i < j
    <3>1. CASE i \in 1 .. Len(order) /\ j \in 1 .. Len(order)
      BY <1>5, <2>1, <2>2, <3>1
    <3>2. CASE i \in 1 .. Len(order) /\ j = Len(order) + 1
      BY <1>5, <3>2
    <3>3. CASE i = Len(order) + 1 /\ j \in 1 .. Len(order)
      BY <1>4, <1>5, <2>1, <2>2, <3>3
    <3>4. CASE i = Len(order) + 1 /\ j = Len(order) + 1
      BY <1>4, <1>5, <2>2, <3>4
    <3> QED BY <1>5, <3>1, <3>2, <3>3, <3>4
  <2>3. \A j \in 1 .. (Len(order) + 1) : dependents(order'[j]) \cap remaining' = {}
    BY <1>1, <1>4, <1>5, <2>1
  <2> QED BY <1>2, <1>5, <2>2, <2>3 DEF TakenInOrder
<1> QED BY <1>6, <1>7, <1>8, <1>9, <1>10 DEF OrderInv

\* shutdown_order is called with the running services.
LEMMA AskOrderKeeps ==
    ASSUME Shape, OrderInv, NEW R \in SUBSET service_names, AskOrder(R)
    PROVE  OrderInv'
<1>1. /\ phase = "built" /\ phase' = "order" /\ running' = R /\ remaining' = R
      /\ dep_count' = [m \in service_names |-> IF m \in R THEN Cardinality(WaitingIn(R, m)) ELSE 0]
      /\ leaves' = {} /\ order' = <<>> /\ UNCHANGED input
  BY DEF AskOrder, WaitingIn, OrderInv, OrderShape
<1>2. service_names' = service_names /\ \A m : WaitingIn(R, m)' = WaitingIn(R, m)
  BY <1>1, SameInput DEF WaitingIn
<1>3. OrderShape'
  <2>1. dep_count' \in [service_names -> Nat]
    BY <1>1, NoneWaiting
  <2> QED BY <1>1, <1>2, <2>1 DEF OrderShape
<1>4. CountsExact'
  BY <1>1, <1>2 DEF CountsExact
<1>5. LeavesAreFree' /\ TakenInOrder'
  BY <1>1 DEF LeavesAreFree, TakenInOrder
<1>6. TakenOnce'
  <2>1. running' \ remaining' = {} /\ Cardinality({}) = 0
    BY <1>1, FS_EmptySet
  <2>2. {order'[i] : i \in DOMAIN order'} = {} /\ Len(order') = 0
    BY <1>1
  <2> QED BY <2>1, <2>2 DEF TakenOnce
<1> QED BY <1>3, <1>4, <1>5, <1>6 DEF OrderInv

\* A leaf found is a service whose counter is zero.
LEMMA FindLeavesKeeps ==
    ASSUME Shape, OrderInv, FindLeaves
    PROVE  OrderInv'
<1>1. /\ phase = "order" /\ leaves' = {m \in remaining : dep_count[m] = 0}
      /\ UNCHANGED <<phase, input, running, dep_count, remaining, order>>
  BY DEF FindLeaves
<1>2. /\ service_names' = service_names /\ \A m : dependents(m)' = dependents(m)
      /\ \A R, m : WaitingIn(R, m)' = WaitingIn(R, m)
  BY <1>1, SameInput DEF WaitingIn
<1>3. OrderShape' /\ CountsExact' /\ TakenOnce' /\ TakenInOrder'
  BY <1>1, <1>2 DEF OrderInv, OrderShape, CountsExact, TakenOnce, TakenInOrder
<1>4. LeavesAreFree'
  <2>1. \A m \in remaining : dep_count[m] = 0 => dependents(m) \cap remaining = {}
    BY <1>1, NoneWaiting DEF OrderInv, CountsExact, Ordering
  <2> QED BY <1>1, <1>2, <2>1 DEF LeavesAreFree
<1> QED BY <1>3, <1>4 DEF OrderInv

\* The steps that move between phases or do nothing.
LEMMA OthersKeepOrder ==
    ASSUME OrderInv, UNCHANGED <<input, stop>>,
           \/ phase' = phase
           \/ phase = "kahn" /\ phase' \in {"built", "cycle"}
           \/ phase = "order" /\ phase' = "ordered" /\ remaining = {}
    PROVE  OrderInv'
<1>1. /\ service_names' = service_names /\ \A m : dependents(m)' = dependents(m)
      /\ \A R, m : WaitingIn(R, m)' = WaitingIn(R, m)
  BY SameInput DEF WaitingIn
<1>2. OrderShape' /\ LeavesAreFree' /\ TakenInOrder'
  BY <1>1 DEF OrderInv, OrderShape, LeavesAreFree, TakenInOrder
<1>3. CountsExact' /\ TakenOnce'
  BY <1>1 DEF OrderInv, CountsExact, TakenOnce, Ordering
<1> QED BY <1>2, <1>3 DEF OrderInv

\* Every step keeps the invariant; only an accepted graph is asked for an order.
LEMMA StepOrderInv == KahnInv /\ AcceptsExactlyAcyclic /\ OrderInv /\ [Next]_vars => OrderInv'
<1> SUFFICES ASSUME KahnInv, AcceptsExactlyAcyclic, OrderInv, [Next]_vars PROVE OrderInv'
  OBVIOUS
<1>1. Shape
  BY DEF KahnInv
<1>2. ASSUME NEW n \in service_names, TakeLeaf(n) PROVE OrderInv'
  <2>1. Distinct
    BY <1>2 DEF TakeLeaf, AcceptsExactlyAcyclic
  <2> QED BY <1>1, <1>2, <2>1, TakeLeafKeeps
<1>3. ASSUME NEW R \in SUBSET service_names, AskOrder(R) PROVE OrderInv'
  BY <1>1, <1>3, AskOrderKeeps
<1>4. CASE FindLeaves
  BY <1>1, <1>4, FindLeavesKeeps
<1>5. CASE UNCHANGED vars \/ (\E n \in service_names : Visit(n)) \/ EndKahn \/ EndOrder \/ Terminated
  <2>1. /\ UNCHANGED <<input, stop>>
        /\ \/ phase' = phase
           \/ phase = "kahn" /\ phase' \in {"built", "cycle"}
           \/ phase = "order" /\ phase' = "ordered" /\ remaining = {}
    BY <1>5 DEF Visit, EndKahn, EndOrder, Terminated
  <2> QED BY <2>1, OthersKeepOrder
<1> QED BY <1>2, <1>3, <1>4, <1>5 DEF Next

\* Nothing is ordered while build runs.
LEMMA InitOrderInv == Init => OrderInv
<1> SUFFICES ASSUME Init PROVE OrderInv
  OBVIOUS
<1>1. /\ phase = "kahn" /\ running = {} /\ remaining = {} /\ leaves = {} /\ order = <<>>
      /\ dep_count = [m \in service_names |-> 0]
  BY DEF Init
<1>2. OrderShape
  BY <1>1 DEF OrderShape
<1> QED BY <1>1, <1>2 DEF OrderInv, CountsExact, LeavesAreFree, TakenOnce, TakenInOrder, Ordering

\* So it holds throughout, with the verdict on the graph.
LEMMA OrderInvariance == Spec => [](KahnInv /\ AcceptsExactlyAcyclic /\ OrderInv)
BY InitOrderInv, StepOrderInv, KahnInvariance, BuildAcceptsExactlyAcyclic, PTL DEF Spec

-----------------------------------------------------------------------------
\* Among the sets of a family of subsets of a finite set one is minimal.
LEMMA MinimalSubset ==
    ASSUME NEW U, IsFiniteSet(U), NEW T \in SUBSET (SUBSET U), T # {}
    PROVE  \E x \in T : \A y \in T : y \subseteq x => y = x
<1>1. IsWellFoundedOn(StrictSubsetOrdering(U), SUBSET U)
  BY FS_StrictSubsetOrderingWellFounded, FS_FiniteSubsetsOfFinite
<1>2. PICK x \in T : \A y \in T : ~ (<<y, x>> \in StrictSubsetOrdering(U))
  <2> HIDE DEF IsWellFoundedOn
  <2> QED BY <1>1, WFMin
<1> QED BY <1>2 DEF StrictSubsetOrdering

(* If every service of a set has a dependent in the set, some of them wait *)
(* for each other: the smallest such set has no member without a           *)
(* dependency in it, because it could do without that member.              *)
LEMMA NoLeafMeansCycle ==
    ASSUME Shape, NEW R \in SUBSET service_names, R # {},
           \A m \in R : dependents(m) \cap R # {}
    PROVE  HasCycle
<1> DEFINE Blocked(S) == \A m \in S : \E f \in Pushed(m) : name[f] \in S
           T == {S \in SUBSET service_names : S # {} /\ Blocked(S)}
<1>1. R \in T
  BY DEF dependents
<1>2. PICK S \in T : \A y \in T : y \subseteq S => y = S
  <2>1. T \in SUBSET (SUBSET service_names) /\ T # {}
    BY <1>1
  <2> HIDE DEF T
  <2> QED BY <2>1, NamesFinite, MinimalSubset
<1>3. ASSUME NEW m \in S, \A f \in Files : name[f] = m => KnownDeps(f) \cap S = {}
      PROVE FALSE
  <2>1. \A k \in S : \E f \in Pushed(k) : name[f] \in S \ {m}
    <3> SUFFICES ASSUME NEW k \in S PROVE \E f \in Pushed(k) : name[f] \in S \ {m}
      OBVIOUS
    <3>1. PICK f \in Pushed(k) : name[f] \in S
      BY <1>2
    <3>2. f \in Files /\ k \in KnownDeps(f) \cap S
      BY <3>1 DEF Pushed
    <3> QED BY <1>3, <3>1, <3>2
  <2>2. S \ {m} # {} /\ Blocked(S \ {m})
    BY <1>3, <2>1
  <2>3. S \ {m} \in T
    BY <1>2, <2>2
  <2> QED BY <1>2, <1>3, <2>3
<1> QED BY <1>2, <1>3 DEF HasCycle

(* shutdown_order never gets stuck on a graph that build accepted, for     *)
(* every list of files and every set of running services: while services   *)
(* remain one of them is a leaf, so the branch that drains the rest in no  *)
(* order is dead code.                                                     *)
THEOREM ThereIsAlwaysALeaf == Spec => []AlwaysALeaf
<1>1. KahnInv /\ AcceptsExactlyAcyclic /\ OrderInv => AlwaysALeaf
  <2> SUFFICES ASSUME KahnInv, AcceptsExactlyAcyclic, OrderInv, phase = "order", remaining # {},
                      \A m \in remaining : dep_count[m] # 0
               PROVE FALSE
    BY DEF AlwaysALeaf
  <2>1. Shape /\ remaining \in SUBSET service_names /\ ~HasCycle
    BY DEF KahnInv, OrderInv, OrderShape, AcceptsExactlyAcyclic
  <2>2. \A m \in remaining : dependents(m) \cap remaining # {}
    BY <2>1, NoneWaiting DEF OrderInv, CountsExact, Ordering
  <2> QED BY <2>1, <2>2, NoLeafMeansCycle
<1> QED BY <1>1, OrderInvariance, PTL

(* The order that shutdown_order returns holds every running service once, *)
(* each after all the running services that depend on it.                  *)
THEOREM ShutdownOrderIsSound == Spec => []OrderSound
<1>1. OrderInv => OrderSound
  <2> SUFFICES ASSUME OrderInv, phase = "ordered" PROVE OrderSound
    BY DEF OrderSound
  <2>1. running \ remaining = running
    BY DEF OrderInv, OrderShape
  <2> QED BY <2>1 DEF OrderInv, TakenOnce, TakenInOrder, Ordering, OrderSound
<1> QED BY <1>1, OrderInvariance, PTL
=============================================================================
