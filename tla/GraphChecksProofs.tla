------------------------- MODULE GraphChecksProofs -------------------------
(***************************************************************************)
(* For every workflow, of any size, the layers TopologicalSort.sort returns *)
(* are those the executor relies on, and it raises exactly for a cycle; and  *)
(* DAGValidator._find_cycle finds a cycle, and one of the graph, exactly     *)
(* when there is one, so that what validate lets through sort does not raise *)
(* for.                                                                     *)
(***************************************************************************)
EXTENDS GraphChecks, FiniteSetTheorems, SequenceTheorems, WellFoundedInduction, TLAPS

-----------------------------------------------------------------------------
(* What is finite, and how counting off one connection shows. *)

\* Nodes and connections are finite, so in-degrees are numbers.
LEMMA Finite ==
  ASSUME TypeOK
  PROVE  /\ IsFiniteSet(nodes) /\ IsFiniteSet(Edges)
         /\ \A n : IsFiniteSet(Into(n)) /\ IsFiniteSet(Uncounted(n))
<1>1. IsFiniteSet(nodes) /\ IsFiniteSet(Edges)
  BY SortAssumption, FS_Subset DEF SortAssumption, TypeOK, Edges
<1>2. ASSUME NEW n PROVE IsFiniteSet(Into(n)) /\ IsFiniteSet(Uncounted(n))
  <2>1. Into(n) \in SUBSET Edges /\ Uncounted(n) \in SUBSET Edges
    BY DEF Into, Uncounted
  <2> QED
    BY <1>1, <2>1, FS_Subset
<1> QED
  BY <1>1, <1>2

\* Only nodes of the workflow are placed in layers.
LEMMA PlacedInNodes == TypeOK => Placed \subseteq nodes
  BY DEF TypeOK, Placed

\* Appending a layer adds its nodes to those placed.
LEMMA PlacedGrows ==
  ASSUME TypeOK, NEW S \in SUBSET nodes, layers' = Append(layers, S)
  PROVE  /\ Placed' = Placed \cup S
         /\ Len(layers') = Len(layers) + 1 /\ Len(layers) \in Nat
         /\ DOMAIN layers = 1..Len(layers) /\ DOMAIN layers' = 1..(Len(layers) + 1)
         /\ \A i \in DOMAIN layers : layers'[i] = layers[i]
         /\ layers'[Len(layers) + 1] = S
<1>1. /\ Len(layers') = Len(layers) + 1 /\ Len(layers) \in Nat
      /\ DOMAIN layers = 1..Len(layers) /\ DOMAIN layers' = 1..(Len(layers) + 1)
      /\ \A i \in DOMAIN layers : layers'[i] = layers[i]
      /\ layers'[Len(layers) + 1] = S
  BY DEF TypeOK
<1>2. Placed' = Placed \cup S
  BY <1>1 DEF Placed
<1> QED
  BY <1>1, <1>2

-----------------------------------------------------------------------------
(* The invariant. *)

\* Before the degrees are counted nothing is placed.
LEMMA InitSort == Init => SortInv
<1> SUFFICES ASSUME Init PROVE SortInv
  OBVIOUS
<1>1. TypeOK
  BY DEF Init, TypeOK, Edges
<1>2. Placed = {} /\ DOMAIN layers = {}
  BY DEF Init, Placed
<1> QED
  BY <1>1, <1>2 DEF Init, SortInv, Degrees, LayersSoFar, CyclesStayOut

\* Counting the connections gives each node its in-degree.
LEMMA BuildStep == SortInv /\ Build => SortInv'
<1> SUFFICES ASSUME SortInv, Build PROVE SortInv'
  OBVIOUS
<1> USE DEF SortInv
<1>1. /\ Edges' = Edges /\ Placed' = Placed /\ \A n : Into(n)' = Into(n)
      /\ Placed = {} /\ todo = {} /\ DOMAIN layers = {}
  BY DEF Build, graph, Edges, Into, Placed
<1>2. \A n \in nodes : Cardinality(Into(n)) \in Nat
  BY Finite, FS_CardinalityType
<1>3. TypeOK'
  BY <1>1, <1>2 DEF Build, graph, TypeOK
<1>4. \A n \in nodes : Uncounted(n)' = Into(n)
  BY <1>1 DEF Uncounted, Build, graph
<1>5. Degrees'
  BY <1>1, <1>4 DEF Degrees, Ready, Build, graph
<1>6. LayersSoFar' /\ CyclesStayOut'
  BY <1>1 DEF LayersSoFar, CyclesStayOut, Build, graph
<1> QED
  BY <1>1, <1>3, <1>5, <1>6 DEF Build, graph

\* A frontier becomes a layer: its nodes have no connection from outside.
LEMMA TakeLayerStep == SortInv /\ TakeLayer => SortInv'
<1> SUFFICES ASSUME SortInv, TakeLayer PROVE SortInv'
  OBVIOUS
<1> USE DEF SortInv
<1>1. /\ Edges' = Edges /\ \A n : Into(n)' = Into(n)
      /\ nodes' = nodes /\ source' = source /\ target' = target
  BY DEF TakeLayer, graph, Edges, Into
<1>2. /\ frontier \in SUBSET nodes /\ todo = {}
      /\ frontier = {n \in nodes \ Placed : in_degree[n] = 0}
  BY DEF TakeLayer, TypeOK, Degrees, Ready
<1>3. /\ Placed' = Placed \cup frontier
      /\ Len(layers) \in Nat
      /\ DOMAIN layers = 1..Len(layers) /\ DOMAIN layers' = 1..(Len(layers) + 1)
      /\ \A i \in DOMAIN layers : layers'[i] = layers[i]
      /\ layers'[Len(layers) + 1] = frontier
  BY <1>2, PlacedGrows DEF TakeLayer
<1>4. TypeOK'
  BY <1>1, <1>2, <1>3 DEF TakeLayer, TypeOK
\* All connections into a frontier node are counted off: they come from layers.
<1>5. \A n \in frontier : Uncounted(n) = {}
  BY <1>2, Finite, FS_EmptySet DEF TakeLayer, Degrees
<1>6. \A n \in frontier : \A c \in Into(n) : source[c] \in Placed
  BY <1>5 DEF Uncounted
\* The connections out of the new layer are those that are now to be counted.
<1>7. \A n \in nodes : Uncounted(n)' = Uncounted(n)
  <2>1. todo' = {c \in Edges : source[c] \in frontier}
    BY DEF TakeLayer
  <2>2. \A n \in nodes : \A c \in Into(n) :
          (source[c] \notin Placed \/ c \in todo)
            <=> (source[c] \notin Placed' \/ c \in todo')
    BY <1>2, <1>3, <2>1 DEF Into
  <2> QED
    BY <1>1, <2>2 DEF Uncounted
<1>8. Degrees'
  <2>1. \A n \in nodes : in_degree'[n] = Cardinality(Uncounted(n)')
    BY <1>7 DEF TakeLayer, Degrees
  <2>2. {n \in nodes \ Placed' : in_degree[n] = 0} = {}
    BY <1>2, <1>3
  <2> QED
    BY <1>1, <2>1, <2>2 DEF TakeLayer, Degrees, Ready
<1>9. \A c \in todo' : source[c] \in Placed' /\ target[c] \notin Placed'
  <2> SUFFICES ASSUME NEW c \in todo' PROVE source[c] \in Placed' /\ target[c] \notin Placed'
    OBVIOUS
  <2>1. c \in Edges /\ source[c] \in frontier
    BY DEF TakeLayer
  <2>2. c \in Into(target[c])
    BY <2>1 DEF Into
  <2>3. target[c] \notin frontier
    BY <1>2, <1>6, <2>1, <2>2
  <2>4. target[c] \notin Placed
    <3>1. SUFFICES ASSUME NEW i \in DOMAIN layers, target[c] \in layers[i] PROVE FALSE
      BY DEF Placed
    <3>2. PICK j \in DOMAIN layers : source[c] \in layers[j]
      BY <2>2, <3>1 DEF LayersSoFar
    <3> QED
      BY <1>2, <2>1, <3>2 DEF Placed
  <2> QED
    BY <1>3, <2>1, <2>3, <2>4
<1>10. LayersSoFar'
  <2> SUFFICES ASSUME NEW i \in DOMAIN layers'
      PROVE /\ layers'[i] # {}
            /\ \A j \in DOMAIN layers' : i # j => layers'[i] \cap layers'[j] = {}
            /\ \A n \in layers'[i] : \A c \in Into(n) :
                 \E j \in DOMAIN layers' : j < i /\ source[c] \in layers'[j]
    BY <1>1 DEF LayersSoFar
  <2>1. \A j \in DOMAIN layers : layers[j] \cap frontier = {}
    BY <1>2 DEF Placed
  <2>2. layers'[i] # {} /\ \A j \in DOMAIN layers' : i # j => layers'[i] \cap layers'[j] = {}
    BY <1>3, <2>1 DEF LayersSoFar, TakeLayer
  <2>3. CASE i \in DOMAIN layers
    BY <1>3, <2>2, <2>3 DEF LayersSoFar
  <2>4. CASE i = Len(layers) + 1
    <3>1. ASSUME NEW n \in frontier, NEW c \in Into(n)
          PROVE  \E j \in DOMAIN layers' : j < i /\ source[c] \in layers'[j]
      <4>1. PICK j \in DOMAIN layers : source[c] \in layers[j]
        BY <1>6, <3>1 DEF Placed
      <4> QED
        BY <1>3, <2>4, <4>1
    <3> QED
      BY <1>3, <2>2, <2>4, <3>1
  <2> QED
    BY <1>3, <2>3, <2>4
<1>11. CyclesStayOut'
  <2> SUFFICES ASSUME NEW S \in SUBSET nodes, \A n \in S : \E c \in Into(n) : source[c] \in S
               PROVE  S \cap Placed' = {}
    BY <1>1 DEF CyclesStayOut
  <2>1. S \cap Placed = {}
    BY DEF CyclesStayOut
  <2> QED
    BY <1>3, <1>6, <2>1
<1> QED
  BY <1>1, <1>4, <1>8, <1>9, <1>10, <1>11 DEF TakeLayer

\* Counting off a connection keeps in-degrees what is left to count.
LEMMA CountStep == ASSUME SortInv, NEW c \in Conn, Count(c) PROVE SortInv'
<1> USE DEF SortInv
<1>1. /\ Edges' = Edges /\ Placed' = Placed /\ \A n : Into(n)' = Into(n)
      /\ nodes' = nodes /\ source' = source /\ target' = target
  BY DEF Count, graph, Edges, Into, Placed
<1> DEFINE t == target[c]
<1>2. /\ c \in todo /\ c \in Edges /\ t \in nodes /\ t \notin Placed
      /\ source[c] \in Placed /\ c \in Into(t)
  BY DEF Count, TypeOK, Edges, Into
<1>3. \A n \in nodes : Uncounted(n)' = IF n = t THEN Uncounted(n) \ {c} ELSE Uncounted(n)
  BY <1>1, <1>2 DEF Uncounted, Into, Count
<1>4. c \in Uncounted(t)
  BY <1>2 DEF Uncounted
<1>5. Cardinality(Uncounted(t) \ {c}) = Cardinality(Uncounted(t)) - 1
  BY <1>4, Finite, FS_RemoveElement
<1>6. /\ in_degree \in [nodes -> Nat] /\ in_degree[t] = Cardinality(Uncounted(t))
      /\ in_degree[t] # 0
  BY <1>2, <1>4, Finite, FS_EmptySet DEF TypeOK, Degrees, Count
<1>7. /\ in_degree' \in [nodes -> Nat]
      /\ \A n \in nodes : in_degree'[n] = IF n = t THEN in_degree[n] - 1 ELSE in_degree[n]
  BY <1>2, <1>6 DEF Count
<1>8. \A n \in nodes : in_degree'[n] = Cardinality(Uncounted(n)')
  BY <1>2, <1>3, <1>5, <1>7 DEF Degrees, Count
<1>9. Ready' = {n \in nodes \ Placed : in_degree'[n] = 0}
  <2>1. upcoming = {n \in nodes \ Placed : in_degree[n] = 0}
    BY DEF Degrees, Ready, Count
  <2>2. upcoming' = IF in_degree'[t] = 0 THEN upcoming \cup {t} ELSE upcoming
    BY DEF Count
  <2> QED
    BY <1>2, <1>6, <1>7, <2>1, <2>2 DEF Ready, Count
<1>10. TypeOK'
  BY <1>1, <1>2, <1>7 DEF TypeOK, Count
<1>11. Degrees'
  BY <1>1, <1>8, <1>9 DEF Degrees
<1>12. LayersSoFar' /\ CyclesStayOut'
  BY <1>1 DEF LayersSoFar, CyclesStayOut, Count
<1> QED
  BY <1>1, <1>10, <1>11, <1>12 DEF Count

\* When all of a layer's connections are counted off, degrees are in step.
LEMMA NextFrontierStep == SortInv /\ NextFrontier => SortInv'
<1> SUFFICES ASSUME SortInv, NextFrontier PROVE SortInv'
  OBVIOUS
<1>1. /\ Edges' = Edges /\ Placed' = Placed /\ \A n : Into(n)' = Into(n)
      /\ \A n : Uncounted(n)' = Uncounted(n)
  BY DEF NextFrontier, graph, Edges, Into, Placed, Uncounted
<1>2. TypeOK'
  BY <1>1 DEF SortInv, NextFrontier, graph, TypeOK
<1>3. Degrees'
  BY <1>1 DEF SortInv, Degrees, Ready, NextFrontier, graph
<1>4. LayersSoFar' /\ CyclesStayOut'
  BY <1>1 DEF SortInv, LayersSoFar, CyclesStayOut, NextFrontier, graph
<1> QED
  BY <1>1, <1>2, <1>3, <1>4 DEF SortInv, NextFrontier, graph

\* sort returns or raises on what the walk has left.
LEMMA ReturnStep == SortInv /\ Return => SortInv'
<1> SUFFICES ASSUME SortInv, Return PROVE SortInv'
  OBVIOUS
<1>1. /\ Edges' = Edges /\ Placed' = Placed /\ \A n : Into(n)' = Into(n)
      /\ \A n : Uncounted(n)' = Uncounted(n)
  BY DEF Return, graph, Edges, Into, Placed, Uncounted
<1>2. TypeOK'
  BY <1>1 DEF SortInv, Return, graph, TypeOK
<1>3. Degrees'
  BY <1>1 DEF SortInv, Degrees, Ready, Return, graph
<1>4. LayersSoFar' /\ CyclesStayOut'
  BY <1>1 DEF SortInv, LayersSoFar, CyclesStayOut, Return, graph
<1>5. /\ Placed \in SUBSET nodes /\ IsFiniteSet(nodes)
      /\ Cardinality(Placed) \in Nat /\ Cardinality(nodes) \in Nat
      /\ Cardinality(Placed) <= Cardinality(nodes)
      /\ Cardinality(nodes) = Cardinality(Placed) => nodes = Placed
  BY PlacedInNodes, Finite, FS_Subset, FS_CardinalityType DEF SortInv
<1>6. pc' = "sorted" => Placed = nodes
  BY <1>5 DEF Return
<1>7. pc' = "cyclic" => frontier = {} /\ Placed # nodes
  BY <1>5 DEF Return
<1> QED
  BY <1>1, <1>2, <1>3, <1>4, <1>6, <1>7 DEF SortInv, Return, graph

\* The inductive step: each action of the sort preserves the invariant.
LEMMA NextSort == SortInv /\ [Next]_vars => SortInv'
<1> SUFFICES ASSUME SortInv, [Next]_vars PROVE SortInv'
  OBVIOUS
<1>1. CASE UNCHANGED vars
  <2>1. /\ Edges' = Edges /\ Placed' = Placed /\ \A n : Into(n)' = Into(n)
        /\ \A n : Uncounted(n)' = Uncounted(n)
    BY <1>1 DEF vars, graph, Edges, Into, Placed, Uncounted
  <2>2. TypeOK'
    BY <1>1, <2>1 DEF vars, graph, SortInv, TypeOK
  <2>3. Degrees'
    BY <1>1, <2>1 DEF vars, graph, SortInv, Degrees, Ready
  <2>4. LayersSoFar' /\ CyclesStayOut'
    BY <1>1, <2>1 DEF vars, graph, SortInv, LayersSoFar, CyclesStayOut
  <2> QED
    BY <1>1, <2>1, <2>2, <2>3, <2>4 DEF vars, graph, SortInv
<1>2. ASSUME NEW c \in Conn, Count(c) PROVE SortInv'
  BY <1>2, CountStep
<1>3. CASE Build \/ TakeLayer \/ NextFrontier \/ Return
  BY <1>3, BuildStep, TakeLayerStep, NextFrontierStep, ReturnStep
<1> QED
  BY <1>1, <1>2, <1>3 DEF Next

\* The sort keeps its invariant, whatever the workflow.
THEOREM SortInvariant == Spec => []SortInv
  BY InitSort, NextSort, PTL DEF Spec

-----------------------------------------------------------------------------
(* What it means for those who call sort. *)

\* In the workflow that is sorted, sources are where connections come from.
LEMMA SortedSources ==
  ASSUME TypeOK, NEW n \in nodes
  PROVE  Sources(Sorted, n) = {source[c] : c \in Into(n)}
  BY DEF TypeOK, Sources, Sorted, Into, Edges

\* The layer a node is given is the one it is in.
LEMMA SortedLayer ==
  ASSUME SortInv, NEW i \in DOMAIN layers, NEW n \in layers[i]
  PROVE  Sorted.layer[n] = i - 1
<1>1. n \in Id /\ n \in Placed
  BY DEF SortInv, TypeOK, Placed
<1>2. \A j \in DOMAIN layers : n \in layers[j] => j = i
  BY DEF SortInv, LayersSoFar
<1>3. (CHOOSE j \in DOMAIN layers : n \in layers[j]) = i
  BY <1>2
<1> QED
  BY <1>1, <1>3 DEF Sorted

\* Each node is in one layer, after its sources, with no empty layer between.
LEMMA RightLayers == SortInv => LayersAreRight
<1> SUFFICES ASSUME SortInv, pc = "sorted"
    PROVE /\ Placed = nodes
          /\ \A i, j \in DOMAIN layers : i # j => layers[i] \cap layers[j] = {}
          /\ Layered(Sorted)
  BY DEF LayersAreRight
<1>1. Placed = nodes /\ TypeOK
  BY DEF SortInv
<1>2. Len(layers) \in Nat /\ DOMAIN layers = 1..Len(layers)
  BY <1>1 DEF TypeOK
<1>3. ASSUME NEW n \in nodes
      PROVE /\ \A d \in Sources(Sorted, n) : Sorted.layer[d] < Sorted.layer[n]
            /\ \A k \in 0..Sorted.layer[n] : \E m \in nodes : Sorted.layer[m] = k
  <2>1. PICK i \in DOMAIN layers : n \in layers[i]
    BY <1>1, <1>3 DEF Placed
  <2>2. Sorted.layer[n] = i - 1
    BY <2>1, SortedLayer
  <2>3. ASSUME NEW d \in Sources(Sorted, n) PROVE Sorted.layer[d] < Sorted.layer[n]
    <3>1. PICK c \in Into(n) : d = source[c]
      BY <1>1, <2>3, SortedSources
    <3>2. PICK j \in DOMAIN layers : j < i /\ d \in layers[j]
      BY <2>1, <3>1 DEF SortInv, LayersSoFar
    <3>3. Sorted.layer[d] = j - 1
      BY <3>2, SortedLayer
    <3> QED
      BY <1>2, <2>2, <3>2, <3>3
  <2>4. ASSUME NEW k \in 0..Sorted.layer[n] PROVE \E m \in nodes : Sorted.layer[m] = k
    <3>1. k + 1 \in DOMAIN layers
      BY <1>2, <2>2, <2>4
    <3>2. PICK m : m \in layers[k + 1]
      BY <3>1 DEF SortInv, LayersSoFar
    <3>3. Sorted.layer[m] = (k + 1) - 1
      BY <3>1, <3>2, SortedLayer
    <3>4. m \in nodes
      BY <1>1, <3>1, <3>2 DEF Placed
    <3> QED
      BY <1>2, <2>2, <2>4, <3>3, <3>4
  <2> QED
    BY <2>3, <2>4
<1>4. Layered(Sorted)
  BY <1>3 DEF Layered, Sorted
<1> QED
  BY <1>1, <1>4 DEF SortInv, LayersSoFar

\* A node left over has a source left over; a placed set has a first layer.
LEMMA RaisesOnCycles == SortInv => RaisesIffCyclic
<1> SUFFICES ASSUME SortInv PROVE RaisesIffCyclic
  OBVIOUS
<1> USE DEF SortInv
<1>1. Sorted.nodes = nodes
  BY DEF Sorted
<1>2. ASSUME pc = "sorted" PROVE Acyclic(Sorted)
  <2> SUFFICES ASSUME NEW S \in SUBSET nodes, S # {}, \A n \in S : Sources(Sorted, n) \cap S # {}
               PROVE  FALSE
    BY <1>1 DEF Acyclic
  <2>1. \A n \in S : \E c \in Into(n) : source[c] \in S
    BY SortedSources
  <2>2. S \cap Placed = {}
    BY <2>1 DEF CyclesStayOut
  <2> QED
    BY <1>2, <2>2
<1>3. ASSUME pc = "cyclic" PROVE ~Acyclic(Sorted)
  <2> DEFINE S == nodes \ Placed
  <2>1. S \in SUBSET nodes /\ S # {}
    BY <1>3, PlacedInNodes
  <2>2. ASSUME NEW n \in S PROVE Sources(Sorted, n) \cap S # {}
    <3>1. in_degree[n] # 0
      BY <1>3, <2>2 DEF Degrees, Ready
    <3>2. Uncounted(n) # {}
      BY <1>3, <3>1, FS_EmptySet DEF Degrees
    <3>3. PICK c \in Into(n) : source[c] \notin Placed
      BY <1>3, <3>2 DEF Uncounted
    <3> QED
      BY <3>3, SortedSources DEF Into, Edges
  <2> QED
    BY <1>1, <2>1, <2>2 DEF Acyclic
<1> QED
  BY <1>2, <1>3 DEF RaisesIffCyclic

\* sort returns layers the executor may rely on: those DAGEngine assumes.
THEOREM LayersAreRightHolds == Spec => []LayersAreRight
  BY SortInvariant, RightLayers, PTL

\* sort raises exactly when the connections close a cycle.
THEOREM RaisesIffCyclicHolds == Spec => []RaisesIffCyclic
  BY SortInvariant, RaisesOnCycles, PTL

\* No node enters a frontier twice.
THEOREM OncePerFrontierHolds == Spec => OncePerFrontier
<1>1. ASSUME SortInv, Next, NEW n \in nodes, in_degree[n] > 0, in_degree'[n] = 0
      PROVE  n \notin upcoming \cup Placed
  <2>1. CASE Build
    BY <1>1, <2>1 DEF Build, SortInv, Placed, TypeOK
  <2>2. ASSUME NEW c \in Conn, Count(c) PROVE n \notin upcoming \cup Placed
    <3>1. n = target[c]
      BY <1>1, <2>2 DEF Count, SortInv, TypeOK
    <3> QED
      BY <1>1, <2>2, <3>1 DEF Count, SortInv, Degrees, Ready
  <2>3. CASE TakeLayer \/ NextFrontier \/ Return
    BY <1>1, <2>3 DEF TakeLayer, NextFrontier, Return
  <2> QED
    BY <1>1, <2>1, <2>2, <2>3 DEF Next
<1>2. SortInv /\ [Next]_vars =>
        [\A n \in nodes : in_degree[n] > 0 /\ in_degree'[n] = 0 => n \notin upcoming \cup Placed]_vars
  BY <1>1
<1> QED
  BY SortInvariant, <1>2, PTL DEF Spec, OncePerFrontier

-----------------------------------------------------------------------------
(* The search for a cycle: reading a cycle off the parents. *)

\* A set of numbers that is not empty has a least one.
LEMMA LeastNumber ==
  ASSUME NEW S \in SUBSET Nat, S # {}
  PROVE  \E m \in S : \A k \in S : m <= k
<1>1. PICK n \in S : TRUE
  OBVIOUS
<1> DEFINE T == {1..i : i \in {j \in S : j <= n}}
<1>2. T \subseteq FiniteSubsetsOf(1..n)
  <2>1. \A i \in {j \in S : j <= n} : 1..i \subseteq 1..n
    OBVIOUS
  <2>2. IsFiniteSet(1..n)
    BY FS_Interval
  <2> QED
    BY <2>1, <2>2, FS_FiniteSubsetsOfFinite
<1>3. T # {}
  OBVIOUS
<1>4. IsWellFoundedOn(StrictSubsetOrdering(1..n), FiniteSubsetsOf(1..n))
  BY FS_StrictSubsetOrderingWellFounded
<1> HIDE DEF T
<1>5. PICK x \in T : \A y \in T : ~ (<<y, x>> \in StrictSubsetOrdering(1..n))
  BY <1>2, <1>3, <1>4, WFMin
<1>6. PICK m \in S : m <= n /\ x = 1..m
  BY <1>5 DEF T
<1>7. ASSUME NEW k \in S, k < m PROVE FALSE
  <2>1. 1..k \in T
    BY <1>6, <1>7 DEF T
  <2>2. 1..k \subseteq 1..m /\ m \in 1..m /\ m \notin 1..k /\ 1..m \subseteq 1..n
    BY <1>6, <1>7
  <2>3. <<1..k, 1..m>> \in StrictSubsetOrdering(1..n)
    BY <2>2 DEF StrictSubsetOrdering
  <2> QED
    BY <1>5, <1>6, <2>1, <2>3
<1> QED
  BY <1>7

\* A sequence of one element is that element.
LEMMA LoneElement ==
  ASSUME NEW S, NEW x \in S, NEW s \in Seq(S), Len(s) = 1, s[1] = x
  PROVE  s = <<x>>
<1>1. <<x>> \in Seq(S) /\ Len(<<x>>) = 1
  OBVIOUS
<1>2. \A i \in 1..Len(s) : s[i] = <<x>>[i]
  OBVIOUS
<1> QED
  BY <1>1, <1>2, SeqEqual, Zenon

\* A sequence without its last element.
LEMMA Popped ==
  ASSUME NEW S, NEW s \in Seq(S), s # <<>>
  PROVE  SubSeq(s, 1, Len(s) - 1) \in Seq(S) /\ Len(SubSeq(s, 1, Len(s) - 1)) = Len(s) - 1
<1>1. /\ Len(s) \in Nat /\ Len(s) >= 1 /\ Len(s) - 1 \in Int /\ 1 \in Int
      /\ \A i \in 1..(Len(s) - 1) : s[i] \in S
  OBVIOUS
<1>2. /\ SubSeq(s, 1, Len(s) - 1) \in Seq(S)
      /\ Len(SubSeq(s, 1, Len(s) - 1)) = IF 1 <= Len(s) - 1 THEN (Len(s) - 1) - 1 + 1 ELSE 0
  BY <1>1, SubSeqProperties
<1>3. CASE Len(s) = 1
  BY <1>2, <1>3
<1>4. CASE Len(s) > 1
  BY <1>1, <1>2, <1>4
<1>5. Len(s) = 1 \/ Len(s) > 1
  <2>1. \A n \in Nat : n >= 1 => n = 1 \/ n > 1
    OBVIOUS
  <2> QED
    BY <1>1, <2>1, Zenon
<1> QED
  BY <1>3, <1>4, <1>5

\* The chains of parents Back reads: f has for each node of N the chain to it from "to".
Chains(f, to, N, up) ==
  \A m \in N : f[m] = IF m = to \/ up[m] = None THEN <<m>> ELSE Append(f[up[m]], m)

\* Parents do not go round in circles: there are such chains.
EndsUp(N, up) == \A to \in N : \E f \in [N -> Seq(N)] : Chains(f, to, N, up)
ParentsEnd == EndsUp(nodes, parent)

\* The chain to a node on the stack from one below it is the stack between the two.
LEMMA ChainsAreStack ==
  ASSUME Search!SearchTypeOK, Search!StackIsGray, Search!StackIsPath,
         NEW f, NEW b \in 1..Len(stack), Chains(f, stack[b], nodes, parent), NEW e \in b..Len(stack)
  PROVE  f[stack[e]] = SubSeq(stack, b, e)
<1> DEFINE Bad == {k \in b..Len(stack) : f[stack[k]] # SubSeq(stack, b, k)}
<1>1. /\ stack \in Seq(nodes) /\ Len(stack) \in Nat
      /\ \A k \in 1..Len(stack) : stack[k] \in nodes
  BY DEF Search!SearchTypeOK
<1>2. SUFFICES ASSUME Bad # {} PROVE FALSE
  BY <1>1
<1>3. Bad \in SUBSET Nat
  BY <1>1
<1>4. PICK k \in Bad : \A j \in Bad : k <= j
  BY <1>2, <1>3, LeastNumber
<1>5. k \in b..Len(stack) /\ k \in 1..Len(stack) /\ f[stack[k]] # SubSeq(stack, b, k)
  BY <1>1, <1>4
<1>6. f[stack[k]] = IF stack[k] = stack[b] \/ parent[stack[k]] = None THEN <<stack[k]>>
                    ELSE Append(f[parent[stack[k]]], stack[k])
  BY <1>1, <1>5, Zenon DEF Chains
<1>7. CASE k = b
  <2>1. SubSeq(stack, b, b) = <<stack[b]>>
    <3>1. SubSeq(stack, b, b) \in Seq(nodes) /\ Len(SubSeq(stack, b, b)) = 1
      BY <1>1
    <3>2. SubSeq(stack, b, b)[1] = stack[b]
      BY <1>1
    <3> QED
      BY <1>1, <3>1, <3>2, LoneElement
  <2> QED
    BY <1>5, <1>6, <1>7, <2>1
<1>8. CASE k # b
  <2>1. k - 1 \in b..Len(stack) /\ k - 1 \in 1..Len(stack) /\ k = (k - 1) + 1
    BY <1>1, <1>5, <1>8
  <2>2. parent[stack[k]] = stack[k - 1]
    BY <1>5, <2>1 DEF Search!StackIsPath
  <2>3. stack[k] # stack[b]
    BY <1>5, <1>8 DEF Search!StackIsGray
  <2>4. stack[k - 1] # None
    BY <1>1, <2>1, NoneAssumption DEF Search!SearchTypeOK
  <2>5. f[stack[k]] = Append(f[stack[k - 1]], stack[k])
    BY <1>6, <2>2, <2>3, <2>4
  <2>6. f[stack[k - 1]] = SubSeq(stack, b, k - 1)
    <3>1. k - 1 \notin Bad
      BY <1>4, <1>5
    <3> QED
      BY <2>1, <3>1
  <2>7. Append(SubSeq(stack, b, k - 1), stack[k]) = SubSeq(stack, b, k)
    BY <1>1, <1>5, <2>1
  <2> QED
    BY <1>5, <2>5, <2>6, <2>7
<1> QED
  BY <1>7, <1>8

\* Back reads the part of the stack from the node the connection leads to.
LEMMA BackIsStack ==
  ASSUME Search!SearchTypeOK, Search!StackIsGray, Search!StackIsPath, ParentsEnd,
         NEW b \in 1..Len(stack)
  PROVE  Search!Back(stack[Len(stack)], stack[b]) = SubSeq(stack, b, Len(stack))
<1> DEFINE links(f) == [m \in nodes |-> IF m = stack[b] \/ parent[m] = None THEN <<m>>
                                        ELSE Append(f[parent[m]], m)]
           chain == CHOOSE f : f = links(f)
<1>1. stack \in Seq(nodes) /\ stack[b] \in nodes /\ Len(stack) \in b..Len(stack)
  BY DEF Search!SearchTypeOK
<1>2. PICK f \in [nodes -> Seq(nodes)] : Chains(f, stack[b], nodes, parent)
  BY <1>1 DEF ParentsEnd, EndsUp
<1>3. f = links(f)
  BY <1>2 DEF Chains
<1>4. Search!Back(stack[Len(stack)], stack[b]) = chain[stack[Len(stack)]]
  BY DEF Search!Back
<1> HIDE DEF chain
<1>5. chain = links(chain)
  BY <1>3, Zenon DEF chain
<1>6. Chains(chain, stack[b], nodes, parent)
  BY <1>5, Zenon DEF Chains
<1> QED
  BY <1>1, <1>4, <1>6, ChainsAreStack

-----------------------------------------------------------------------------
(* The search for a cycle: its invariant. *)

\* Before the search nothing is coloured and no node has a parent.
LEMMA SearchStart == Search!Init => Search!SearchInv /\ ParentsEnd
<1> SUFFICES ASSUME Search!Init PROVE Search!SearchInv /\ ParentsEnd
  OBVIOUS
<1> USE DEF Search!Init
<1>1. Search!SearchTypeOK /\ Len(stack) = 0
  BY DEF Search!SearchTypeOK
<1>2. Search!LooksAtItsOwn /\ Search!StackIsGray /\ Search!StackIsPath
  BY <1>1 DEF Search!LooksAtItsOwn, Search!StackIsGray, Search!StackIsPath
<1>3. Search!WhiteIsNew /\ Search!LookedAt /\ Search!BlackIsAcyclic /\ Search!CycleIsReal
  BY NoneAssumption DEF Search!WhiteIsNew, Search!LookedAt, Search!BlackIsAcyclic, Search!CycleIsReal
<1>4. ParentsEnd
  <2> SUFFICES ASSUME NEW to \in nodes PROVE \E f \in [nodes -> Seq(nodes)] : Chains(f, to, nodes, parent)
    BY DEF ParentsEnd, EndsUp
  <2> DEFINE f == [m \in nodes |-> <<m>>]
  <2>1. f \in [nodes -> Seq(nodes)]
    OBVIOUS
  <2>2. Chains(f, to, nodes, parent)
    BY DEF Chains
  <2> QED
    BY <2>1, <2>2
<1> QED
  BY <1>1, <1>2, <1>3, <1>4 DEF Search!SearchInv

\* While the search goes on: all of the invariant but what it has found.
SearchGoesOn ==
  /\ Search!SearchTypeOK /\ Search!LooksAtItsOwn /\ Search!StackIsGray /\ Search!StackIsPath
  /\ Search!WhiteIsNew /\ Search!LookedAt /\ Search!BlackIsAcyclic /\ ParentsEnd

\* A call for a node not seen yet, whoever makes it: the new node is on top of the stack, has
\* all its connections to look at, and is the only one whose parent changes.
LEMMA VisitKeeps ==
  ASSUME SearchGoesOn, NEW n \in nodes, color[n] = "white", Search!Visit(n), search' = "search",
         UNCHANGED graph, UNCHANGED cycle,
         left' \in [nodes -> SUBSET Conn], \A m \in nodes : left'[m] \subseteq Search!OutOf(m),
         left'[n] = Search!OutOf(n),
         parent' \in [nodes -> nodes \cup {None}], \A m \in nodes \ {n} : parent'[m] = parent[m],
         stack = <<>> => parent'[n] = None,
         stack # <<>> => /\ parent'[n] = Search!Top
                         /\ \E c \in Conn : source[c] = Search!Top /\ target[c] = n,
         \A c \in Conn : source[c] \in nodes /\ c \in left[source[c]] /\ c \notin left'[source[c]]
            => stack # <<>> /\ source[c] = Search!Top /\ target[c] = n
  PROVE  SearchGoesOn'
<1> USE DEF SearchGoesOn, graph
<1>1. /\ stack \in Seq(nodes) /\ Len(stack) \in Nat
      /\ \A k \in 1..Len(stack) : stack[k] \in nodes /\ color[stack[k]] = "gray" /\ stack[k] # n
      /\ stack # <<>> => Len(stack) \in 1..Len(stack) /\ Search!Top = stack[Len(stack)]
  BY DEF Search!SearchTypeOK, Search!StackIsGray, Search!Top
<1>2. /\ stack' \in Seq(nodes) /\ Len(stack') = Len(stack) + 1
      /\ \A k \in 1..Len(stack) : stack'[k] = stack[k]
      /\ stack'[Len(stack) + 1] = n
  BY <1>1 DEF Search!Visit
<1>3. /\ color' \in [nodes -> {"white", "gray", "black"}] /\ color'[n] = "gray"
      /\ \A m \in nodes \ {n} : color'[m] = color[m]
  BY DEF Search!Visit, Search!SearchTypeOK
<1>4. Search!SearchTypeOK' /\ Search!LooksAtItsOwn'
  BY <1>2, <1>3 DEF Search!SearchTypeOK, Search!LooksAtItsOwn, Search!OutOf
<1>5. Search!StackIsGray'
  <2>1. ASSUME NEW m \in nodes
        PROVE  color'[m] = "gray" <=> \E i \in 1..Len(stack') : stack'[i] = m
    <3>1. CASE m = n
      BY <1>1, <1>2, <1>3, <3>1
    <3>2. CASE m # n
      BY <1>1, <1>2, <1>3, <3>2 DEF Search!StackIsGray
    <3> QED
      BY <3>1, <3>2
  <2>2. \A i, j \in 1..Len(stack') : stack'[i] = stack'[j] => i = j
    BY <1>1, <1>2 DEF Search!StackIsGray
  <2> QED
    BY <2>1, <2>2 DEF Search!StackIsGray
<1>6. Search!StackIsPath'
  <2>1. parent'[stack'[1]] = None
    BY <1>1, <1>2 DEF Search!StackIsPath
  <2>2. ASSUME NEW i \in 1..Len(stack'), NEW j \in 1..Len(stack'), j = i + 1
        PROVE  /\ parent'[stack'[j]] = stack'[i]
               /\ \E c \in Conn : source[c] = stack'[i] /\ target[c] = stack'[j]
    <3>1. CASE j = Len(stack) + 1
      BY <1>1, <1>2, <2>2, <3>1
    <3>2. CASE j # Len(stack) + 1
      <4>1. i \in 1..Len(stack) /\ j \in 1..Len(stack)
        BY <1>1, <1>2, <2>2, <3>2
      <4> QED
        BY <1>1, <1>2, <2>2, <4>1 DEF Search!StackIsPath
    <3> QED
      BY <3>1, <3>2
  <2> QED
    BY <2>1, <2>2 DEF Search!StackIsPath
<1>7. Search!WhiteIsNew'
  <2> SUFFICES ASSUME NEW m \in nodes, color'[m] = "white"
               PROVE  parent'[m] = None /\ \A k \in nodes : parent'[k] # m
    BY DEF Search!WhiteIsNew
  <2>1. m # n /\ color[m] = "white" /\ m # None
    BY <1>3, NoneAssumption DEF Search!SearchTypeOK
  <2>2. parent'[n] # m
    BY <1>1, <2>1
  <2> QED
    BY <2>1, <2>2 DEF Search!WhiteIsNew
<1>8. Search!LookedAt'
  <2> SUFFICES ASSUME NEW c \in Conn, source[c] \in nodes, target[c] \in nodes
               PROVE  /\ color'[source[c]] = "black" => color'[target[c]] = "black"
                      /\ color'[source[c]] = "gray" /\ c \notin left'[source[c]] =>
                           \/ color'[target[c]] = "black"
                           \/ \E i, j \in 1..Len(stack') :
                                 j = i + 1 /\ stack'[i] = source[c] /\ stack'[j] = target[c]
    BY DEF Search!LookedAt
  <2>1. color'[source[c]] = "black" => color'[target[c]] = "black"
    BY <1>3 DEF Search!LookedAt
  <2>2. ASSUME color'[source[c]] = "gray", c \notin left'[source[c]]
        PROVE  \/ color'[target[c]] = "black"
               \/ \E i, j \in 1..Len(stack') :
                     j = i + 1 /\ stack'[i] = source[c] /\ stack'[j] = target[c]
    <3>1. source[c] # n /\ color[source[c]] = "gray"
      BY <1>3, <2>2 DEF Search!OutOf
    <3>2. CASE c \in left[source[c]]
      <4>1. stack # <<>> /\ source[c] = Search!Top /\ target[c] = n
        BY <2>2, <3>2
      <4> QED
        BY <1>1, <1>2, <4>1
    <3>3. CASE c \notin left[source[c]]
      <4>1. CASE color[target[c]] = "black"
        BY <1>3, <4>1
      <4>2. CASE \E i, j \in 1..Len(stack) : j = i + 1 /\ stack[i] = source[c] /\ stack[j] = target[c]
        BY <1>1, <1>2, <4>2
      <4> QED
        BY <3>1, <3>3, <4>1, <4>2 DEF Search!LookedAt
    <3> QED
      BY <3>2, <3>3
  <2> QED
    BY <2>1, <2>2
<1>9. Search!BlackIsAcyclic'
  <2>1. {m \in nodes : color'[m] = "black"} = {m \in nodes : color[m] = "black"}
    BY <1>3
  <2>2. \A S \in SUBSET {m \in nodes : color'[m] = "black"} :
          S # {} => \E m \in S : \A c \in Conn : target[c] = m => source[c] \notin S
    BY <2>1 DEF Search!BlackIsAcyclic
  <2> QED
    BY <2>2, Zenon DEF Search!BlackIsAcyclic
<1>10. ParentsEnd'
  <2>0. nodes' = nodes
    OBVIOUS
  <2> SUFFICES ASSUME NEW to \in nodes
               PROVE  \E f \in [nodes -> Seq(nodes)] : Chains(f, to, nodes, parent')
    BY <2>0 DEF ParentsEnd, EndsUp
  <2>1. PICK f \in [nodes -> Seq(nodes)] : Chains(f, to, nodes, parent)
    BY DEF ParentsEnd, EndsUp
  <2>2. \A m \in nodes : f[m] = IF m = to \/ parent[m] = None THEN <<m>> ELSE Append(f[parent[m]], m)
    BY <2>1, Zenon DEF Chains
  <2> DEFINE end == IF n = to \/ parent'[n] = None THEN <<n>> ELSE Append(f[parent'[n]], n)
             g == [f EXCEPT ![n] = end]
  <2>3. end \in Seq(nodes)
    <3>1. parent'[n] # None => parent'[n] \in nodes
      OBVIOUS
    <3> QED
      BY <3>1
  <2> HIDE DEF end
  <2>4. g \in [nodes -> Seq(nodes)] /\ g[n] = end /\ \A m \in nodes \ {n} : g[m] = f[m]
    BY <2>3
  <2> HIDE DEF g
  <2>5. \A m \in nodes : parent'[m] # n
    BY <1>1, NoneAssumption DEF Search!WhiteIsNew, Search!SearchTypeOK
  <2>6. \A m \in nodes : parent'[m] # None => parent'[m] \in nodes \ {n}
    BY <2>5
  <2>7. ASSUME NEW m \in nodes
        PROVE  g[m] = IF m = to \/ parent'[m] = None THEN <<m>> ELSE Append(g[parent'[m]], m)
    <3>1. CASE m = n
      BY <2>4, <2>6, <3>1 DEF end
    <3>2. CASE m # n
      <4>1. g[m] = f[m] /\ parent'[m] = parent[m]
        BY <2>4, <3>2
      <4>2. parent'[m] # None => g[parent'[m]] = f[parent[m]]
        BY <2>4, <2>6, <4>1
      <4> QED
        BY <2>2, <4>1, <4>2, Zenon
    <3> QED
      BY <3>1, <3>2
  <2>8. Chains(g, to, nodes, parent')
    BY <2>7 DEF Chains
  <2> QED
    BY <2>4, <2>8
<1> QED
  BY <1>4, <1>5, <1>6, <1>7, <1>8, <1>9, <1>10

\* What only colours and parents matter to stands while they do.
LEMMA ColorsStand ==
  ASSUME SearchGoesOn, UNCHANGED graph, UNCHANGED <<color, parent>>
  PROVE  Search!WhiteIsNew' /\ Search!BlackIsAcyclic' /\ ParentsEnd'
<1>1. nodes' = nodes /\ source' = source /\ target' = target /\ color' = color /\ parent' = parent
  BY DEF graph
<1>2. Search!WhiteIsNew'
  BY <1>1 DEF SearchGoesOn, Search!WhiteIsNew
<1>3. Search!BlackIsAcyclic'
  <2>1. \A S \in SUBSET {n \in nodes' : color'[n] = "black"} :
          S # {} => \E n \in S : \A c \in Conn : target'[c] = n => source'[c] \notin S
    BY <1>1, Zenon DEF SearchGoesOn, Search!BlackIsAcyclic
  <2> QED
    BY <2>1, Zenon DEF Search!BlackIsAcyclic
<1>4. ParentsEnd'
  BY <1>1 DEF SearchGoesOn, ParentsEnd
<1> QED
  BY <1>2, <1>3, <1>4

\* The loop over all nodes calls for one not seen yet.
LEMMA RootStep ==
  ASSUME SearchGoesOn, NEW n \in nodes, Search!Root(n)
  PROVE  SearchGoesOn' /\ search' = "search"
<1> USE DEF SearchGoesOn, Search!Root
<1>1. parent[n] = None
  BY DEF Search!WhiteIsNew
<1>2. /\ left' \in [nodes -> SUBSET Conn] /\ left'[n] = Search!OutOf(n)
      /\ \A m \in nodes : m # n => left'[m] = left[m]
  BY DEF Search!SearchTypeOK, Search!OutOf
<1>3. \A m \in nodes : left'[m] \subseteq Search!OutOf(m)
  BY <1>2 DEF Search!LooksAtItsOwn
<1>4. \A c \in Conn : source[c] \in nodes /\ c \in left[source[c]] => c \in left'[source[c]]
  BY <1>2 DEF Search!LooksAtItsOwn
<1>5. /\ color[n] = "white" /\ Search!Visit(n) /\ search' = "search" /\ UNCHANGED graph
      /\ parent' \in [nodes -> nodes \cup {None}] /\ parent' = parent /\ stack = <<>>
      /\ UNCHANGED cycle
  BY DEF Search!SearchTypeOK, Search!graph, graph
<1> QED
  BY <1>1, <1>2, <1>3, <1>4, <1>5, VisitKeeps, Zenon

\* The top of the stack.
LEMMA TopOfStack ==
  ASSUME SearchGoesOn, stack # <<>>
  PROVE  /\ Len(stack) \in Nat /\ Len(stack) \in 1..Len(stack) /\ Search!Top = stack[Len(stack)]
         /\ Search!Top \in nodes /\ color[Search!Top] = "gray"
  BY DEF SearchGoesOn, Search!SearchTypeOK, Search!StackIsGray, Search!Top

\* A connection to a node not seen yet: the top of the stack calls for it.
LEMMA DescendStep ==
  ASSUME SearchGoesOn, NEW c \in Conn, Search!Look(c), target[c] \in nodes,
         color[target[c]] = "white"
  PROVE  SearchGoesOn' /\ search' = "search"
<1> DEFINE n == target[c]
<1>1. /\ search = "search" /\ stack # <<>> /\ c \in left[Search!Top] /\ Search!Descend(c)
      /\ left' = [m \in nodes |-> IF m = Search!Top THEN left[m] \ {c}
                                  ELSE IF m = n /\ color[m] = "white" THEN Search!OutOf(m)
                                  ELSE left[m]]
      /\ UNCHANGED graph
  BY DEF Search!Look, Search!graph, graph
<1>2. /\ Search!Top \in nodes /\ color[Search!Top] = "gray" /\ Search!Top # n
      /\ source[c] = Search!Top
  BY <1>1, TopOfStack DEF SearchGoesOn, Search!LooksAtItsOwn, Search!OutOf
<1>3. /\ left' \in [nodes -> SUBSET Conn] /\ left'[n] = Search!OutOf(n)
      /\ left'[Search!Top] = left[Search!Top] \ {c}
      /\ \A m \in nodes : m # n /\ m # Search!Top => left'[m] = left[m]
  BY <1>1, <1>2 DEF SearchGoesOn, Search!SearchTypeOK, Search!OutOf
<1>4. \A m \in nodes : left'[m] \subseteq Search!OutOf(m)
  BY <1>3 DEF SearchGoesOn, Search!LooksAtItsOwn
<1>5. \A d \in Conn : source[d] \in nodes /\ d \in left[source[d]] /\ d \notin left'[source[d]] => d = c
  BY <1>3 DEF SearchGoesOn, Search!LooksAtItsOwn
<1>6. /\ Search!Visit(n) /\ search' = "search" /\ UNCHANGED cycle
      /\ parent' \in [nodes -> nodes \cup {None}] /\ parent'[n] = Search!Top
      /\ \A m \in nodes \ {n} : parent'[m] = parent[m]
  BY <1>1, <1>2 DEF SearchGoesOn, Search!SearchTypeOK, Search!Descend
<1> QED
  BY <1>1, <1>2, <1>3, <1>4, <1>5, <1>6, VisitKeeps, Zenon

\* What the search keeps when it only crosses a connection off: one that leads to no node or
\* to a finished one.
LEMMA PassStep ==
  ASSUME SearchGoesOn, NEW c \in Conn, Search!Look(c),
         ~(target[c] \in nodes /\ color[target[c]] \in {"white", "gray"})
  PROVE  SearchGoesOn' /\ search' = "search"
<1> USE DEF SearchGoesOn
<1>1. /\ search = "search" /\ stack # <<>> /\ c \in left[Search!Top]
      /\ UNCHANGED <<color, parent, stack, search, cycle>> /\ UNCHANGED graph
      /\ left' = [m \in nodes |-> IF m = Search!Top THEN left[m] \ {c}
                                  ELSE IF m = target[c] /\ color[m] = "white" THEN Search!OutOf(m)
                                  ELSE left[m]]
  BY DEF Search!Look, Search!graph, graph
<1>2. /\ left' \in [nodes -> SUBSET Conn]
      /\ \A m \in nodes : left'[m] = IF m = Search!Top THEN left[m] \ {c} ELSE left[m]
  BY <1>1 DEF Search!SearchTypeOK, Search!OutOf
<1>3. target[c] \in nodes => color[target[c]] = "black"
  BY DEF Search!SearchTypeOK
<1>4. Search!SearchTypeOK' /\ Search!LooksAtItsOwn'
  BY <1>1, <1>2 DEF Search!SearchTypeOK, Search!LooksAtItsOwn, Search!OutOf, graph
<1>5. Search!StackIsGray' /\ Search!StackIsPath'
  BY <1>1 DEF Search!StackIsGray, Search!StackIsPath, graph
<1>6. Search!WhiteIsNew' /\ Search!BlackIsAcyclic' /\ ParentsEnd'
  BY <1>1, ColorsStand
<1>7. \A d \in Conn : source[d] \in nodes /\ d \in left[source[d]] /\ d \notin left'[source[d]] => d = c
  BY <1>2
<1>8. Search!LookedAt'
  BY <1>1, <1>3, <1>7 DEF Search!LookedAt, graph
<1> QED
  BY <1>1, <1>4, <1>5, <1>6, <1>8

\* The last call returns: its node's connections lead to finished nodes.
LEMMA LeaveStep ==
  ASSUME SearchGoesOn, Search!Leave
  PROVE  SearchGoesOn' /\ search' = "search"
<1> USE DEF SearchGoesOn
<1> DEFINE n == Search!Top
<1>1. /\ search = "search" /\ stack # <<>> /\ left[n] = {} /\ UNCHANGED <<parent, left, search, cycle>>
      /\ color' = [color EXCEPT ![n] = "black"]
      /\ stack' = SubSeq(stack, 1, Len(stack) - 1) /\ UNCHANGED graph
  BY DEF Search!Leave, Search!graph, graph
<1>2. /\ Len(stack) \in Nat /\ Len(stack) \in 1..Len(stack) /\ n = stack[Len(stack)]
      /\ n \in nodes /\ color[n] = "gray"
  BY <1>1, TopOfStack
<1> HIDE DEF n
<1>3. /\ stack \in Seq(nodes) /\ stack' \in Seq(nodes) /\ Len(stack') = Len(stack) - 1
      /\ \A k \in 1..Len(stack') : k \in 1..Len(stack) /\ stack'[k] = stack[k]
  <2>1. stack \in Seq(nodes)
    BY DEF Search!SearchTypeOK
  <2>2. stack' \in Seq(nodes) /\ Len(stack') = Len(stack) - 1
    <3>1. stack' = SubSeq(stack, 1, Len(stack) - 1)
      BY <1>1
    <3> QED
      BY <1>1, <2>1, <3>1, Popped
  <2>3. \A k \in 1..Len(stack') : k \in 1..Len(stack) /\ stack'[k] = stack[k]
    BY <1>1, <1>2, <2>1, <2>2
  <2> QED
    BY <2>1, <2>2, <2>3
<1>4. /\ color' \in [nodes -> {"white", "gray", "black"}] /\ color'[n] = "black"
      /\ \A m \in nodes \ {n} : color'[m] = color[m]
  BY <1>1, <1>2 DEF Search!SearchTypeOK
<1>5. \A i, j \in 1..Len(stack) : stack[i] = stack[j] => i = j
  BY DEF Search!StackIsGray
<1>6. Search!SearchTypeOK' /\ Search!LooksAtItsOwn'
  BY <1>1, <1>3, <1>4 DEF Search!SearchTypeOK, Search!LooksAtItsOwn, Search!OutOf, graph
<1>7. Search!StackIsGray'
  <2>1. ASSUME NEW m \in nodes
        PROVE  color'[m] = "gray" <=> \E i \in 1..Len(stack') : stack'[i] = m
    <3>1. CASE m = n
      <4>1. \A i \in 1..Len(stack') : i # Len(stack)
        BY <1>2, <1>3
      <4> QED
        BY <1>2, <1>3, <1>4, <1>5, <3>1, <4>1
    <3>2. CASE m # n
      <4>1. \A i \in 1..Len(stack) : stack[i] = m => i \in 1..Len(stack')
        BY <1>2, <1>3, <3>2
      <4>2. color'[m] = "gray" <=> \E i \in 1..Len(stack) : stack[i] = m
        BY <1>4, <3>2 DEF Search!StackIsGray
      <4>3. (\E i \in 1..Len(stack) : stack[i] = m) <=> \E i \in 1..Len(stack') : stack'[i] = m
        BY <1>3, <4>1
      <4> QED
        BY <4>2, <4>3
    <3> QED
      BY <3>1, <3>2
  <2>2. \A i, j \in 1..Len(stack') : stack'[i] = stack'[j] => i = j
    BY <1>3, <1>5
  <2> QED
    BY <1>1, <2>1, <2>2 DEF Search!StackIsGray, graph
<1>8. Search!StackIsPath'
  <2>1. stack' # <<>> => parent'[stack'[1]] = None
    BY <1>1, <1>3 DEF Search!StackIsPath
  <2>2. \A i, j \in 1..Len(stack') : j = i + 1 =>
          /\ parent'[stack'[j]] = stack'[i]
          /\ \E c \in Conn : source'[c] = stack'[i] /\ target'[c] = stack'[j]
    <3>1. parent' = parent /\ source' = source /\ target' = target
      BY <1>1 DEF graph
    <3>2. ASSUME NEW i \in 1..Len(stack'), NEW j \in 1..Len(stack'), j = i + 1
          PROVE  /\ parent[stack'[j]] = stack'[i]
                 /\ \E c \in Conn : source[c] = stack'[i] /\ target[c] = stack'[j]
      <4>1. i \in 1..Len(stack) /\ j \in 1..Len(stack) /\ stack'[i] = stack[i] /\ stack'[j] = stack[j]
        BY <1>3
      <4> QED
        BY <3>2, <4>1 DEF Search!StackIsPath
    <3> QED
      BY <3>1, <3>2
  <2> QED
    BY <2>1, <2>2 DEF Search!StackIsPath
<1>9. Search!WhiteIsNew' /\ ParentsEnd'
  <2>1. nodes' = nodes /\ parent' = parent /\ \A m \in nodes : color'[m] = "white" => color[m] = "white"
    BY <1>1, <1>4 DEF graph
  <2>2. Search!WhiteIsNew'
    BY <2>1 DEF Search!WhiteIsNew
  <2>3. ParentsEnd'
    BY <2>1 DEF ParentsEnd
  <2> QED
    BY <2>2, <2>3
\* No connection of the node is left; it is the last on the stack, so none leads up it.
<1>10. \A c \in Conn : source[c] = n /\ target[c] \in nodes => color[target[c]] = "black"
  BY <1>1, <1>2, <1>5 DEF Search!LookedAt
<1>11. Search!LookedAt'
  <2> SUFFICES ASSUME NEW c \in Conn, source[c] \in nodes, target[c] \in nodes
               PROVE  /\ color'[source[c]] = "black" => color'[target[c]] = "black"
                      /\ color'[source[c]] = "gray" /\ c \notin left[source[c]] =>
                           \/ color'[target[c]] = "black"
                           \/ \E i, j \in 1..Len(stack') :
                                 j = i + 1 /\ stack'[i] = source[c] /\ stack'[j] = target[c]
    BY <1>1 DEF Search!LookedAt, graph
  <2>1. color[target[c]] = "black" => color'[target[c]] = "black"
    BY <1>4
  <2>2. color'[source[c]] = "black" => color'[target[c]] = "black"
    BY <1>4, <1>10, <2>1 DEF Search!LookedAt
  <2>3. ASSUME color'[source[c]] = "gray", c \notin left[source[c]], color'[target[c]] # "black"
        PROVE  \E i, j \in 1..Len(stack') :
                  j = i + 1 /\ stack'[i] = source[c] /\ stack'[j] = target[c]
    <3>1. source[c] # n /\ target[c] # n /\ color[source[c]] = "gray" /\ color[target[c]] # "black"
      BY <1>4, <2>1, <2>3
    <3>2. PICK i \in 1..Len(stack), j \in 1..Len(stack) :
             j = i + 1 /\ stack[i] = source[c] /\ stack[j] = target[c]
      BY <2>3, <3>1 DEF Search!LookedAt
    <3>3. i \in 1..Len(stack') /\ j \in 1..Len(stack')
      BY <1>2, <1>3, <3>1, <3>2
    <3> QED
      BY <1>3, <3>2, <3>3
  <2> QED
    BY <2>2, <2>3
\* Nothing finished leads to the node, nor does it to itself.
<1>12. Search!BlackIsAcyclic'
  <2> SUFFICES ASSUME NEW S \in SUBSET {m \in nodes : color'[m] = "black"}, S # {}
               PROVE  \E m \in S : \A c \in Conn : target[c] = m => source[c] \notin S
    BY <1>1, Zenon DEF Search!BlackIsAcyclic, graph
  <2>1. CASE n \in S
    <3>1. ASSUME NEW c \in Conn, target[c] = n, source[c] \in S PROVE FALSE
      <4>1. source[c] \in nodes /\ color[n] # "black" /\ (source[c] = n \/ color[source[c]] = "black")
        BY <1>2, <1>4, <3>1
      <4> QED
        BY <1>2, <1>10, <3>1, <4>1 DEF Search!LookedAt
    <3> QED
      BY <2>1, <3>1
  <2>2. CASE n \notin S
    <3>1. S \in SUBSET {m \in nodes : color[m] = "black"}
      BY <1>4, <2>2
    <3> QED
      BY <3>1 DEF Search!BlackIsAcyclic
  <2> QED
    BY <2>1, <2>2
<1> QED
  BY <1>1, <1>6, <1>7, <1>8, <1>9, <1>11, <1>12

\* What is appended comes last.
LEMMA LastAppended ==
  ASSUME NEW S, NEW s \in Seq(S), NEW e \in S PROVE Append(s, e)[Len(s) + 1] = e
OBVIOUS

\* A connection to a node under way: the stack from there is a cycle.
LEMMA FoundStep ==
  ASSUME SearchGoesOn, NEW c \in Conn, Search!Look(c), target[c] \in nodes,
         color[target[c]] = "gray"
  PROVE  Search!SearchInv' /\ ParentsEnd'
<1> USE DEF SearchGoesOn
<1>1. /\ search = "search" /\ stack # <<>> /\ c \in left[Search!Top] /\ search' = "found"
      /\ cycle' = Append(Search!Back(Search!Top, target[c]), target[c])
      /\ UNCHANGED <<color, parent, stack>> /\ UNCHANGED graph
      /\ left' = [m \in nodes |-> IF m = Search!Top THEN left[m] \ {c}
                                  ELSE IF m = target[c] /\ color[m] = "white" THEN Search!OutOf(m)
                                  ELSE left[m]]
  BY DEF Search!Look, Search!Found, Search!graph, graph
<1>2. /\ Len(stack) \in Nat /\ Len(stack) \in 1..Len(stack) /\ Search!Top = stack[Len(stack)]
      /\ source[c] = Search!Top
  BY <1>1, TopOfStack DEF Search!LooksAtItsOwn, Search!OutOf
<1>3. PICK b \in 1..Len(stack) : stack[b] = target[c]
  BY DEF Search!StackIsGray
<1> DEFINE path == SubSeq(stack, b, Len(stack))
<1>4. cycle' = Append(path, stack[b])
  BY <1>1, <1>2, <1>3, BackIsStack
<1>5. /\ path \in Seq(nodes) /\ Len(path) = Len(stack) - b + 1
      /\ \A k \in 1..Len(path) : b + k - 1 \in 1..Len(stack) /\ path[k] = stack[b + k - 1]
  <2>1. stack \in Seq(nodes) /\ b \in Nat /\ b >= 1 /\ b <= Len(stack)
    BY <1>2, <1>3 DEF Search!SearchTypeOK
  <2>2. Len(path) = Len(stack) - b + 1
    BY <1>2, <2>1
  <2>3. \A k \in 1..Len(path) : b + k - 1 \in 1..Len(stack)
    BY <1>2, <2>1, <2>2
  <2>4. \A k \in 1..Len(path) : path[k] = stack[b + k - 1]
    BY <1>2, <2>1, <2>2
  <2>5. path \in Seq(nodes)
    BY <1>2, <2>1
  <2> QED
    BY <2>2, <2>3, <2>4, <2>5
<1> HIDE DEF path
<1>6. /\ Len(cycle') = Len(stack) - b + 2
      /\ \A k \in 1..(Len(cycle') - 1) : b + k - 1 \in 1..Len(stack) /\ cycle'[k] = stack[b + k - 1]
      /\ cycle'[Len(cycle')] = stack[b]
  <2>1. stack[b] \in nodes
    BY <1>3
  <2>2. Len(path) \in Nat /\ Len(cycle') = Len(path) + 1
    BY <1>2, <1>4, <1>5, <2>1
  <2>3. \A k \in 1..Len(path) : cycle'[k] = path[k]
    BY <1>4, <1>5, <2>1
  <2>4. cycle'[Len(path) + 1] = stack[b]
    BY <1>4, <1>5, <2>1, LastAppended, Zenon
  <2> QED
    BY <1>2, <1>5, <2>2, <2>3, <2>4
<1>7. Search!CycleIsReal'
  <2>1. Len(cycle') >= 2 /\ cycle'[1] = cycle'[Len(cycle')]
    BY <1>2, <1>6
  <2>2. ASSUME NEW i \in 1..(Len(cycle') - 1), NEW j \in 1..(Len(cycle') - 1), i # j
        PROVE  cycle'[i] # cycle'[j]
    <3>1. b + i - 1 \in 1..Len(stack) /\ cycle'[i] = stack[b + i - 1]
      BY <1>6
    <3>2. b + j - 1 \in 1..Len(stack) /\ cycle'[j] = stack[b + j - 1]
      BY <1>6
    <3>3. b + i - 1 # b + j - 1
      BY <1>2, <1>6, <2>2
    <3>4. stack[b + i - 1] # stack[b + j - 1]
      <4>1. \A p, q \in 1..Len(stack) : stack[p] = stack[q] => p = q
        BY Zenon DEF Search!StackIsGray
      <4> QED
        BY <3>1, <3>2, <3>3, <4>1, Zenon
    <3> QED
      BY <3>1, <3>2, <3>4, Zenon
  <2>3. ASSUME NEW i \in 1..(Len(cycle') - 1)
        PROVE  \E d \in Conn : source[d] = cycle'[i] /\ target[d] = cycle'[i + 1]
    <3>1. CASE i = Len(cycle') - 1
      BY <1>2, <1>3, <1>6, <3>1
    <3>2. CASE i # Len(cycle') - 1
      <4>1. /\ b + i - 1 \in 1..Len(stack) /\ cycle'[i] = stack[b + i - 1]
            /\ i + 1 \in 1..(Len(cycle') - 1)
        <5>1. i + 1 \in 1..(Len(cycle') - 1)
          <6>1. Len(cycle') \in Nat /\ i \in Nat /\ 1 <= i /\ i <= Len(cycle') - 1 /\ i # Len(cycle') - 1
            BY <1>2, <1>6, <3>2
          <6> QED
            BY <6>1
        <5> QED
          BY <1>6, <5>1
      <4>2. b + (i + 1) - 1 \in 1..Len(stack) /\ cycle'[i + 1] = stack[b + (i + 1) - 1]
        BY <1>6, <4>1
      <4>3. b + (i + 1) - 1 = (b + i - 1) + 1
        OBVIOUS
      <4> QED
        BY <4>1, <4>2, <4>3 DEF Search!StackIsPath
    <3> QED
      BY <3>1, <3>2
  <2>4. source' = source /\ target' = target
    BY <1>1 DEF graph
  <2> QED
    BY <2>1, <2>2, <2>3, <2>4, Zenon DEF Search!CycleIsReal
<1>8. Search!SearchTypeOK' /\ Search!LooksAtItsOwn'
  <2>1. /\ left' \in [nodes -> SUBSET Conn]
        /\ \A m \in nodes : left'[m] = IF m = Search!Top THEN left[m] \ {c} ELSE left[m]
    BY <1>1 DEF Search!SearchTypeOK, Search!OutOf
  <2>2. cycle' \in Seq(nodes)
    BY <1>3, <1>4, <1>5
  <2> QED
    BY <1>1, <2>1, <2>2 DEF Search!SearchTypeOK, Search!LooksAtItsOwn, Search!OutOf, graph
<1>9. Search!StackIsGray' /\ Search!StackIsPath'
  BY <1>1 DEF Search!StackIsGray, Search!StackIsPath, graph
<1>10. Search!WhiteIsNew' /\ Search!BlackIsAcyclic' /\ ParentsEnd'
  BY <1>1, ColorsStand
<1> QED
  BY <1>1, <1>7, <1>8, <1>9, <1>10 DEF Search!SearchInv

\* With no node left to search from, all are finished.
LEMMA GiveUpStep ==
  ASSUME SearchGoesOn, Search!GiveUp
  PROVE  SearchGoesOn' /\ search' = "none" /\ \A n \in nodes' : color'[n] = "black"
<1> USE DEF SearchGoesOn
<1>1. /\ stack = <<>> /\ search' = "none" /\ UNCHANGED graph
      /\ \A n \in nodes : color[n] # "white" /\ UNCHANGED <<color, parent, stack, left, cycle>>
  BY DEF Search!GiveUp, Search!graph, graph
<1>2. /\ nodes' = nodes /\ source' = source /\ target' = target /\ color' = color
      /\ stack' = stack /\ left' = left /\ parent' = parent /\ cycle' = cycle
  BY <1>1 DEF Search!GiveUp, graph
<1>3. Search!SearchTypeOK' /\ Search!LooksAtItsOwn' /\ Search!StackIsGray' /\ Search!StackIsPath'
  BY <1>1, <1>2 DEF Search!SearchTypeOK, Search!LooksAtItsOwn, Search!OutOf, Search!StackIsGray,
                    Search!StackIsPath
<1>4. Search!LookedAt'
  BY <1>2 DEF Search!LookedAt
<1>5. Search!WhiteIsNew' /\ Search!BlackIsAcyclic' /\ ParentsEnd'
  BY <1>2, ColorsStand DEF graph
<1>6. \A n \in nodes : color[n] = "black"
  BY <1>1 DEF Search!SearchTypeOK, Search!StackIsGray
<1> QED
  BY <1>1, <1>2, <1>3, <1>4, <1>5, <1>6

SearchKept == Search!SearchInv /\ ParentsEnd

\* The inductive step: each action of the search keeps its invariant.
LEMMA SearchStep == SearchKept /\ Search!Next => SearchKept'
<1> SUFFICES ASSUME SearchKept, Search!Next PROVE SearchKept'
  OBVIOUS
<1>1. search = "search" /\ SearchGoesOn
  BY DEF SearchKept, Search!SearchInv, SearchGoesOn, Search!Next, Search!Root, Search!Look,
         Search!Leave, Search!GiveUp
<1>2. ASSUME SearchGoesOn', search' = "search" PROVE SearchKept'
  BY <1>2 DEF SearchKept, Search!SearchInv, SearchGoesOn, Search!CycleIsReal
<1>3. ASSUME NEW n \in nodes, Search!Root(n) PROVE SearchKept'
  BY <1>1, <1>2, <1>3, RootStep
<1>4. ASSUME NEW c \in Conn, Search!Look(c) PROVE SearchKept'
  <2>1. CASE target[c] \in nodes /\ color[target[c]] = "gray"
    BY <1>1, <1>4, <2>1, FoundStep DEF SearchKept
  <2>2. CASE target[c] \in nodes /\ color[target[c]] = "white"
    BY <1>1, <1>2, <1>4, <2>2, DescendStep
  <2>3. CASE ~(target[c] \in nodes /\ color[target[c]] \in {"white", "gray"})
    BY <1>1, <1>2, <1>4, <2>3, PassStep
  <2> QED
    BY <2>1, <2>2, <2>3
<1>5. CASE Search!Leave
  BY <1>1, <1>2, <1>5, LeaveStep
<1>6. CASE Search!GiveUp
  BY <1>1, <1>6, GiveUpStep DEF SearchKept, Search!SearchInv, SearchGoesOn, Search!CycleIsReal
<1> QED
  BY <1>3, <1>4, <1>5, <1>6 DEF Search!Next

\* Neither the sort nor a step that changes nothing disturbs the search.
LEMMA SearchRests == SearchKept /\ UNCHANGED <<graph, searching>> => SearchKept'
<1> SUFFICES ASSUME SearchKept, UNCHANGED <<graph, searching>> PROVE SearchKept'
  OBVIOUS
<1> USE DEF SearchKept, Search!SearchInv
<1>1. /\ nodes' = nodes /\ source' = source /\ target' = target /\ color' = color
      /\ stack' = stack /\ left' = left /\ parent' = parent /\ cycle' = cycle /\ search' = search
  BY DEF graph, searching
<1>2. Search!SearchTypeOK' /\ Search!LooksAtItsOwn' /\ Search!StackIsGray' /\ Search!StackIsPath'
  BY <1>1 DEF Search!SearchTypeOK, Search!LooksAtItsOwn, Search!OutOf, Search!StackIsGray,
              Search!StackIsPath
<1>3. (search' # "found" => Search!LookedAt') /\ Search!CycleIsReal'
  BY <1>1 DEF Search!LookedAt, Search!CycleIsReal
<1>4. Search!WhiteIsNew'
  BY <1>1 DEF Search!WhiteIsNew
<1>5. Search!BlackIsAcyclic'
  <2>1. \A S \in SUBSET {n \in nodes' : color'[n] = "black"} :
          S # {} => \E n \in S : \A c \in Conn : target'[c] = n => source'[c] \notin S
    BY <1>1, Zenon DEF Search!BlackIsAcyclic
  <2> QED
    BY <2>1, Zenon DEF Search!BlackIsAcyclic
<1>6. ParentsEnd'
  BY <1>1 DEF ParentsEnd
<1> QED
  BY <1>1, <1>2, <1>3, <1>4, <1>5, <1>6

-----------------------------------------------------------------------------
(* What validate and sort mean for each other. *)

\* Both invariants hold while a workflow is validated and sorted.
THEOREM ChecksInvariant == ChecksSpec => [](SortInv /\ SearchKept)
<1>1. ChecksInit => SortInv /\ SearchKept
  BY InitSort, SearchStart DEF ChecksInit, SearchKept
<1>2. SortInv /\ SearchKept /\ [ChecksNext]_checks => (SortInv /\ SearchKept)'
  <2> SUFFICES ASSUME SortInv, SearchKept, [ChecksNext]_checks PROVE (SortInv /\ SearchKept)'
    OBVIOUS
  <2>1. CASE Validate
    <3>1. UNCHANGED graph
      BY <2>1 DEF Validate, Search!Next, Search!Root, Search!Look, Search!Leave, Search!GiveUp,
                  Search!graph, graph
    <3>2. UNCHANGED vars
      BY <2>1, <3>1 DEF Validate, vars, sorting
    <3> QED
      BY <2>1, <3>2, NextSort, SearchStep DEF Validate
  <2>2. CASE SortLayers
    <3>1. UNCHANGED <<graph, searching>>
      BY <2>2 DEF SortLayers, Next, Build, TakeLayer, Count, NextFrontier, Return
    <3> QED
      BY <2>2, <3>1, NextSort, SearchRests DEF SortLayers
  <2>3. CASE UNCHANGED checks
    <3>1. UNCHANGED vars /\ UNCHANGED <<graph, searching>>
      BY <2>3 DEF checks, vars
    <3> QED
      BY <3>1, NextSort, SearchRests
  <2> QED
    BY <2>1, <2>2, <2>3 DEF ChecksNext
<1> QED
  BY <1>1, <1>2, PTL DEF ChecksSpec

\* In the workflow that is searched, sources are where connections come from.
LEMMA SearchedSources ==
  ASSUME TypeOK, NEW n \in nodes
  PROVE  Sources(Search!Searched, n) = {source[c] : c \in {d \in Conn : target[d] = n}} \cap nodes
  BY DEF TypeOK, Search!Searched, Search!Sources, Sources

\* The nodes of the cycle that was found have a source each among them.
LEMMA FindsCycles == SortInv /\ SearchKept => FindsIffCyclic
<1> SUFFICES ASSUME SortInv, SearchKept PROVE FindsIffCyclic
  OBVIOUS
<1>1. /\ TypeOK /\ Search!CycleIsReal /\ Search!BlackIsAcyclic
      /\ search = "none" => \A n \in nodes : color[n] = "black"
  BY DEF SortInv, SearchKept, Search!SearchInv
<1>2. Search!Searched.nodes = nodes
  BY DEF Search!Searched
<1>3. ASSUME search = "none" PROVE Search!Acyclic(Search!Searched)
  <2> SUFFICES ASSUME NEW S \in SUBSET nodes, S # {}
               PROVE  \E n \in S : Sources(Search!Searched, n) \cap S = {}
    BY <1>2 DEF Search!Acyclic, Search!Sources, Sources
  <2>1. S \in SUBSET {n \in nodes : color[n] = "black"}
    BY <1>1, <1>3
  <2>2. PICK n \in S : \A c \in Conn : target[c] = n => source[c] \notin S
    BY <1>1, <2>1 DEF Search!BlackIsAcyclic
  <2> QED
    BY <1>1, <2>2, SearchedSources
<1>4. ASSUME search = "found" PROVE ~Search!Acyclic(Search!Searched)
  <2> DEFINE last == Len(cycle) - 1
             S == {cycle[i] : i \in 1..last}
  <2>1. /\ Len(cycle) \in Nat /\ last \in Nat /\ last >= 1 /\ cycle[1] = cycle[last + 1]
        /\ \A i \in 1..(last + 1) : cycle[i] \in nodes
        /\ \A i \in 1..last : \E c \in Conn : source[c] = cycle[i] /\ target[c] = cycle[i + 1]
    BY <1>1, <1>4 DEF Search!CycleIsReal, SearchKept, Search!SearchInv, Search!SearchTypeOK
  <2> HIDE DEF last
  <2>2. S \in SUBSET nodes /\ S # {}
    <3>1. 1 \in 1..last /\ \A i \in 1..last : i \in 1..(last + 1)
      BY <2>1
    <3> QED
      BY <2>1, <3>1
  <2>3. ASSUME NEW n \in S PROVE Sources(Search!Searched, n) \cap S # {}
    <3>1. PICK i \in 1..last : n = cycle[i + 1]
      <4>1. PICK j \in 1..last : n = cycle[j]
        BY <2>3
      <4>2. CASE j = 1
        BY <2>1, <4>1, <4>2
      <4>3. CASE j # 1
        <5>1. j - 1 \in 1..last /\ (j - 1) + 1 = j
          BY <2>1, <4>1, <4>3
        <5> QED
          BY <4>1, <5>1
      <4> QED
        BY <4>2, <4>3
    <3>2. PICK c \in Conn : source[c] = cycle[i] /\ target[c] = n
      BY <2>1, <3>1
    <3> QED
      BY <1>1, <2>2, <3>1, <3>2, SearchedSources
  <2> QED
    BY <1>2, <2>2, <2>3 DEF Search!Acyclic, Search!Sources, Sources
<1> QED
  BY <1>1, <1>3, <1>4 DEF FindsIffCyclic, Search!FindsIffCyclic

\* validate reports a cycle exactly when there is one, and what it reports is a cycle of the
\* graph (_find_cycle).
THEOREM FindsIffCyclicHolds == ChecksSpec => []FindsIffCyclic
  BY ChecksInvariant, FindsCycles, PTL

\* What sort promises it promises those who call it after the search, too.
THEOREM SortHoldsInChecks == ChecksSpec => [](LayersAreRight /\ RaisesIffCyclic)
  BY ChecksInvariant, RightLayers, RaisesOnCycles, PTL

\* What execute sorts has no cycle: CyclicDAGError is for resume alone, which does not
\* validate (DAGEngine.execute, DAGEngine.resume).
ExecuteIsNotRaisedFor == caller = "execute" => pc # "cyclic"

SortsTheSearched == caller = "execute" /\ pc # "build" => search = "none"

\* An execution is never ended by the error sort raises.
THEOREM ExecuteIsNeverRaisedFor == ChecksSpec => []ExecuteIsNotRaisedFor
<1>1. ChecksInit => SortsTheSearched
  BY DEF ChecksInit, Init, SortsTheSearched
<1>2. SortsTheSearched /\ [ChecksNext]_checks => SortsTheSearched'
  <2> SUFFICES ASSUME SortsTheSearched, [ChecksNext]_checks PROVE SortsTheSearched'
    OBVIOUS
  <2>1. CASE Validate
    <3>1. search = "search" /\ UNCHANGED <<caller, pc>>
      BY <2>1 DEF Validate, Search!Next, Search!Root, Search!Look, Search!Leave, Search!GiveUp, sorting
    <3> QED
      BY <3>1 DEF SortsTheSearched
  <2>2. CASE SortLayers
    BY <2>2 DEF SortLayers, ErrorFree, SortsTheSearched, searching
  <2>3. CASE UNCHANGED checks
    BY <2>3 DEF checks, vars, searching, SortsTheSearched
  <2> QED
    BY <2>1, <2>2, <2>3 DEF ChecksNext
<1>3. SortInv /\ SearchKept /\ SortsTheSearched => ExecuteIsNotRaisedFor
  <2> SUFFICES ASSUME SortInv, SearchKept, SortsTheSearched, caller = "execute", pc = "cyclic"
               PROVE  FALSE
    BY DEF ExecuteIsNotRaisedFor
  <2>1. Search!Acyclic(Search!Searched)
    BY FindsCycles DEF SortsTheSearched, FindsIffCyclic, Search!FindsIffCyclic
  <2>2. ~Acyclic(Sorted)
    BY RaisesOnCycles DEF RaisesIffCyclic
  <2>3. Sorted.nodes = Search!Searched.nodes /\ Sorted.deps = Search!Searched.deps
    BY DEF Sorted, Search!Searched
  <2> QED
    BY <2>1, <2>2, <2>3 DEF Search!Acyclic, Acyclic, Search!Sources, Sources
<1> QED
  BY <1>1, <1>2, <1>3, ChecksInvariant, PTL DEF ChecksSpec

=============================================================================
