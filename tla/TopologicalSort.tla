--------------------------- MODULE TopologicalSort ---------------------------
(***************************************************************************)
(* TopologicalSort.sort of workflow_engine/engine/dag.py: Kahn's algorithm, *)
(* one step per layer and per connection counted.                           *)
(*                                                                          *)
(* The lists it keeps are sets here: nothing depends on the order of a      *)
(* frontier, and OncePerFrontier says that no list gets a node twice.       *)
(***************************************************************************)
EXTENDS WorkflowGraph, Sequences, FiniteSets

CONSTANTS
  Id,    \* what connections may name: nodes of the workflow, and others
  Conn   \* positions in the list of connections

ASSUME SortAssumption == IsFiniteSet(Id) /\ IsFiniteSet(Conn)

VARIABLES
  nodes,      \* the ids of the workflow's nodes
  source,     \* Connection.source_node
  target,     \* Connection.target_node
  in_degree,  \* connections into each node not yet counted off
  frontier,   \* nodes whose sources are all in layers
  upcoming,   \* next_frontier
  todo,       \* connections out of the frontier still to be counted off
  layers,
  pc          \* "build", "frontier", "count", "sorted" or "cyclic"

graph == <<nodes, source, target>>
vars  == <<graph, in_degree, frontier, upcoming, todo, layers, pc>>

\* Connections between two nodes of the workflow.
Edges == {c \in Conn : source[c] \in nodes /\ target[c] \in nodes}

Into(n) == {c \in Edges : target[c] = n}

Placed == UNION {layers[i] : i \in DOMAIN layers}

\* The type of the variables (the locals of TopologicalSort.sort).
TypeOK ==
  /\ nodes \subseteq Id
  /\ source \in [Conn -> Id] /\ target \in [Conn -> Id]
  /\ in_degree \in [nodes -> Nat]
  /\ frontier \subseteq nodes /\ upcoming \subseteq nodes
  /\ todo \subseteq Edges
  /\ layers \in Seq(SUBSET nodes)
  /\ pc \in {"build", "frontier", "count", "sorted", "cyclic"}

Init ==
  /\ nodes \in SUBSET Id
  /\ source \in [Conn -> Id] /\ target \in [Conn -> Id]
  /\ in_degree = [n \in nodes |-> 0]
  /\ frontier = {} /\ upcoming = {} /\ todo = {}
  /\ layers = <<>>
  /\ pc = "build"

\* In-degrees, and the nodes without dependencies as the first frontier.
Build ==
  /\ pc = "build"
  /\ in_degree' = [n \in nodes |-> Cardinality(Into(n))]
  /\ frontier' = {n \in nodes : in_degree'[n] = 0}
  /\ pc' = "frontier"
  /\ UNCHANGED <<graph, upcoming, todo, layers>>

\* "while frontier": the frontier is the next layer.
TakeLayer ==
  /\ pc = "frontier" /\ frontier # {}
  /\ layers' = Append(layers, frontier)
  /\ upcoming' = {}
  /\ todo' = {c \in Edges : source[c] \in frontier}
  /\ pc' = "count"
  /\ UNCHANGED <<graph, in_degree, frontier>>

\* One connection counted off; its target's last one makes it a frontier node.
Count(c) ==
  /\ pc = "count" /\ c \in todo
  /\ in_degree' = [in_degree EXCEPT ![target[c]] = @ - 1]
  /\ upcoming' = IF in_degree'[target[c]] = 0 THEN upcoming \cup {target[c]} ELSE upcoming
  /\ todo' = todo \ {c}
  /\ UNCHANGED <<graph, frontier, layers, pc>>

\* The frontier is done with: "frontier = next_frontier".
NextFrontier ==
  /\ pc = "count" /\ todo = {}
  /\ frontier' = upcoming
  /\ pc' = "frontier"
  /\ UNCHANGED <<graph, in_degree, upcoming, todo, layers>>

\* Mutant of Return: nodes left over go unnoticed.
ReturnUnchecked ==
  /\ pc = "frontier" /\ frontier = {}
  /\ pc' = "sorted"
  /\ UNCHANGED <<graph, in_degree, frontier, upcoming, todo, layers>>

\* Return the layers, or raise CyclicDAGError when nodes are left over.
Return ==
  /\ pc = "frontier" /\ frontier = {}
  /\ pc' = IF Cardinality(Placed) < Cardinality(nodes) THEN "cyclic" ELSE "sorted"
  /\ UNCHANGED <<graph, in_degree, frontier, upcoming, todo, layers>>

Next == Build \/ TakeLayer \/ (\E c \in Conn : Count(c)) \/ NextFrontier \/ Return

Spec == Init /\ [][Next]_vars /\ WF_vars(Next)

-----------------------------------------------------------------------------
(* Properties. *)

\* The workflow the layers are for, as the executor sees it.
Sorted ==
  [nodes |-> nodes,
   deps  |-> [n \in Id |-> {source[c] : c \in {e \in Conn : target[e] = n}}],
   layer |-> [n \in Id |-> IF n \in Placed
                               THEN (CHOOSE i \in DOMAIN layers : n \in layers[i]) - 1
                               ELSE 0]]

\* The layers sort returns are what the executor relies on: every node in one
\* layer, after all its dependencies, without an empty layer in between.
LayersAreRight ==
  pc = "sorted" => /\ Placed = nodes
                   /\ \A i, j \in DOMAIN layers : i # j => layers[i] \cap layers[j] = {}
                   /\ Layered(Sorted)

\* sort raises CyclicDAGError exactly when the connections between nodes close
\* a cycle.
RaisesIffCyclic ==
  /\ pc = "sorted" => Acyclic(Sorted)
  /\ pc = "cyclic" => ~Acyclic(Sorted)

\* No node enters a frontier, and so a layer, twice: whenever the count of a
\* node reaches zero it is neither waiting for its layer nor in one.
OncePerFrontier ==
  [][\A n \in nodes : in_degree[n] > 0 /\ in_degree'[n] = 0 => n \notin upcoming \cup Placed]_vars

-----------------------------------------------------------------------------
(* The inductive invariant. *)

\* A connection that was counted off comes from a node in a layer.
Uncounted(n) == {c \in Into(n) : source[c] \notin Placed \/ c \in todo}

\* Nodes that wait for their layer.
Ready == IF pc = "count" THEN upcoming ELSE frontier

\* in_degree is the number of connections not counted off, and the nodes that
\* wait are those it is 0 for.
Degrees ==
  pc # "build" =>
    /\ \A n \in nodes : in_degree[n] = Cardinality(Uncounted(n))
    /\ Ready = {n \in nodes \ Placed : in_degree[n] = 0}

\* The layers so far are not empty, do not meet, and lie after their sources.
LayersSoFar ==
  \A i \in DOMAIN layers :
    /\ layers[i] # {}
    /\ \A j \in DOMAIN layers : i # j => layers[i] \cap layers[j] = {}
    /\ \A n \in layers[i] : \A c \in Into(n) :
         \E j \in DOMAIN layers : j < i /\ source[c] \in layers[j]

\* No node of a cycle, or behind one in a cycle, is in a layer.
CyclesStayOut ==
  \A S \in SUBSET nodes :
    (\A n \in S : \E c \in Into(n) : source[c] \in S) => S \cap Placed = {}

SortInv ==
  /\ TypeOK
  /\ pc = "build" => layers = <<>> /\ upcoming = {}
  /\ pc # "count" => todo = {}
  /\ \A c \in todo : source[c] \in Placed /\ target[c] \notin Placed
  /\ Degrees
  /\ LayersSoFar
  /\ CyclesStayOut
  /\ pc = "sorted" => Placed = nodes
  /\ pc = "cyclic" => frontier = {} /\ Placed # nodes

=============================================================================
