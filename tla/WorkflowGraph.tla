---------------------------- MODULE WorkflowGraph ----------------------------
(***************************************************************************)
(* The graph of a workflow definition, as engine/dag.py looks at it: w is a *)
(* record with the fields nodes (a set of ids), deps (for each id the ids   *)
(* its connections come from) and, once it is sorted, layer (for each id    *)
(* the index of its layer).                                                 *)
(***************************************************************************)
EXTENDS Naturals

\* Dependencies that are nodes of the definition: the edges sort looks at.
Sources(w, n) == w.deps[n] \cap w.nodes

\* No set of nodes in which each one depends on another of the set.
Acyclic(w) ==
  \A S \in SUBSET w.nodes : S # {} => \E n \in S : Sources(w, n) \cap S = {}

\* What sort returns: a node comes after all its sources, and every layer up
\* to the last has a node.
Layered(w) ==
  \A n \in w.nodes :
    /\ \A d \in Sources(w, n) : w.layer[d] < w.layer[n]
    /\ \A k \in 0..w.layer[n] : \E m \in w.nodes : w.layer[m] = k

=============================================================================
