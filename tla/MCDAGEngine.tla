---------------------------- MODULE MCDAGEngine ----------------------------
(***************************************************************************)
(* DAGEngine over a family of workflows.                                    *)
(*                                                                         *)
(* Workflow definitions for TLC, numbered: the digits of a version's number *)
(* are the connections, the gates and the error policies of the definition. *)
(* Connections go from lower to higher node numbers, so that every DAG is   *)
(* there up to a renaming of its nodes.  In a ragged family a definition    *)
(* may also lack nodes (its connections then dangle) and have a connection  *)
(* from the last node back to the first (a cycle).                          *)
(***************************************************************************)
EXTENDS DAGEngine, Naturals, FiniteSets

CONSTANTS
  N,         \* how many nodes
  PolicySeq, \* the error policies in play
  Ragged,    \* also ill-formed definitions
  Family     \* which placements of the gates

Nodes == 1..N

Pow[b \in Nat, k \in Nat] == IF k = 0 THEN 1 ELSE b * Pow[b, k - 1]

\* The k-th bit of v, the bits of v from k on, the members of Nodes bits pick.
Bit(v, k)  == (v \div Pow[2, k]) % 2 = 1
From(v, k) == v \div Pow[2, k]
Picked(v)  == {n \in Nodes : Bit(v, n - 1)}

Edges     == (N * (N - 1)) \div 2
Edge(m, n) == ((n - 1) * (n - 2)) \div 2 + (m - 1)
NPolicies == Cardinality(DOMAIN PolicySeq)

\* The nodes of the first k layers.
Placed(ns, d) ==
  LET p[k \in 0..N] ==
        IF k = 0 THEN {} ELSE {n \in ns : d[n] \cap ns \subseteq p[k - 1]}
  IN  p

LayersOf(ns, d) ==
  LET p == Placed(ns, d)
  IN  [n \in Nodes |-> IF n \in p[N] THEN Cardinality({k \in 0..N : n \notin p[k]}) - 1
                       ELSE 0]

Decode(v) ==
  LET gates == From(v, Edges)
      rest  == From(gates, N)
      pols  == IF Ragged THEN From(rest, N + 1) ELSE rest
      ns    == IF Ragged THEN Picked(rest) ELSE Nodes
      d     == [n \in Nodes |->
                  {m \in 1..(n - 1) : Bit(v, Edge(m, n))}
                    \cup (IF Ragged /\ n = 1 /\ Bit(rest, N) THEN {N} ELSE {})]
  IN  [nodes  |-> ns,
       deps   |-> d,
       gates  |-> Picked(gates),
       policy |-> [n \in Nodes |->
                     PolicySeq[1 + ((pols \div Pow[NPolicies, n - 1]) % NPolicies)]],
       layer  |-> LayersOf(ns, d)]

SameLayer(w, m, n) == m # n /\ w.layer[m] = w.layer[n]

\* No two gates in a layer.
SingleGate(w) ==
  \A g, h \in w.gates \cap w.nodes : ~SameLayer(w, g, h)

\* A gate has its layer to itself.
LoneGate(w) ==
  \A g \in w.gates \cap w.nodes : \A n \in w.nodes : ~SameLayer(w, g, n)

Bits == IF Ragged THEN Edges + N + N + 1 ELSE Edges + N

Versions ==
  {v \in 0..(Pow[2, Bits] * Pow[NPolicies, N] - 1) :
     LET w == Decode(v) IN
     /\ w.gates \cap w.nodes # {}
     /\ w.gates \subseteq w.nodes
     /\ CASE Family = "single" -> SingleGate(w)
          [] Family = "lone"   -> LoneGate(w)
          [] Family = "all"    -> TRUE}

Definitions == [v \in Versions |-> Decode(v)]

FailFast      == <<"fail_workflow">>
ThreePolicies == <<"fail_workflow", "retry", "skip">>
AllPolicies   == <<"fail_workflow", "retry", "skip", "fail_node">>


\* (TLC computes a definition without parameters once, but the body of one that
\* a cfg gives to a constant at every use: hence the two names.)
MCNode    == Nodes
MCVersion == Versions
MCDef     == Definitions
=============================================================================
