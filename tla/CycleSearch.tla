----------------------------- MODULE CycleSearch -----------------------------
(***************************************************************************)
(* DAGValidator._find_cycle of workflow_engine/engine/dag.py: a depth-first *)
(* search that colours nodes and, when it meets a gray one, reads the cycle *)
(* off the parent pointers.  The recursion is a stack; the nodes, a Python  *)
(* set, come in any order, and so do here the connections of a node.        *)
(***************************************************************************)
EXTENDS WorkflowGraph, Sequences, FiniteSets

CONSTANTS
  Id,    \* what connections may name: nodes of the workflow, and others
  Conn,  \* positions in the list of connections
  None   \* no parent

VARIABLES
  nodes, source, target,
  color,   \* of each node: "white", "gray" or "black"
  parent,
  stack,   \* the nodes of the dfs calls under way
  left,    \* for each of them the connections it has not looked at
  cycle,   \* the path returned
  pc       \* "search", "found" or "none"

graph == <<nodes, source, target>>
vars  == <<graph, color, parent, stack, left, cycle, pc>>

\* Connections out of a node; they may lead to something that is not a node.
OutOf(n) == {c \in Conn : source[c] = n}

Top == stack[Len(stack)]

Init ==
  /\ nodes \in SUBSET Id
  /\ source \in [Conn -> Id] /\ target \in [Conn -> Id]
  /\ color = [n \in nodes |-> "white"]
  /\ parent = [n \in nodes |-> None]
  /\ stack = <<>>
  /\ left = [n \in nodes |-> {}]
  /\ cycle = <<>>
  /\ pc = "search"

\* dfs(n) begins.
Visit(n) ==
  /\ color' = [color EXCEPT ![n] = "gray"]
  /\ stack' = Append(stack, n)

\* The loop over all nodes: search from one not seen yet.
Root(n) ==
  /\ pc = "search" /\ stack = <<>> /\ color[n] = "white"
  /\ Visit(n)
  /\ left' = [left EXCEPT ![n] = OutOf(n)]
  /\ UNCHANGED <<graph, parent, cycle, pc>>

\* From "to" up the parent pointers to n, read from the far end.
Back(n, to) ==
  LET chain[m \in nodes] == IF m = to \/ parent[m] = None THEN <<m>>
                            ELSE Append(chain[parent[m]], m)
  IN  chain[n]

\* A connection to a node under way closes a cycle.
Found(c) ==
  /\ cycle' = Append(Back(Top, target[c]), target[c])
  /\ pc' = "found"
  /\ UNCHANGED <<color, parent, stack>>

\* A connection to a node not seen yet: search on from there.
Descend(c) ==
  /\ parent' = [parent EXCEPT ![target[c]] = Top]
  /\ Visit(target[c])
  /\ UNCHANGED <<cycle, pc>>

\* Mutant of Look: a connection to a finished node counts as a cycle, too.
LookAtBlack(c) ==
  /\ pc = "search" /\ stack # <<>> /\ c \in left[Top]
  /\ IF target[c] \in nodes /\ color[target[c]] \in {"gray", "black"} THEN Found(c)
     ELSE IF target[c] \in nodes /\ color[target[c]] = "white" THEN Descend(c)
     ELSE UNCHANGED <<color, parent, stack, cycle, pc>>
  /\ left' = [n \in nodes |->
                IF n = Top THEN left[n] \ {c}
                ELSE IF n = target[c] /\ color[n] = "white" THEN OutOf(n) ELSE left[n]]
  /\ UNCHANGED graph

\* The loop over a node's neighbours.
Look(c) ==
  /\ pc = "search" /\ stack # <<>> /\ c \in left[Top]
  /\ IF target[c] \in nodes /\ color[target[c]] = "gray" THEN Found(c)
     ELSE IF target[c] \in nodes /\ color[target[c]] = "white" THEN Descend(c)
     ELSE UNCHANGED <<color, parent, stack, cycle, pc>>
  /\ left' = [n \in nodes |->
                IF n = Top THEN left[n] \ {c}
                ELSE IF n = target[c] /\ color[n] = "white" THEN OutOf(n) ELSE left[n]]
  /\ UNCHANGED graph

\* dfs returns without a cycle.
Leave ==
  /\ pc = "search" /\ stack # <<>> /\ left[Top] = {}
  /\ color' = [color EXCEPT ![Top] = "black"]
  /\ stack' = SubSeq(stack, 1, Len(stack) - 1)
  /\ UNCHANGED <<graph, parent, left, cycle, pc>>

\* No node is left to search from: there is no cycle.
GiveUp ==
  /\ pc = "search" /\ stack = <<>> /\ \A n \in nodes : color[n] # "white"
  /\ pc' = "none"
  /\ UNCHANGED <<graph, color, parent, stack, left, cycle>>

Next ==
  \/ \E n \in nodes : Root(n)
  \/ \E c \in Conn : Look(c)
  \/ Leave \/ GiveUp

Spec == Init /\ [][Next]_vars /\ WF_vars(Next)

-----------------------------------------------------------------------------
(* Properties. *)

Searched ==
  [nodes |-> nodes,
   deps  |-> [n \in Id |-> {source[c] : c \in {e \in Conn : target[e] = n}}]]

\* validate reports a cycle exactly when the connections between nodes close
\* one: where TopologicalSort.sort would raise.
FindsIffCyclic ==
  /\ pc = "found" => ~Acyclic(Searched)
  /\ pc = "none" => Acyclic(Searched)

\* What it reports is a cycle: it ends where it begins, repeats no other node
\* and follows connections.
CycleIsReal ==
  pc = "found" =>
    /\ Len(cycle) >= 2 /\ cycle[1] = cycle[Len(cycle)]
    /\ \A i, j \in 1..(Len(cycle) - 1) : i # j => cycle[i] # cycle[j]
    /\ \A i \in 1..(Len(cycle) - 1) : \E c \in Conn :
         source[c] = cycle[i] /\ target[c] = cycle[i + 1]

-----------------------------------------------------------------------------
(* The inductive invariant. *)

\* The type of the variables (_find_cycle).
SearchTypeOK ==
  /\ nodes \subseteq Id
  /\ source \in [Conn -> Id] /\ target \in [Conn -> Id]
  /\ color \in [nodes -> {"white", "gray", "black"}]
  /\ parent \in [nodes -> nodes \cup {None}]
  /\ stack \in Seq(nodes) /\ cycle \in Seq(nodes)
  /\ left \in [nodes -> SUBSET Conn]
  /\ pc \in {"search", "found", "none"}

\* What a node has not looked at are connections of its own.
LooksAtItsOwn == \A n \in nodes : left[n] \subseteq OutOf(n)

\* The nodes under way are those that are gray, each of them once.
StackIsGray ==
  /\ \A n \in nodes : color[n] = "gray" <=> \E i \in 1..Len(stack) : stack[i] = n
  /\ \A i, j \in 1..Len(stack) : stack[i] = stack[j] => i = j

\* Each was called for a connection from the one before, which is its parent.
StackIsPath ==
  /\ stack # <<>> => parent[stack[1]] = None
  /\ \A i, j \in 1..Len(stack) : j = i + 1 =>
       /\ parent[stack[j]] = stack[i]
       /\ \E c \in Conn : source[c] = stack[i] /\ target[c] = stack[j]

\* A node not seen yet has no parent and is none.
WhiteIsNew ==
  \A n \in nodes : color[n] = "white" => parent[n] = None /\ \A m \in nodes : parent[m] # n

\* What a connection leads to that was looked at is finished, or the next on the stack.
LookedAt ==
  \A c \in Conn : source[c] \in nodes /\ target[c] \in nodes =>
    LET n == source[c]  to == target[c] IN
    /\ color[n] = "black" => color[to] = "black"
    /\ color[n] = "gray" /\ c \notin left[n] =>
         \/ color[to] = "black"
         \/ \E i, j \in 1..Len(stack) : j = i + 1 /\ stack[i] = n /\ stack[j] = to

\* Finished nodes are in no cycle.
BlackIsAcyclic ==
  \A S \in SUBSET {n \in nodes : color[n] = "black"} :
    S # {} => \E n \in S : \A c \in Conn : target[c] = n => source[c] \notin S

SearchInv ==
  /\ SearchTypeOK /\ LooksAtItsOwn /\ StackIsGray /\ StackIsPath /\ WhiteIsNew /\ BlackIsAcyclic
  /\ pc # "found" => LookedAt
  /\ pc = "none" => \A n \in nodes : color[n] = "black"
  /\ CycleIsReal

=============================================================================
