--------------------------- MODULE DAGEngineProofs ---------------------------
(***************************************************************************)
(* Proofs about the workflow executor for any workflows, any bounds and any *)
(* number of edits, resumes and crashes.                                    *)
(***************************************************************************)
EXTENDS DAGEngine, TLAPS

-----------------------------------------------------------------------------
(* What the theorems assume of the workflows.                               *)

\* At most one review gate in a layer.
SingleGateLayers ==
  \A v \in Version : \A g, h \in Def[v].gates \cap Def[v].nodes :
    Def[v].layer[g] = Def[v].layer[h] => g = h

\* Every review gate has its layer to itself.
LoneGateLayers ==
  \A v \in Version : \A g \in Def[v].gates \cap Def[v].nodes, n \in Def[v].nodes :
    Def[v].layer[g] = Def[v].layer[n] => g = n

-----------------------------------------------------------------------------
(* Types. *)

\* Before any run the state is of its types.
LEMMA InitType == Init => TypeOK
  BY EngineAssumption DEF EngineAssumption, Init, TypeOK, Status, NodeStatus

\* Every step of the executor, and of what goes on around it, keeps the types.
LEMMA NextType == TypeOK /\ [Next]_vars => TypeOK'
<1> SUFFICES ASSUME TypeOK, [Next]_vars PROVE TypeOK'
  OBVIOUS
<1> USE EngineAssumption DEF EngineAssumption, TypeOK, Status, NodeStatus,
        record, frames, history
<1>1. CASE Execute
  BY <1>1 DEF Execute
<1>2. CASE ResumeReject \/ ResumeGone
  BY <1>2 DEF ResumeReject, ResumeGone
<1>3. CASE Resume
  BY <1>3 DEF Resume
<1>4. CASE Sort
  BY <1>4 DEF Sort
<1>5. CASE Dispatch
  BY <1>5 DEF Dispatch
<1>6. CASE NothingToDo
  BY <1>6 DEF NothingToDo
<1>7. CASE Gathered
  <2>1. due' \subseteq Node
    BY <1>7 DEF Gathered
  <2> QED
    BY <1>7, <2>1 DEF Gathered
<1>8. CASE GatesChecked
  BY <1>8 DEF GatesChecked
<1>9. CASE Finish
  BY <1>9 DEF Finish
<1>10. ASSUME NEW n \in Node, PauseForReview(n) PROVE TypeOK'
  BY <1>10 DEF PauseForReview
<1>11. ASSUME NEW n \in Node, Start(n) PROVE TypeOK'
  BY <1>11 DEF Start
<1>12. ASSUME NEW n \in Node, StartUnknown(n) PROVE TypeOK'
  BY <1>12 DEF StartUnknown
<1>13. ASSUME NEW n \in Node, Succeed(n) PROVE TypeOK'
  BY <1>13 DEF Succeed
<1>14. ASSUME NEW n \in Node, FailRetry(n) PROVE TypeOK'
  BY <1>14 DEF FailRetry
<1>15. ASSUME NEW n \in Node, Fail(n) PROVE TypeOK'
  BY <1>15 DEF Fail
<1>16. CASE EditWorkflow
  BY <1>16 DEF EditWorkflow
<1>17. CASE Crash
  BY <1>17 DEF Crash
<1>18. CASE UNCHANGED vars
  BY <1>18 DEF vars
<1> QED
  BY <1>1, <1>2, <1>3, <1>4, <1>5, <1>6, <1>7, <1>8, <1>9, <1>10, <1>11, <1>12,
     <1>13, <1>14, <1>15, <1>16, <1>17, <1>18 DEF Next, Walk, Work

\* The executor's state keeps its types.
THEOREM TypeCorrect == Spec => []TypeOK
  BY InitType, NextType, PTL DEF Spec

-----------------------------------------------------------------------------
(* The invariant of workflows with at most one gate in a layer. *)

\* A definition's nodes and gates are nodes, in layers numbered from zero.
LEMMA DefType ==
  ASSUME NEW v \in Version
  PROVE  /\ Def[v].nodes \subseteq Node /\ Def[v].gates \subseteq Node
         /\ Def[v].layer \in [Node -> Nat]
         /\ \A n \in Node : Def[v].deps[n] \subseteq Node
         /\ Acyclic(Def[v]) => Layered(Def[v])
  BY EngineAssumption DEF EngineAssumption, Definition

\* The layers before the next one are those before this one and this one.
LEMMA LayerStep ==
  ASSUME NEW v \in Version, NEW k \in Nat, NEW n \in Def[v].nodes
  PROVE  Def[v].layer[n] < k + 1 => Def[v].layer[n] < k \/ Def[v].layer[n] = k
<1>1. Def[v].layer[n] \in Nat
  BY DefType
<1> QED
  BY <1>1

\* The invariant holds of an engine that has run nothing: no node is placed.
LEMMA InitSingleGate == Init => SingleGateInv
  BY InitType DEF Init, SingleGateInv, TasksInLayer, OneGateWaits, UnansweredGates,
     LayersBehind, CompletedMeansSettled, Tasked, Waiting

\* execute starts a record in which every node is pending.
LEMMA ExecuteSingleGate ==
  ASSUME SingleGateLayers, SingleGateInv, TypeOK', Execute
  PROVE  SingleGateInv'
<1> USE DEF SingleGateInv, TypeOK, TasksInLayer, Tasked, Waiting, Settled, record,
        frames, history, Execute
<1>1. TasksInLayer'
  BY DEF LayersBehind
<1>2. OneGateWaits'
  BY DEF OneGateWaits
<1>3. UnansweredGates'
  BY DEF UnansweredGates, OneGateWaits, LayersBehind
<1>4. LayersBehind'
  BY DEF LayersBehind, CompletedMeansSettled, OneGateWaits, UnansweredGates
<1> QED
  BY <1>1, <1>2, <1>3, <1>4

\* A rejected execution ends with its gate still waiting.
LEMMA ResumeRejectSingleGate ==
  ASSUME SingleGateLayers, SingleGateInv, TypeOK', ResumeReject
  PROVE  SingleGateInv'
<1> USE DEF SingleGateInv, TypeOK, TasksInLayer, Tasked, Waiting, Settled, record,
        frames, history, ResumeReject
<1>1. TasksInLayer'
  BY DEF OneGateWaits
<1>2. OneGateWaits'
  BY DEF OneGateWaits
<1>3. UnansweredGates'
  BY DEF UnansweredGates, OneGateWaits
<1>4. LayersBehind'
  BY DEF LayersBehind, CompletedMeansSettled, OneGateWaits, UnansweredGates
<1> QED
  BY <1>1, <1>2, <1>3, <1>4

\* A resume without a definition fails the execution and runs nothing.
LEMMA ResumeGoneSingleGate ==
  ASSUME SingleGateLayers, SingleGateInv, TypeOK', ResumeGone
  PROVE  SingleGateInv'
<1> USE DEF SingleGateInv, TypeOK, TasksInLayer, Tasked, Waiting, Settled, record,
        frames, history, ResumeGone
<1>1. TasksInLayer'
  BY DEF OneGateWaits
<1>2. OneGateWaits'
  BY DEF OneGateWaits
<1>3. UnansweredGates'
  BY DEF UnansweredGates, OneGateWaits
<1>4. LayersBehind'
  BY DEF LayersBehind, CompletedMeansSettled, OneGateWaits, UnansweredGates
<1> QED
  BY <1>1, <1>2, <1>3, <1>4

\* A resume answers the one gate that waits, and loads the definition anew.
LEMMA ResumeSingleGate ==
  ASSUME SingleGateLayers, SingleGateInv, TypeOK', Resume
  PROVE  SingleGateInv'
<1> USE DEF SingleGateInv, TypeOK, TasksInLayer, Tasked, Waiting, Settled, record,
        frames, history, Resume
<1>1. TasksInLayer'
  BY DEF OneGateWaits
<1>2. OneGateWaits'
  BY DEF OneGateWaits
<1>3. UnansweredGates'
  BY DEF UnansweredGates, OneGateWaits
<1>4. LayersBehind'
  BY DEF LayersBehind, CompletedMeansSettled, OneGateWaits, UnansweredGates
<1> QED
  BY <1>1, <1>2, <1>3, <1>4

\* The layers come from the definition; the walk begins before the first.
LEMMA SortSingleGate ==
  ASSUME SingleGateLayers, SingleGateInv, TypeOK', Sort
  PROVE  SingleGateInv'
<1> USE DEF SingleGateInv, TypeOK, TasksInLayer, Tasked, Waiting, Settled, record,
        frames, history, Sort, Refused, Valid
<1>1. TasksInLayer'
  BY DEF OneGateWaits
<1>2. OneGateWaits'
  BY DEF OneGateWaits
<1>3. UnansweredGates'
  BY DEF UnansweredGates, OneGateWaits
<1>4. LayersBehind'
  <2>1. \A n \in Def[wf].nodes : ~(Def[wf].layer[n] < 0)
    BY DefType
  <2> QED
    BY <2>1 DEF LayersBehind, CompletedMeansSettled, OneGateWaits
<1> QED
  BY <1>1, <1>2, <1>3, <1>4

\* The nodes gathered are in the layer of the walk and below no waiting gate.
LEMMA DispatchSingleGate ==
  ASSUME SingleGateLayers, SingleGateInv, TypeOK', Dispatch
  PROVE  SingleGateInv'
<1> USE DEF SingleGateInv, TypeOK, TasksInLayer, Tasked, Waiting, Settled, record,
        frames, history, Dispatch, Tasks, AtLayer, Layer, PausedDep
<1>1. TasksInLayer'
  BY DEF OneGateWaits
<1>2. OneGateWaits'
  BY DEF OneGateWaits
<1>3. UnansweredGates'
  BY DEF UnansweredGates, OneGateWaits
<1>4. LayersBehind'
  <2>1. Waiting = {}
    BY DEF OneGateWaits
  <2>2. Layer \subseteq Node
    BY DefType
  <2>3. \A n \in Layer : n \in Tasks \/ n \in Settled
    BY <2>1, <2>2, DefType
  <2> QED
    BY <2>2, <2>3 DEF LayersBehind, CompletedMeansSettled
<1> QED
  BY <1>1, <1>2, <1>3, <1>4

\* A layer with nothing to run is behind: its nodes have ended or wait.
LEMMA NothingToDoSingleGate ==
  ASSUME SingleGateLayers, SingleGateInv, TypeOK', NothingToDo
  PROVE  SingleGateInv'
<1> USE DEF SingleGateInv, TypeOK, TasksInLayer, Tasked, Waiting, Settled, record,
        frames, history, NothingToDo, Tasks, AtLayer, Layer, PausedDep
<1>1. TasksInLayer'
  BY DEF OneGateWaits
<1>2. OneGateWaits'
  BY DEF OneGateWaits
<1>3. UnansweredGates'
  BY DEF UnansweredGates, OneGateWaits
<1>4. LayersBehind'
  <2>1. Waiting = {}
    BY DEF OneGateWaits
  <2>2. Layer \subseteq Settled
    BY <2>1, DefType
  <2>3. \A n \in Def[wf].nodes : Def[wf].layer[n] < level + 1 =>
          Def[wf].layer[n] < level \/ n \in Layer
    BY LayerStep
  <2> QED
    BY <2>2, <2>3 DEF LayersBehind, CompletedMeansSettled
<1> QED
  BY <1>1, <1>2, <1>3, <1>4

\* When the gathered nodes have ended, none of the layer is at work.
LEMMA GatheredSingleGate ==
  ASSUME SingleGateLayers, SingleGateInv, TypeOK', Gathered
  PROVE  SingleGateInv'
<1> USE DEF SingleGateInv, TypeOK, TasksInLayer, Tasked, Waiting, Settled, record,
        frames, history, Gathered, Layer
<1>1. TasksInLayer'
  BY DEF OneGateWaits
<1>2. OneGateWaits'
  BY DEF OneGateWaits
<1>3. UnansweredGates'
  BY DEF UnansweredGates, OneGateWaits
<1>4. LayersBehind'
  BY DEF LayersBehind, CompletedMeansSettled, OneGateWaits, UnansweredGates
<1> QED
  BY <1>1, <1>2, <1>3, <1>4

\* Once its gates are checked, a layer is behind or the walk stops at it.
LEMMA GatesCheckedSingleGate ==
  ASSUME SingleGateLayers, SingleGateInv, TypeOK', GatesChecked
  PROVE  SingleGateInv'
<1> USE DEF SingleGateInv, TypeOK, TasksInLayer, Tasked, Waiting, Settled, record,
        frames, history, GatesChecked, Layer
<1>1. TasksInLayer'
  BY DEF OneGateWaits
<1>2. OneGateWaits'
  BY DEF OneGateWaits
<1>3. UnansweredGates'
  BY DEF UnansweredGates, OneGateWaits
<1>4. LayersBehind'
  <2>1. CASE status = "awaiting_review"
    BY <2>1 DEF LayersBehind, CompletedMeansSettled, OneGateWaits
  <2>2. CASE status # "awaiting_review"
    <3>1. Waiting = {}
      BY <2>2 DEF OneGateWaits
    <3>2. \A n \in Def[wf].nodes : Def[wf].layer[n] < level + 1 =>
            Def[wf].layer[n] < level \/ n \in Layer
      BY LayerStep
    <3> QED
      BY <2>2, <3>1, <3>2 DEF LayersBehind, CompletedMeansSettled
  <2> QED
    BY <2>1, <2>2
<1> QED
  BY <1>1, <1>2, <1>3, <1>4

\* The walk ends: an execution is complete only with every layer behind.
LEMMA FinishSingleGate ==
  ASSUME SingleGateLayers, SingleGateInv, TypeOK', Finish
  PROVE  SingleGateInv'
<1> USE DEF SingleGateInv, TypeOK, TasksInLayer, Tasked, Waiting, Settled, record,
        frames, history, Finish, Layer
<1>1. TasksInLayer'
  BY DEF OneGateWaits
<1>2. OneGateWaits'
  BY DEF OneGateWaits
<1>3. UnansweredGates'
  BY DEF UnansweredGates, OneGateWaits
<1>4. LayersBehind'
  <2>1. CASE status # "running"
    BY <2>1 DEF LayersBehind, CompletedMeansSettled, OneGateWaits
  <2>2. CASE status = "running"
    <3>1. Layer = {} /\ Layered(Def[wf])
      BY <2>2, DefType
    <3>2. \A n \in Def[wf].nodes : Def[wf].layer[n] < level
      BY <3>1, DefType DEF Layered
    <3>3. asks \subseteq approved
      BY DEF UnansweredGates, OneGateWaits
    <3> QED
      BY <2>2, <3>2, <3>3 DEF LayersBehind, CompletedMeansSettled
  <2> QED
    BY <2>1, <2>2
<1> QED
  BY <1>1, <1>2, <1>3, <1>4

\* An edit changes the stored definition, not the one that runs.
LEMMA EditWorkflowSingleGate ==
  ASSUME SingleGateLayers, SingleGateInv, TypeOK', EditWorkflow
  PROVE  SingleGateInv'
<1> USE DEF SingleGateInv, TypeOK, TasksInLayer, Tasked, Waiting, Settled, record,
        frames, history, EditWorkflow, Layer
<1>1. TasksInLayer'
  BY DEF OneGateWaits
<1>2. OneGateWaits'
  BY DEF OneGateWaits
<1>3. UnansweredGates'
  BY DEF UnansweredGates, OneGateWaits
<1>4. LayersBehind'
  BY DEF LayersBehind, CompletedMeansSettled, OneGateWaits, UnansweredGates
<1> QED
  BY <1>1, <1>2, <1>3, <1>4

\* A crash leaves what was saved, and nothing at work.
LEMMA CrashSingleGate ==
  ASSUME SingleGateLayers, SingleGateInv, TypeOK', Crash
  PROVE  SingleGateInv'
<1> USE DEF SingleGateInv, TypeOK, TasksInLayer, Tasked, Waiting, Settled, record,
        frames, history, Crash, Layer
<1>1. TasksInLayer'
  BY DEF OneGateWaits
<1>2. OneGateWaits'
  BY DEF OneGateWaits
<1>3. UnansweredGates'
  <2>1. ASSUME NEW g \in asks \ approved, g \notin Waiting
        PROVE  status \in {"running", "failed"}
    <3>1. CASE pc = "idle"
      BY <2>1, <3>1 DEF UnansweredGates
    <3>2. CASE pc # "idle"
      <4>1. pc \in {"gather", "gates"} /\ (pc = "gates" => g \in due)
        BY <2>1, <3>2 DEF UnansweredGates
      <4>2. status # "awaiting_review"
        BY <4>1, <3>2 DEF OneGateWaits
      <4> QED
        BY <3>2, <4>2 DEF LayersBehind, Status
    <3> QED
      BY <3>1, <3>2
  <2>2. Tasked' = {} /\ Waiting' = Waiting /\ pc' = "idle"
    OBVIOUS
  <2> QED
    BY <2>1, <2>2 DEF UnansweredGates
<1>4. LayersBehind'
  BY DEF LayersBehind, CompletedMeansSettled, OneGateWaits, UnansweredGates
<1> QED
  BY <1>1, <1>2, <1>3, <1>4

\* The one gate of its layer that asked is the one that waits.
LEMMA PauseForReviewSingleGate ==
  ASSUME SingleGateLayers, SingleGateInv, TypeOK', NEW n \in Node, PauseForReview(n)
  PROVE  SingleGateInv'
<1> USE DEF SingleGateInv, TypeOK, TasksInLayer, Tasked, Waiting, Settled, record,
        frames, history, PauseForReview, Layer
<1>1. TasksInLayer'
  BY DEF OneGateWaits
<1>2. OneGateWaits'
  BY DEF OneGateWaits, UnansweredGates, SingleGateLayers
<1>3. UnansweredGates'
  BY DEF UnansweredGates, OneGateWaits
<1>4. LayersBehind'
  BY DEF LayersBehind, CompletedMeansSettled, OneGateWaits, UnansweredGates
<1> QED
  BY <1>1, <1>2, <1>3, <1>4

\* A node that starts was gathered, so its layer is the walk's.
LEMMA StartSingleGate ==
  ASSUME SingleGateLayers, SingleGateInv, TypeOK', NEW n \in Node, Start(n)
  PROVE  SingleGateInv'
<1> USE DEF SingleGateInv, TypeOK, TasksInLayer, Tasked, Waiting, Settled, record,
        frames, history, Start, Layer
<1>1. TasksInLayer'
  BY DEF OneGateWaits
<1>2. OneGateWaits'
  BY DEF OneGateWaits, UnansweredGates, SingleGateLayers
<1>3. UnansweredGates'
  BY DEF UnansweredGates, OneGateWaits
<1>4. LayersBehind'
  BY DEF LayersBehind, CompletedMeansSettled, OneGateWaits, UnansweredGates
<1> QED
  BY <1>1, <1>2, <1>3, <1>4

\* A gathered node without a record fails the run, not the invariant.
LEMMA StartUnknownSingleGate ==
  ASSUME SingleGateLayers, SingleGateInv, TypeOK', NEW n \in Node, StartUnknown(n)
  PROVE  SingleGateInv'
<1> USE DEF SingleGateInv, TypeOK, TasksInLayer, Tasked, Waiting, Settled, record,
        frames, history, StartUnknown, Layer
<1>1. TasksInLayer'
  BY DEF OneGateWaits
<1>2. OneGateWaits'
  BY DEF OneGateWaits, UnansweredGates, SingleGateLayers
<1>3. UnansweredGates'
  BY DEF UnansweredGates, OneGateWaits
<1>4. LayersBehind'
  BY DEF LayersBehind, CompletedMeansSettled, OneGateWaits, UnansweredGates
<1> QED
  BY <1>1, <1>2, <1>3, <1>4

\* A node that succeeds leaves work; if a gate, it asks.
LEMMA SucceedSingleGate ==
  ASSUME SingleGateLayers, SingleGateInv, TypeOK', NEW n \in Node, Succeed(n)
  PROVE  SingleGateInv'
<1> USE DEF SingleGateInv, TypeOK, TasksInLayer, Tasked, Waiting, Settled, record,
        frames, history, Succeed, Layer
<1>1. TasksInLayer'
  BY DEF OneGateWaits
<1>2. OneGateWaits'
  BY DEF OneGateWaits, UnansweredGates, SingleGateLayers
<1>3. UnansweredGates'
  BY DEF UnansweredGates, OneGateWaits
<1>4. LayersBehind'
  BY DEF LayersBehind, CompletedMeansSettled, OneGateWaits, UnansweredGates
<1> QED
  BY <1>1, <1>2, <1>3, <1>4

\* A node that fails and has attempts left stays at work.
LEMMA FailRetrySingleGate ==
  ASSUME SingleGateLayers, SingleGateInv, TypeOK', NEW n \in Node, FailRetry(n)
  PROVE  SingleGateInv'
<1> USE DEF SingleGateInv, TypeOK, TasksInLayer, Tasked, Waiting, Settled, record,
        frames, history, FailRetry, Layer
<1>1. TasksInLayer'
  BY DEF OneGateWaits
<1>2. OneGateWaits'
  BY DEF OneGateWaits, UnansweredGates, SingleGateLayers
<1>3. UnansweredGates'
  BY DEF UnansweredGates, OneGateWaits
<1>4. LayersBehind'
  BY DEF LayersBehind, CompletedMeansSettled, OneGateWaits, UnansweredGates
<1> QED
  BY <1>1, <1>2, <1>3, <1>4

\* A node that fails for good leaves work under its error policy.
LEMMA FailSingleGate ==
  ASSUME SingleGateLayers, SingleGateInv, TypeOK', NEW n \in Node, Fail(n)
  PROVE  SingleGateInv'
<1> USE DEF SingleGateInv, TypeOK, TasksInLayer, Tasked, Waiting, Settled, record,
        frames, history, Fail, Layer
<1>1. TasksInLayer'
  BY DEF OneGateWaits
<1>2. OneGateWaits'
  BY DEF OneGateWaits, UnansweredGates, SingleGateLayers
<1>3. UnansweredGates'
  BY DEF UnansweredGates, OneGateWaits
<1>4. LayersBehind'
  BY DEF LayersBehind, CompletedMeansSettled, OneGateWaits, UnansweredGates
<1> QED
  BY <1>1, <1>2, <1>3, <1>4

\* The inductive step: each action preserves the invariant.
LEMMA NextSingleGate ==
  ASSUME SingleGateLayers, SingleGateInv, [Next]_vars
  PROVE  SingleGateInv'
<1>1. TypeOK'
  BY NextType DEF SingleGateInv
<1>2. CASE Execute \/ Resume \/ ResumeReject \/ ResumeGone
  BY <1>1, <1>2, ExecuteSingleGate, ResumeSingleGate, ResumeRejectSingleGate,
     ResumeGoneSingleGate
<1>3. CASE Walk
  BY <1>1, <1>3, SortSingleGate, DispatchSingleGate, NothingToDoSingleGate,
     GatheredSingleGate, GatesCheckedSingleGate, FinishSingleGate DEF Walk
<1>4. ASSUME NEW n \in Node, PauseForReview(n) \/ Work(n) PROVE SingleGateInv'
  BY <1>1, <1>4, PauseForReviewSingleGate, StartSingleGate, StartUnknownSingleGate,
     SucceedSingleGate, FailRetrySingleGate, FailSingleGate DEF Work
<1>5. CASE EditWorkflow \/ Crash
  BY <1>1, <1>5, EditWorkflowSingleGate, CrashSingleGate
<1>6. CASE UNCHANGED vars
  BY <1>6 DEF vars, record, frames, history, SingleGateInv, TypeOK, TasksInLayer,
     OneGateWaits, UnansweredGates, LayersBehind, CompletedMeansSettled, Tasked,
     Settled, Waiting, Layer
<1> QED
  BY <1>2, <1>3, <1>4, <1>5, <1>6 DEF Next

\* With at most one review gate in a layer the invariant always holds.
THEOREM SingleGateInvariant == SingleGateLayers => (Spec => []SingleGateInv)
<1>1. SUFFICES ASSUME SingleGateLayers PROVE Spec => []SingleGateInv
  OBVIOUS
<1>2. SingleGateInv /\ [Next]_vars => SingleGateInv'
  BY <1>1, NextSingleGate
<1> QED
  BY InitSingleGate, <1>2, PTL DEF Spec

-----------------------------------------------------------------------------
(* What follows from it. *)

\* A node's descendants lie in later layers.
LEMMA DescendantsLater ==
  ASSUME NEW v \in Version, Acyclic(Def[v]), NEW g \in Def[v].nodes,
         NEW n \in Descendants(Def[v], g)
  PROVE  Def[v].layer[g] < Def[v].layer[n]
<1> DEFINE S == {m \in Def[v].nodes : Def[v].layer[g] < Def[v].layer[m]}
<1>1. Layered(Def[v]) /\ g \in Node
  BY DefType
<1>2. ASSUME NEW m \in Def[v].nodes, NEW d \in Sources(Def[v], m), d \in S \cup {g}
      PROVE  m \in S
  <2>1. Def[v].layer[d] < Def[v].layer[m]
    BY <1>1 DEF Layered
  <2>2. /\ Def[v].layer[d] \in Nat /\ Def[v].layer[m] \in Nat
        /\ Def[v].layer[g] \in Nat
    BY <1>1, DefType DEF Sources
  <2> QED
    BY <1>2, <2>1, <2>2
<1>3. n \in S
  BY <1>1, <1>2 DEF Descendants
<1> QED
  BY <1>3

\* From the invariant: what waits has its descendants in layers not yet reached.
LEMMA GateBlocks == SingleGateInv => GateBlocksDescendants
<1> SUFFICES ASSUME SingleGateInv, wf # None,
                    NEW g \in Def[wf].gates \cap Def[wf].nodes,
                    g \in Waiting \/ g \in asks \ approved,
                    NEW n \in Descendants(Def[wf], g) \cap Working
             PROVE  FALSE
  BY DEF GateBlocksDescendants
<1>1. n \in Tasked /\ n \in Layer
  BY DEF SingleGateInv, TasksInLayer, Working, Tasked
<1>2. g \in Layer
  BY <1>1 DEF SingleGateInv, OneGateWaits, UnansweredGates
<1>3. Def[wf].layer[g] < Def[wf].layer[n]
  BY <1>1, <1>2, DescendantsLater DEF SingleGateInv, TasksInLayer
<1>4. Def[wf].layer[g] = level /\ Def[wf].layer[n] = level /\ level \in Nat
  BY <1>1, <1>2 DEF Layer, SingleGateInv, TypeOK
<1> QED
  BY <1>3, <1>4

\* From the invariant: what a node at work depends on is in a layer behind.
LEMMA DependenciesDone == SingleGateInv => DependenciesSettled
<1> SUFFICES ASSUME SingleGateInv, NEW n \in Working, NEW d \in Sources(Def[wf], n)
             PROVE  node[d] \in {"completed", "skipped", "failed"}
  BY DEF DependenciesSettled
<1>1. n \in Tasked /\ n \in Layer /\ wf \in Version /\ Layered(Def[wf])
  BY DefType DEF SingleGateInv, TasksInLayer, Working, Tasked
<1>2. Def[wf].layer[d] < level /\ d \in Def[wf].nodes
  BY <1>1 DEF Layered, Layer, Sources
<1> QED
  BY <1>1, <1>2 DEF SingleGateInv, LayersBehind, Settled

\* With one gate in a layer at most, whatever the workflow, its edits, resumes
\* and crashes: no node runs below a gate that waits or was not answered.
THEOREM GateBlocksDescendantsHolds ==
  SingleGateLayers => (Spec => []GateBlocksDescendants)
  BY SingleGateInvariant, GateBlocks, PTL

\* Likewise: a paused execution names the one gate to answer and is quiet.
THEOREM PauseNamesTheGateHolds == SingleGateLayers => (Spec => []PauseNamesTheGate)
<1>1. SingleGateInv => PauseNamesTheGate
  BY DEF SingleGateInv, OneGateWaits, PauseNamesTheGate, Working, Tasked
<1> QED
  BY <1>1, SingleGateInvariant, PTL

\* Likewise: a node runs only after everything it depends on has ended.
THEOREM DependenciesSettledHolds ==
  SingleGateLayers => (Spec => []DependenciesSettled)
  BY SingleGateInvariant, DependenciesDone, PTL

\* Likewise: a completed execution has no node left and no gate unanswered.
THEOREM CompletedMeansSettledHolds ==
  SingleGateLayers => (Spec => []CompletedMeansSettled)
<1>1. SingleGateInv => CompletedMeansSettled
  BY DEF SingleGateInv, LayersBehind
<1> QED
  BY <1>1, SingleGateInvariant, PTL


-----------------------------------------------------------------------------
(* The executor keeps the promise of ReviewedRun when every review gate has  *)
(* its layer to itself, for any workflows, edits, resumes and crashes.       *)

\* A gate alone in its layer is the only gate of its layer.
LEMMA LoneIsSingle == LoneGateLayers => SingleGateLayers
  BY DEF LoneGateLayers, SingleGateLayers

\* Before any run no gate has asked or been approved.
LEMMA InitLoneGate == Init => LoneGateInv
  BY InitSingleGate DEF Init, LoneGateInv, Tasked

\* The inductive step; its part about SingleGateInv is NextSingleGate.
LEMMA NextLoneGate ==
  ASSUME LoneGateLayers, LoneGateInv, [Next]_vars
  PROVE  LoneGateInv'
<1> USE DEF LoneGateInv, SingleGateInv, TypeOK, Tasked, Layer, Ahead, record, frames, history
<1>1. SingleGateInv'
  BY LoneIsSingle, NextSingleGate DEF LoneGateInv
<1>2. CASE Execute
  <2>1. asks = {} /\ approved = {} /\ Tasked = {} /\ pc = "idle"
    BY <1>2 DEF Execute, LayersBehind
  <2>2. \A n \in Def[stored].nodes : n \in Node
    BY <1>2, DefType DEF Execute
  <2> QED
    BY <1>1, <1>2, <2>1, <2>2 DEF Execute
<1>3. CASE ResumeReject \/ ResumeGone
  BY <1>1, <1>3 DEF ResumeReject, ResumeGone
<1>4. CASE Resume
  BY <1>1, <1>4 DEF Resume, OneGateWaits, Waiting
<1>5. CASE Sort
  BY <1>1, <1>5, DefType DEF Sort, TasksInLayer
<1>6. CASE Dispatch
  BY <1>1, <1>6, DefType DEF Dispatch, Tasks, AtLayer, TasksInLayer, LoneGateLayers
<1>7. CASE NothingToDo
  <2>1. \A n \in Def[wf].nodes : n \in Ahead' => n \in Ahead
    <3>1. wf \in Version /\ pc = "layer"
      BY <1>7 DEF NothingToDo, AtLayer, TasksInLayer
    <3>2. \A n \in Def[wf].nodes : Def[wf].layer[n] \in Nat
      BY <3>1, DefType
    <3> QED
      BY <1>7, <3>1, <3>2 DEF NothingToDo
  <2> QED
    BY <1>1, <1>7, <2>1 DEF NothingToDo, AtLayer
<1>8. CASE Gathered
  BY <1>1, <1>8 DEF Gathered
<1>9. CASE GatesChecked
  BY <1>1, <1>9, DefType DEF GatesChecked, TasksInLayer
<1>10. CASE Finish
  BY <1>1, <1>10 DEF Finish
<1>11. ASSUME NEW g \in Node, PauseForReview(g) PROVE LoneGateInv'
  <2>1. g \in Layer /\ g \notin Ahead /\ Tasked = {}
    BY <1>11, DefType DEF PauseForReview, UnansweredGates, TasksInLayer
  <2> QED
    BY <1>1, <1>11, <2>1 DEF PauseForReview
<1>12. ASSUME NEW n \in Node, Start(n) PROVE LoneGateInv'
  <2>1. n \in Layer /\ (pc # "idle" => n \notin Ahead)
    BY <1>12, DefType DEF Start, TasksInLayer
  <2> QED
    BY <1>1, <1>12, <2>1 DEF Start
<1>13. ASSUME NEW n \in Node, StartUnknown(n) PROVE LoneGateInv'
  BY <1>1, <1>13 DEF StartUnknown
<1>14. ASSUME NEW n \in Node, Succeed(n) PROVE LoneGateInv'
  <2>1. n \in Layer /\ (pc # "idle" => n \notin Ahead)
    BY <1>14, DefType DEF Succeed, TasksInLayer
  <2>2. n \notin asks /\ n \notin approved
    BY <1>14 DEF Succeed
  <2>3. (asks \subseteq {m \in Node : node[m] \in {"completed", "awaiting_review"}})'
    BY <1>14, <2>2 DEF Succeed
  <2>4. (approved \subseteq {m \in Node : node[m] = "completed"})'
    BY <1>14, <2>2 DEF Succeed
  <2>5. (\A m \in Tasked : node[m] \notin {"completed", "awaiting_review"})'
    BY <1>14 DEF Succeed
  <2>6. (pc # "idle" /\ mode = "execute" => \A m \in Ahead : node[m] = "pending")'
    BY <1>14, <2>1 DEF Succeed
  <2>7. (pc \in {"gather", "gates"} /\ status = "failed" =>
           \E m \in Layer \ Tasked : node[m] = "failed")'
    BY <1>14, <2>1 DEF Succeed
  <2>8. /\ pc' \in {"gather", "gates"} => (Layer \cap Def[wf].gates \cap approved = {})'
        /\ pc' = "sort" => status' = "running"
        /\ status' = "none" => \A m \in Node : node'[m] = "absent"
    BY <1>14 DEF Succeed, LayersBehind, TasksInLayer
  <2> HIDE DEF SingleGateInv, TypeOK, Tasked, Layer, Ahead
  <2> QED
    BY <1>1, <2>3, <2>4, <2>5, <2>6, <2>7, <2>8
<1>15. ASSUME NEW n \in Node, FailRetry(n) PROVE LoneGateInv'
  BY <1>1, <1>15 DEF FailRetry
<1>16. ASSUME NEW n \in Node, Fail(n) PROVE LoneGateInv'
  <2>1. n \in Layer /\ (pc # "idle" => n \notin Ahead)
    BY <1>16, DefType DEF Fail, TasksInLayer
  <2>2. n \notin asks /\ n \notin approved
    BY <1>16 DEF Fail
  <2>3. (asks \subseteq {m \in Node : node[m] \in {"completed", "awaiting_review"}})'
    BY <1>16, <2>2 DEF Fail
  <2>4. (approved \subseteq {m \in Node : node[m] = "completed"})'
    BY <1>16, <2>2 DEF Fail
  <2>5. (\A m \in Tasked : node[m] \notin {"completed", "awaiting_review"})'
    BY <1>16 DEF Fail
  <2>6. (pc # "idle" /\ mode = "execute" => \A m \in Ahead : node[m] = "pending")'
    BY <1>16, <2>1 DEF Fail
  <2>7. (pc \in {"gather", "gates"} /\ status = "failed" =>
           \E m \in Layer \ Tasked : node[m] = "failed")'
    BY <1>16, <2>1 DEF Fail
  <2>8. /\ pc' \in {"gather", "gates"} => (Layer \cap Def[wf].gates \cap approved = {})'
        /\ pc' = "sort" => status' = "running"
        /\ status' = "none" => \A m \in Node : node'[m] = "absent"
    BY <1>16 DEF Fail, LayersBehind, TasksInLayer
  <2> HIDE DEF SingleGateInv, TypeOK, Tasked, Layer, Ahead
  <2> QED
    BY <1>1, <2>3, <2>4, <2>5, <2>6, <2>7, <2>8
<1>17. CASE EditWorkflow \/ Crash
  BY <1>1, <1>17 DEF EditWorkflow, Crash
<1>18. CASE UNCHANGED vars
  BY <1>1, <1>18 DEF vars
<1> QED
  BY <1>2, <1>3, <1>4, <1>5, <1>6, <1>7, <1>8, <1>9, <1>10, <1>11, <1>12, <1>13,
     <1>14, <1>15, <1>16, <1>17, <1>18 DEF Next, Walk, Work

\* With each review gate alone in its layer the invariant always holds: what
\* asks or was approved has completed, and approved gates are not run again.
THEOREM LoneGateInvariant == LoneGateLayers => (Spec => []LoneGateInv)
<1>1. SUFFICES ASSUME LoneGateLayers PROVE Spec => []LoneGateInv
  OBVIOUS
<1>2. LoneGateInv /\ [Next]_vars => LoneGateInv'
  BY <1>1, NextLoneGate
<1> QED
  BY InitLoneGate, <1>2, PTL DEF Spec

-----------------------------------------------------------------------------
(* What a pause may do. *)

\* A gate that pauses a run asks for the first time, in a run that goes well.
LEMMA PauseIsFirst ==
  ASSUME LoneGateLayers, LoneGateInv, NEW g \in Node, PauseForReview(g)
  PROVE  status = "running" /\ g \notin approved
<1>1. /\ pc = "gates" /\ g \in Layer \cap Def[wf].gates \cap asks
      /\ wf \in Version /\ due # {}
  BY DEF PauseForReview, LoneGateInv, SingleGateInv, UnansweredGates, TasksInLayer
<1>2. g \notin approved
  BY <1>1 DEF LoneGateInv
<1>3. Layer = {g}
  BY <1>1, DefType DEF LoneGateLayers, Layer
<1>4. status # "failed"
  BY <1>1, <1>3 DEF LoneGateInv
<1>5. status # "awaiting_review"
  BY <1>1 DEF LoneGateInv, SingleGateInv, OneGateWaits
<1> QED
  BY <1>1, <1>2, <1>4, <1>5 DEF LoneGateInv, SingleGateInv, LayersBehind, TypeOK, Status

\* A pause never hides a failure, when gates have their layers to themselves.
THEOREM FailureIsFinalHolds == LoneGateLayers => (Spec => FailureIsFinal)
<1>1. SUFFICES ASSUME LoneGateLayers PROVE Spec => FailureIsFinal
  OBVIOUS
<1>2. LoneGateInv /\ [Next]_vars => [status = "failed" => status' = "failed"]_vars
  <2> SUFFICES ASSUME LoneGateInv, Next, status = "failed" PROVE status' = "failed"
    OBVIOUS
  <2>1. ASSUME NEW g \in Node PROVE ~PauseForReview(g)
    BY <1>1, PauseIsFirst
  <2> QED
    BY <2>1 DEF Next, Execute, Resume, ResumeReject, ResumeGone, Walk, Sort, Dispatch,
       NothingToDo, Gathered, GatesChecked, Finish, Work, Start, StartUnknown, Succeed,
       FailRetry, Fail, EditWorkflow, Crash, record, frames, history, LoneGateInv
<1> QED
  BY LoneGateInvariant, <1>1, <1>2, PTL DEF Spec, FailureIsFinal

\* An approved gate does not ask again, when gates have their layers to
\* themselves.
THEOREM ApprovalIsFinalHolds == LoneGateLayers => (Spec => ApprovalIsFinal)
<1>1. SUFFICES ASSUME LoneGateLayers PROVE Spec => ApprovalIsFinal
  OBVIOUS
<1>2. LoneGateInv /\ [Next]_vars => [approved \subseteq approved']_vars
  <2> SUFFICES ASSUME LoneGateInv, Next PROVE approved \subseteq approved'
    OBVIOUS
  <2>1. ASSUME NEW g \in Node, PauseForReview(g) PROVE approved' = approved
    BY <1>1, <2>1, PauseIsFirst DEF PauseForReview
  <2> QED
    BY <2>1 DEF Next, Execute, Resume, ResumeReject, ResumeGone, Walk, Sort, Dispatch,
       NothingToDo, Gathered, GatesChecked, Finish, Work, Start, StartUnknown, Succeed,
       FailRetry, Fail, EditWorkflow, Crash, record, frames, history
<1> QED
  BY LoneGateInvariant, <1>1, <1>2, PTL DEF Spec, ApprovalIsFinal

-----------------------------------------------------------------------------
(* Refinement. *)

\* An engine that has run nothing is a run that has not begun.
LEMMA InitRefines == Init => Run!Init
  BY DEF Init, Run!Init

\* Each action is one of ReviewedRun's, or changes nothing it sees.
LEMMA NextRefines ==
  ASSUME LoneGateLayers, LoneGateInv, [Next]_vars
  PROVE  [Run!Next]_(Run!runvars)
<1> USE DEF Run!runvars, record, frames, history
<1>1. CASE Execute
  BY <1>1 DEF Execute, Run!Next, Run!Begin
<1>2. CASE Resume
  <2>1. paused \in Node
    BY <1>2 DEF Resume, LoneGateInv, SingleGateInv, OneGateWaits, Waiting
  <2> QED
    BY <1>2, <2>1 DEF Resume, Run!Next, Run!Answer
<1>3. CASE ResumeReject \/ ResumeGone
  BY <1>3 DEF ResumeReject, ResumeGone, Run!Next, Run!GiveUp
<1>4. CASE Sort
  BY <1>4 DEF Sort, LoneGateInv, Run!Next, Run!End
<1>5. CASE Dispatch \/ NothingToDo \/ Gathered \/ GatesChecked
  BY <1>5 DEF Dispatch, NothingToDo, Gathered, GatesChecked
<1>6. CASE Finish
  BY <1>6 DEF Finish, Run!Next, Run!End
<1>7. ASSUME NEW g \in Node, PauseForReview(g) PROVE Run!Next
  <2>1. status = "running" /\ g \notin approved
    BY <1>7, PauseIsFirst
  <2>2. Run!Ask(g)
    BY <1>7, <2>1 DEF PauseForReview, Run!Ask
  <2> QED
    BY <2>2 DEF Run!Next
<1>8. ASSUME NEW n \in Node, Start(n) PROVE Run!Next
  <2>1. status \in {"running", "failed"}
    BY <1>8 DEF Start, LoneGateInv, SingleGateInv, TasksInLayer, OneGateWaits,
       LayersBehind, TypeOK, Status, Tasked
  <2>2. Run!Attempt(n)
    BY <1>8, <2>1 DEF Start, Run!Attempt
  <2> QED
    BY <2>2 DEF Run!Next
<1>9. ASSUME NEW n \in Node, StartUnknown(n) \/ Fail(n) PROVE [Run!Next]_(Run!runvars)
  <2>1. status \in {"running", "failed"}
    BY <1>9 DEF StartUnknown, Fail, LoneGateInv, SingleGateInv, TasksInLayer,
       OneGateWaits, LayersBehind, TypeOK, Status, Tasked
  <2> QED
    BY <1>9, <2>1 DEF StartUnknown, Fail, Run!Next, Run!End
<1>10. ASSUME NEW n \in Node, Succeed(n) \/ FailRetry(n)
       PROVE  [Run!Next]_(Run!runvars)
  BY <1>10 DEF Succeed, FailRetry
<1>11. CASE EditWorkflow \/ Crash
  BY <1>11 DEF EditWorkflow, Crash
<1>12. CASE UNCHANGED vars
  BY <1>12 DEF vars
<1> QED
  BY <1>1, <1>2, <1>3, <1>4, <1>5, <1>6, <1>7, <1>8, <1>9, <1>10, <1>11, <1>12
     DEF Next, Walk, Work

\* The executor implements ReviewedRun for every set of workflows whose review
\* gates have their layers to themselves.
THEOREM Refinement == LoneGateLayers => (Spec => ImplementsReviewedRun)
<1>1. SUFFICES ASSUME LoneGateLayers PROVE Spec => Run!Spec
  BY DEF ImplementsReviewedRun
<1>2. LoneGateInv /\ [Next]_vars => [Run!Next]_(Run!runvars)
  BY <1>1, NextRefines
<1> QED
  BY LoneGateInvariant, InitRefines, <1>1, <1>2, PTL DEF Spec, Run!Spec

=============================================================================
