------------------------------ MODULE DAGEngine ------------------------------
(***************************************************************************)
(* The workflow executor, workflow_engine/engine/executor.py: one execution *)
(* of one workflow, from DAGEngine.execute through any number of review    *)
(* pauses and DAGEngine.resume calls to its end.                            *)
(*                                                                          *)
(* A step is what one asyncio task does between two points where another    *)
(* task of the event loop may run or the process may die with the state     *)
(* just saved.  Every action ends in ExecutionStore.save, so the variables  *)
(* below are the saved ExecutionState, and the control variables (pc, mode, *)
(* level, task, due, wf) are the coroutine frames, lost in a crash.         *)
(***************************************************************************)
EXTENDS WorkflowGraph

CONSTANTS
  Node,          \* node ids
  Version,       \* names of the definitions a user may store over time
  Def,           \* the definition each version is, see Definition below
  MaxAttempts,   \* RetryConfig.max_attempts
  MaxResumes,    \* bound: how often a paused execution is resumed
  MaxEdits,      \* bound: how often the stored definition is edited or deleted
  MaxCrashes,    \* bound: how often the process dies
  None           \* no node, no definition

(***************************************************************************)
(* A definition, with the layers TopologicalSort.sort gives it (a node's    *)
(* index in the list of layers; module TopologicalSort computes them).      *)
(***************************************************************************)
Policy == {"fail_workflow", "fail_node", "retry", "skip"}

Definition ==
  [nodes : SUBSET Node, deps : [Node -> SUBSET Node], gates : SUBSET Node,
   policy : [Node -> Policy], layer : [Node -> Nat]]

\* DAGValidator.validate: connections join nodes of the workflow, no cycle.
Valid(w) ==
  /\ \A n \in Node : w.deps[n] # {} => n \in w.nodes /\ w.deps[n] \subseteq w.nodes
  /\ Acyclic(w)

ASSUME EngineAssumption ==
  /\ Def \in [Version -> Definition]
  /\ \A v \in Version : Acyclic(Def[v]) => Layered(Def[v])
  /\ MaxAttempts \in Nat
  /\ MaxResumes \in Nat /\ MaxEdits \in Nat /\ MaxCrashes \in Nat
  /\ None \notin Node /\ None \notin Version

-----------------------------------------------------------------------------
VARIABLES
  stored,    \* the version in the workflow store, or None once deleted
  status,    \* ExecutionState.status ("none": no execution yet)
  node,      \* NodeExecutionState.status ("absent": no entry in node_states)
  attempts,  \* NodeExecutionState.attempts
  asks,      \* nodes whose outputs say status = "pending_review"
  paused,    \* ExecutionState.paused_node_id
  wf,        \* the version the engine coroutine holds
  mode,      \* which loop runs: "execute" or "resume"
  pc,        \* where the engine coroutine is
  level,     \* index of the layer it is at
  task,      \* the gathered _execute_node tasks
  due,       \* nodes of the layer the gate check has not reached
  approved,  \* history: gates a resume call let through since they last asked
  resumes, edits, crashes

record  == <<status, node, attempts, asks, paused>>
frames  == <<wf, mode, pc, level, task, due>>
history == <<approved, resumes, edits, crashes>>
vars    == <<stored, record, frames, history>>

NodeStatus == {"absent", "pending", "running", "completed", "failed",
               "skipped", "awaiting_review"}
Status == {"none", "running", "completed", "failed", "awaiting_review",
           "rejected"}

\* The type of the variables (ExecutionState of engine/models.py).
TypeOK ==
  /\ stored \in Version \cup {None}
  /\ status \in Status
  /\ node \in [Node -> NodeStatus]
  /\ attempts \in [Node -> Nat]
  /\ asks \subseteq Node /\ approved \subseteq Node /\ due \subseteq Node
  /\ paused \in Node \cup {None}
  /\ wf \in Version \cup {None}
  /\ mode \in {"execute", "resume"}
  /\ pc \in {"idle", "sort", "layer", "gather", "gates"}
  /\ level \in Nat
  /\ task \in [Node -> {"none", "queued", "executing", "sleeping"}]
  /\ resumes \in 0..MaxResumes /\ edits \in 0..MaxEdits
  /\ crashes \in 0..MaxCrashes

Init ==
  /\ stored \in Version
  /\ status = "none"
  /\ node = [n \in Node |-> "absent"]
  /\ attempts = [n \in Node |-> 0]
  /\ asks = {} /\ approved = {} /\ due = {}
  /\ paused = None /\ wf = None
  /\ mode = "execute" /\ pc = "idle" /\ level = 0
  /\ task = [n \in Node |-> "none"]
  /\ resumes = 0 /\ edits = 0 /\ crashes = 0

-----------------------------------------------------------------------------
(* Starting and resuming an execution. *)

\* execute: a fresh state, all nodes pending, saved as "running".
Execute ==
  /\ status = "none" /\ stored # None
  /\ wf' = stored /\ mode' = "execute" /\ pc' = "sort"
  /\ status' = "running"
  /\ node' = [n \in Node |-> IF n \in Def[stored].nodes THEN "pending" ELSE "absent"]
  /\ UNCHANGED <<stored, attempts, asks, paused, level, task, due, history>>

\* resume(action = "reject"): only the status changes.
ResumeReject ==
  /\ status = "awaiting_review" /\ pc = "idle"
  /\ status' = "rejected"
  /\ UNCHANGED <<stored, node, attempts, asks, paused, frames, history>>

\* resume: the workflow was deleted while the execution was paused.
ResumeGone ==
  /\ status = "awaiting_review" /\ pc = "idle" /\ stored = None
  /\ status' = "failed"
  /\ UNCHANGED <<stored, node, attempts, asks, paused, frames, history>>

\* resume: the one paused node counts as completed, its outputs still say
\* pending_review; the layers of the definition as stored now are walked again.
Resume ==
  /\ status = "awaiting_review" /\ pc = "idle" /\ stored # None
  /\ resumes < MaxResumes /\ resumes' = resumes + 1
  /\ node' = [n \in Node |->
                IF n = paused /\ node[n] # "absent" THEN "completed" ELSE node[n]]
  /\ approved' = approved \cup ({paused} \cap Node)
  /\ status' = "running"
  /\ wf' = stored /\ mode' = "resume" /\ pc' = "sort"
  /\ UNCHANGED <<stored, attempts, asks, paused, level, task, due, edits, crashes>>

\* execute refuses what validate finds wrong, resume only what sort refuses.
Refused == IF mode = "execute" THEN ~Valid(Def[wf]) ELSE ~Acyclic(Def[wf])

Sort ==
  /\ pc = "sort"
  /\ \/ /\ Refused
        /\ status' = "failed" /\ pc' = "idle"
     \/ /\ ~Refused
        /\ pc' = "layer" /\ UNCHANGED status
  /\ level' = 0
  /\ UNCHANGED <<stored, node, attempts, asks, paused, wf, mode, task, due, history>>

-----------------------------------------------------------------------------
(* The loop over layers. *)

Layer == {n \in Def[wf].nodes : Def[wf].layer[n] = level}

PausedDep(n) == \E d \in Def[wf].deps[n] : node[d] = "awaiting_review"

\* Mutant of Tasks: resume runs every node again.
TasksAll == {n \in Layer : ~PausedDep(n)}

\* The nodes of the layer that get a task.
Tasks ==
  {n \in Layer : /\ ~PausedDep(n)
                 /\ mode = "resume" => node[n] \notin {"completed", "awaiting_review"}}

AtLayer == pc = "layer" /\ status # "failed" /\ Layer # {}

\* asyncio.gather over the layer's tasks.
Dispatch ==
  /\ AtLayer /\ Tasks # {}
  /\ task' = [n \in Node |-> IF n \in Tasks THEN "queued" ELSE task[n]]
  /\ pc' = "gather"
  /\ UNCHANGED <<stored, record, wf, mode, level, due, history>>

\* "if not tasks: continue": on to the next layer without a gate check.
NothingToDo ==
  /\ AtLayer /\ Tasks = {}
  /\ level' = level + 1
  /\ UNCHANGED <<stored, record, wf, mode, pc, task, due, history>>

\* Mutant of Gathered: gather does not wait for a task that sleeps.
GatheredEarly ==
  /\ pc = "gather" /\ \A n \in Node : task[n] \in {"none", "sleeping"}
  /\ due' = Layer \cap Def[wf].gates \cap asks
  /\ pc' = "gates"
  /\ UNCHANGED <<stored, record, wf, mode, level, task, history>>

\* Mutant of Gathered: no gate is looked at.
GatheredUnchecked ==
  /\ pc = "gather" /\ \A n \in Node : task[n] = "none"
  /\ due' = {}
  /\ pc' = "gates"
  /\ UNCHANGED <<stored, record, wf, mode, level, task, history>>

\* All gathered tasks have returned: look at the layer's gates.
Gathered ==
  /\ pc = "gather" /\ \A n \in Node : task[n] = "none"
  /\ due' = Layer \cap Def[wf].gates \cap asks
  /\ pc' = "gates"
  /\ UNCHANGED <<stored, record, wf, mode, level, task, history>>

\* _pause_for_review, for each gate of the layer whose outputs ask for review;
\* each call overwrites paused_node_id and, whatever it was, the status.
PauseForReview(g) ==
  /\ pc = "gates" /\ g \in due
  /\ node' = [node EXCEPT ![g] = "awaiting_review"]
  /\ status' = "awaiting_review"
  /\ paused' = g
  /\ due' = due \ {g}
  /\ approved' = approved \ {g}
  /\ UNCHANGED <<stored, attempts, asks, wf, mode, pc, level, task,
                 resumes, edits, crashes>>

\* Mutant of GatesChecked: the loop goes on after a pause.
GatesCheckedNoBreak ==
  /\ pc = "gates" /\ due = {}
  /\ pc' = "layer" /\ level' = level + 1
  /\ UNCHANGED <<stored, record, wf, mode, task, due, history>>

\* The gate check is over: stop if it paused the run, else take the next layer.
GatesChecked ==
  /\ pc = "gates" /\ due = {}
  /\ \/ /\ status = "awaiting_review"
        /\ pc' = "idle" /\ UNCHANGED level
     \/ /\ status # "awaiting_review"
        /\ pc' = "layer" /\ level' = level + 1
  /\ UNCHANGED <<stored, record, wf, mode, task, due, history>>

\* Mutant of Finish: whatever left the loop is completed.
FinishAlways ==
  /\ pc = "layer" /\ (status = "failed" \/ Layer = {})
  /\ pc' = "idle"
  /\ status' = "completed"
  /\ UNCHANGED <<stored, node, attempts, asks, paused, wf, mode, level, task,
                 due, history>>

\* Left the loop: by its end or by a failure in the last layer.
Finish ==
  /\ pc = "layer" /\ (status = "failed" \/ Layer = {})
  /\ pc' = "idle"
  /\ status' = IF status = "running" THEN "completed" ELSE status
  /\ UNCHANGED <<stored, node, attempts, asks, paused, wf, mode, level, task,
                 due, history>>

-----------------------------------------------------------------------------
(* _execute_node. *)

\* Mutant of Start: a retry is not counted.
StartUncounted(n) ==
  /\ task[n] \in {"queued", "sleeping"} /\ node[n] # "absent"
  /\ task' = [task EXCEPT ![n] = "executing"]
  /\ node' = [node EXCEPT ![n] = "running"]
  /\ UNCHANGED <<stored, status, attempts, asks, paused, wf, mode, pc, level, due,
                 history>>

\* The first lines: the node is running and one more attempt is counted; the
\* task goes on until node.execute first awaits.
Start(n) ==
  /\ task[n] \in {"queued", "sleeping"} /\ node[n] # "absent"
  /\ task' = [task EXCEPT ![n] = "executing"]
  /\ node' = [node EXCEPT ![n] = "running"]
  /\ attempts' = [attempts EXCEPT ![n] = @ + 1]
  /\ UNCHANGED <<stored, status, asks, paused, wf, mode, pc, level, due, history>>

\* A node added since the execution began has no entry in node_states: the
\* KeyError leaves gather and fails the run, its sibling tasks run on.
StartUnknown(n) ==
  /\ task[n] = "queued" /\ node[n] = "absent"
  /\ task' = [task EXCEPT ![n] = "none"]
  /\ IF pc = "gather"
       THEN status' = "failed" /\ pc' = "idle"
       ELSE UNCHANGED <<status, pc>>
  /\ UNCHANGED <<stored, node, attempts, asks, paused, wf, mode, level, due, history>>

\* node.execute returned; a review gate that was given data asks for review.
Succeed(n) ==
  /\ task[n] = "executing"
  /\ task' = [task EXCEPT ![n] = "none"]
  /\ node' = [node EXCEPT ![n] = "completed"]
  /\ \/ n \in Def[wf].gates /\ asks' = asks \cup {n}
     \/ asks' = asks \ {n}
  /\ UNCHANGED <<stored, status, attempts, paused, wf, mode, pc, level, due, history>>

Retries(n) == Def[wf].policy[n] = "retry" /\ attempts[n] < MaxAttempts

\* node.execute raised and another attempt is left: sleep, then try again.
FailRetry(n) ==
  /\ task[n] = "executing" /\ Retries(n)
  /\ task' = [task EXCEPT ![n] = "sleeping"]
  /\ UNCHANGED <<stored, record, wf, mode, pc, level, due, history>>

\* node.execute raised and the node gives up, as its error policy says.
Fail(n) ==
  /\ task[n] = "executing" /\ ~Retries(n)
  /\ task' = [task EXCEPT ![n] = "none"]
  /\ node' = [node EXCEPT ![n] =
                IF Def[wf].policy[n] = "skip" THEN "skipped" ELSE "failed"]
  /\ status' = IF Def[wf].policy[n] \in {"skip", "fail_node"} THEN status ELSE "failed"
  /\ UNCHANGED <<stored, attempts, asks, paused, wf, mode, pc, level, due, history>>

-----------------------------------------------------------------------------
(* The surroundings. *)

\* update_workflow and delete_workflow.
EditWorkflow ==
  /\ stored # None /\ edits < MaxEdits
  /\ edits' = edits + 1
  /\ stored' \in (Version \cup {None}) \ {stored}
  /\ UNCHANGED <<record, frames, approved, resumes, crashes>>

\* The process dies: coroutines and tasks are gone, the saved state stays.
Crash ==
  /\ pc # "idle" \/ \E n \in Node : task[n] # "none"
  /\ crashes < MaxCrashes
  /\ crashes' = crashes + 1
  /\ pc' = "idle" /\ due' = {}
  /\ task' = [n \in Node |-> "none"]
  /\ UNCHANGED <<stored, record, wf, mode, level, approved, resumes, edits>>

Walk == Sort \/ Dispatch \/ NothingToDo \/ Gathered \/ GatesChecked \/ Finish
Work(n) == Start(n) \/ StartUnknown(n) \/ Succeed(n) \/ FailRetry(n) \/ Fail(n)

Next ==
  \/ Execute \/ Resume \/ ResumeReject \/ ResumeGone
  \/ Walk
  \/ \E n \in Node : PauseForReview(n) \/ Work(n)
  \/ EditWorkflow \/ Crash

Spec == Init /\ [][Next]_vars

\* The event loop gets round to every ready task, and nodes return or raise.
Fairness ==
  /\ WF_vars(Walk)
  /\ \A n \in Node : WF_vars(PauseForReview(n)) /\ WF_vars(Work(n))

FairSpec == Spec /\ Fairness

-----------------------------------------------------------------------------
(* Properties. *)

\* The nodes of w that depend on g, directly or through others.
Descendants(w, g) ==
  {n \in w.nodes :
     \A S \in SUBSET w.nodes :
       (\A m \in w.nodes : Sources(w, m) \cap (S \cup {g}) # {} => m \in S) => n \in S}

Working == {n \in Node : task[n] \in {"executing", "sleeping"}}
Waiting == {n \in Node : node[n] = "awaiting_review"}

\* No node runs below a review gate that waits for a review, or that asked for
\* one no reviewer gave ("prevents downstream nodes from executing").
GateBlocksDescendants ==
  wf # None =>
    \A g \in Def[wf].gates \cap Def[wf].nodes :
      (g \in Waiting \/ g \in asks \ approved)
        => Descendants(Def[wf], g) \cap Working = {}

\* A paused execution names the one gate that waits: the gate resume lets
\* through is all there is to answer, and nothing runs meanwhile.
PauseNamesTheGate ==
  status = "awaiting_review" /\ pc = "idle" => Waiting = {paused} /\ Working = {}

\* An execution is completed only when every node has run to an end and every
\* gate that asked for review was answered.
CompletedMeansSettled ==
  status = "completed" =>
    \A n \in Def[wf].nodes :
      /\ node[n] \in {"completed", "skipped", "failed"}
      /\ n \in Def[wf].gates \cap asks => n \in approved

\* A node runs only when every dependency has ended (the layer barrier holds
\* through retries, reviews and edits of the stored definition).
DependenciesSettled ==
  \A n \in Working : \A d \in Sources(Def[wf], n) :
    node[d] \in {"completed", "skipped", "failed"}

\* Once failed, an execution stays failed: a pause never hides the failure of a
\* node that ran beside the gate.
FailureIsFinal == [][status = "failed" => status' = "failed"]_vars

\* A gate a reviewer let through does not ask again.
ApprovalIsFinal == [][approved \subseteq approved']_vars

\* The engine always comes to rest: finished, failed or waiting for a reviewer.
EngineComesToRest == pc # "idle" ~> pc = "idle" /\ status # "running"

-----------------------------------------------------------------------------
(* The inductive invariant behind the safety properties, for workflows with  *)
(* at most one review gate in a layer.                                       *)

Tasked  == {n \in Node : task[n] # "none"}
Settled == {n \in Node : node[n] \in {"completed", "skipped", "failed"}}

\* Tasks belong to the engine's layer; those that outlive it do so because an
\* unknown node failed the run.
TasksInLayer ==
  /\ pc \in {"layer", "gather", "gates"} \/ Tasked # {} =>
       wf \in Version /\ Acyclic(Def[wf])
  /\ pc = "sort" => wf \in Version
  /\ Tasked # {} => /\ Tasked \subseteq Layer
                    /\ pc = "gather" \/ (pc = "idle" /\ status = "failed")

\* Only the paused gate waits, and only while the engine is at rest.
OneGateWaits ==
  /\ Waiting # {} => /\ Waiting = {paused} /\ Tasked = {}
                     /\ \/ pc = "idle" /\ status \in {"awaiting_review", "rejected", "failed"}
                        \/ pc = "gates" /\ status = "awaiting_review" /\ due = {}
  /\ status = "awaiting_review" => Waiting # {}

\* A gate that asked and was not answered waits, or is in the layer at hand, or
\* belongs to a run that is over.
UnansweredGates ==
  /\ \A g \in asks \ approved :
       \/ g \in Waiting
       \/ /\ pc \in {"gather", "gates"} /\ g \in Layer \cap Def[wf].gates
          /\ pc = "gates" => g \in due
       \/ /\ pc = "idle" /\ status \in {"running", "failed"}
          /\ Tasked # {} => g \in Layer
  /\ pc = "gates" => due \subseteq Layer \cap Def[wf].gates \cap asks

\* What lies behind the engine has ended.
LayersBehind ==
  /\ pc \in {"layer", "gather", "gates"} \/ Tasked # {} =>
       \A n \in Def[wf].nodes : Def[wf].layer[n] < level => n \in Settled
  /\ pc = "gather" => Layer \subseteq Settled \cup Tasked
  /\ pc = "gates" => Layer \subseteq Settled \cup Waiting
  /\ status \in {"completed", "rejected", "none"} => pc = "idle" /\ Tasked = {}
  /\ CompletedMeansSettled

SingleGateInv ==
  /\ TypeOK
  /\ TasksInLayer
  /\ OneGateWaits
  /\ UnansweredGates
  /\ LayersBehind

-----------------------------------------------------------------------------
(* The promise, kept where a review gate has its layer to itself.            *)

Run == INSTANCE ReviewedRun WITH
         phase  <- IF status = "awaiting_review" THEN "waiting" ELSE status,
         gate   <- IF status = "awaiting_review" THEN paused ELSE None,
         passed <- approved,
         effort <- attempts

\* Every behaviour of the executor is one of ReviewedRun's.
ImplementsReviewedRun == Run!Spec

\* The layers a run has not reached.
Ahead == {n \in Def[wf].nodes : \/ pc = "sort"
                                \/ pc = "layer" /\ Def[wf].layer[n] = level
                                \/ Def[wf].layer[n] > level}

\* What asked or was approved has completed and is not run again; a failure
\* during a layer is a failed node of that layer; a gate of the layer at hand
\* was not approved before.
LoneGateInv ==
  /\ SingleGateInv
  /\ asks \subseteq {n \in Node : node[n] \in {"completed", "awaiting_review"}}
  /\ approved \subseteq {n \in Node : node[n] = "completed"}
  /\ \A n \in Tasked : node[n] \notin {"completed", "awaiting_review"}
  /\ pc # "idle" /\ mode = "execute" => \A n \in Ahead : node[n] = "pending"
  /\ pc \in {"gather", "gates"} /\ status = "failed" =>
       \E n \in Layer \ Tasked : node[n] = "failed"
  /\ pc \in {"gather", "gates"} => Layer \cap Def[wf].gates \cap approved = {}
  /\ pc = "sort" => status = "running"
  /\ status = "none" => \A n \in Node : node[n] = "absent"

=============================================================================
