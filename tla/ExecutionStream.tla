--------------------------- MODULE ExecutionStream ---------------------------
(***************************************************************************)
(* The event stream of workflow executions: DAGEngine emits events          *)
(* (engine/executor.py), emit_event puts them into the queue of the         *)
(* execution if there is one, and WebSocket endpoints take them out          *)
(* (stream.py, api.py).                                                     *)
(*                                                                         *)
(* Everything happens in the tasks of one event loop.  An execution is       *)
(* taken down to what it emits: between two awaits it emits the events of   *)
(* one action below.  A queue is named after the watcher that created it.   *)
(***************************************************************************)
EXTENDS Integers, Sequences, FiniteSets

CONSTANTS
    Exec,        \* executions
    Watcher,     \* WebSocket connections
    None,        \* no queue
    MaxSteps,    \* bound: node events of an execution
    MaxResumes   \* bound: how often an execution is resumed

ASSUME StreamAssumption ==
    /\ None \notin Watcher
    /\ MaxSteps \in Nat /\ MaxResumes \in Nat

VARIABLES
    phase,     \* where an execution is
    emitted,   \* history: the events an execution emitted
    steps, resumes,
    queueOf,   \* _execution_queues: the queue of an execution
    queue,     \* the events in each queue object
    watch,     \* where a connection is
    got,       \* the events a connection was sent
    since,     \* history: how much was emitted before it connected
    shared     \* history: executions watched by more than one at a time

engine == <<phase, emitted, steps, resumes>>
client == <<watch, got, since, shared>>
stream == <<queueOf, queue, client>>
vars == <<engine, stream>>

OnlyCompleted == {"workflow_completed"}                            \* a mutant
Terminal == {"workflow_completed", "workflow_failed"}
New == [pc |-> "new"]
Closed == [pc |-> "closed"]

Init ==
    /\ phase = [e \in Exec |-> "none"]
    /\ emitted = [e \in Exec |-> <<>>]
    /\ steps = [e \in Exec |-> 0] /\ resumes = [e \in Exec |-> 0]
    /\ queueOf = [e \in Exec |-> None]
    /\ queue = [w \in Watcher |-> <<>>]
    /\ watch = [w \in Watcher |-> New]
    /\ got = [w \in Watcher |-> <<>>]
    /\ since = [w \in Watcher |-> 0]
    /\ shared = {}

-----------------------------------------------------------------------------
(* What an execution emits                                                 *)

EmitIfRoom(e, events) ==                  \* a mutant: a queue holds one batch
    /\ emitted' = [emitted EXCEPT ![e] = @ \o events]
    /\ queue' = IF queueOf[e] = None THEN queue
                ELSE [queue EXCEPT ![queueOf[e]] = IF @ = <<>> THEN events ELSE @]
    /\ UNCHANGED <<queueOf, client>>

\* emit_event, for each event in turn: without a queue it is dropped.
Emit(e, events) ==
    /\ emitted' = [emitted EXCEPT ![e] = @ \o events]
    /\ queue' = IF queueOf[e] = None THEN queue
                ELSE [queue EXCEPT ![queueOf[e]] = @ \o events]
    /\ UNCHANGED <<queueOf, client>>

Become(e, p) == phase' = [phase EXCEPT ![e] = p]

Start(e) ==
    /\ phase[e] = "none"
    /\ Become(e, "executing") /\ Emit(e, <<"started">>)
    /\ UNCHANGED <<steps, resumes>>

\* A node starts, completes or fails.  After _fail_workflow, tasks of the layer
\* that were gathered with the one that failed may go on.
NodeEvent(e) ==
    /\ phase[e] \in {"executing", "resumed", "straggling"}
    /\ steps[e] < MaxSteps
    /\ steps' = [steps EXCEPT ![e] = @ + 1]
    /\ Emit(e, <<"node">>)
    /\ UNCHANGED <<phase, resumes>>

\* execute returns, also when a node has failed the workflow.
Complete(e) ==
    /\ phase[e] = "executing"
    /\ Become(e, "over") /\ Emit(e, <<"workflow_completed">>)
    /\ UNCHANGED <<steps, resumes>>

\* A review gate pauses execute, which emits its last event all the same.
Pause(e) ==
    /\ phase[e] = "executing"
    /\ Become(e, "paused") /\ Emit(e, <<"paused", "workflow_completed">>)
    /\ UNCHANGED <<steps, resumes>>

PauseAgain(e) ==
    /\ phase[e] = "resumed"
    /\ Become(e, "paused") /\ Emit(e, <<"paused">>)
    /\ UNCHANGED <<steps, resumes>>

\* _fail_workflow: validation fails, or an exception ends the run.
Fail(e) ==
    /\ phase[e] \in {"executing", "resumed"}
    /\ \E p \in {"over", "straggling"} : Become(e, p)
    /\ Emit(e, <<"workflow_failed">>)
    /\ UNCHANGED <<steps, resumes>>

Resume(e) ==
    /\ phase[e] = "paused" /\ resumes[e] < MaxResumes
    /\ resumes' = [resumes EXCEPT ![e] = @ + 1]
    /\ Become(e, "resumed") /\ Emit(e, <<"resumed">>)
    /\ UNCHANGED steps

\* resume with "reject", or without a workflow to go on with.
Reject(e) ==
    /\ phase[e] = "paused"
    /\ Become(e, "over")
    /\ Emit(e, <<"rejected">>) \/ Emit(e, <<>>)
    /\ UNCHANGED <<steps, resumes>>

\* A resumed run ends, and emits nothing.
FinishResumed(e) ==
    /\ phase[e] = "resumed"
    /\ Become(e, "over") /\ Emit(e, <<>>)
    /\ UNCHANGED <<steps, resumes>>

-----------------------------------------------------------------------------
(* The connections                                                         *)

At(w, pc) == watch[w].pc = pc
On(w, e) == ~At(w, "new") /\ ~At(w, "closed") /\ watch[w].exec = e

\* get_execution_queue: the queue of the execution, or a new one.  Nobody knows
\* the id of an execution before it starts.
Connect(w, e) ==
    /\ At(w, "new") /\ phase[e] # "none"
    /\ queueOf' = [queueOf EXCEPT ![e] = IF @ = None THEN w ELSE @]
    /\ watch' = [watch EXCEPT ![w] = [pc |-> "waiting", exec |-> e,
                                      queue |-> queueOf'[e], event |-> "none"]]
    /\ since' = [since EXCEPT ![w] = Len(emitted[e])]
    /\ shared' = shared \cup (IF \E v \in Watcher : On(v, e) THEN {e} ELSE {})
    /\ UNCHANGED <<engine, queue, got>>

\* The connection goes on with an event, on the execution and the queue it has.
Proceed(w, pc, event) ==
    watch' = [watch EXCEPT ![w] = [pc |-> pc, exec |-> watch[w].exec,
                                   queue |-> watch[w].queue, event |-> event]]

\* queue.get returns an event, which is sent.
Take(w) ==
    /\ At(w, "waiting")
    /\ LET q == watch[w].queue
       IN /\ queue[q] # <<>>
          /\ Proceed(w, "sending", Head(queue[q]))
          /\ queue' = [queue EXCEPT ![q] = Tail(@)]
    /\ UNCHANGED <<engine, queueOf, got, since, shared>>

\* The timeout passes: a heartbeat is sent.
Beat(w) ==
    /\ At(w, "waiting")
    /\ queue[watch[w].queue] = <<>>
    /\ Proceed(w, "sending", "heartbeat")
    /\ UNCHANGED <<engine, queueOf, queue, got, since, shared>>

\* cleanup_queue
Cleanup(e) == queueOf' = [queueOf EXCEPT ![e] = None]

\* It was sent.  A terminal event ends the stream, whose queue is removed.
Sent(w) ==
    /\ At(w, "sending")
    /\ got' = IF watch[w].event = "heartbeat" THEN got
              ELSE [got EXCEPT ![w] = Append(@, watch[w].event)]
    /\ IF watch[w].event \in Terminal
         THEN watch' = [watch EXCEPT ![w] = Closed] /\ Cleanup(watch[w].exec)
         ELSE Proceed(w, "waiting", watch[w].event) /\ UNCHANGED queueOf
    /\ UNCHANGED <<engine, queue, since, shared>>

\* The client is gone.  The endpoint leaves its loop; the suspended generator
\* is closed by the event loop some time later.
Lost(w) ==
    /\ At(w, "sending")
    /\ Proceed(w, "left", watch[w].event)
    /\ UNCHANGED <<engine, queueOf, queue, got, since, shared>>

Close(w) ==
    /\ At(w, "left")
    /\ watch' = [watch EXCEPT ![w] = Closed] /\ Cleanup(watch[w].exec)
    /\ UNCHANGED <<engine, queue, got, since, shared>>

Runs(e) ==
    \/ Start(e) \/ NodeEvent(e) \/ Complete(e) \/ Pause(e) \/ PauseAgain(e)
    \/ Fail(e) \/ Resume(e) \/ Reject(e) \/ FinishResumed(e)

Serves(w) == Take(w) \/ Beat(w) \/ Sent(w) \/ Close(w)

Next ==
    \/ \E e \in Exec : Runs(e)
    \/ \E w \in Watcher : Serves(w) \/ Lost(w) \/ \E e \in Exec : Connect(w, e)

Spec == Init /\ [][Next]_vars

Works(e) == NodeEvent(e) \/ Complete(e) \/ Pause(e) \/ PauseAgain(e) \/ Fail(e)
               \/ FinishResumed(e)

\* The event loop gets round to every task and every node comes to an end;
\* nobody has to start, resume or watch anything.
FairSpec ==
    /\ Spec
    /\ \A e \in Exec : WF_vars(Works(e))
    /\ \A w \in Watcher : WF_vars(Serves(w))
-----------------------------------------------------------------------------
(* Properties                                                              *)

\* The event a connection has taken and not yet sent.
InFlight(w) ==
    IF At(w, "sending") /\ watch[w].event # "heartbeat" THEN <<watch[w].event>>
    ELSE <<>>

\* "Async iterator that yields events for a given execution" of
\* ExecutionEventStream: what was emitted since a client connected is what it
\* got, is being sent and has waiting for it, in that order.  Clients of one
\* execution at the same time take each other's events.
YieldsEvents ==
    \A w \in Watcher :
      (At(w, "waiting") \/ At(w, "sending")) /\ watch[w].exec \notin shared =>
        SubSeq(emitted[watch[w].exec], since[w] + 1, Len(emitted[watch[w].exec]))
            = got[w] \o InFlight(w) \o queue[watch[w].queue]

\* A client that watches an execution before execute returns is let go in the
\* end: a stream does not outlive the call (execute emits workflow_completed
\* or workflow_failed, whatever becomes of the nodes).  Of several clients only
\* one is.
StreamEnds ==
    \A w \in Watcher, e \in Exec :
        (On(w, e) /\ phase[e] = "executing") ~> (At(w, "closed") \/ e \in shared)
=============================================================================
