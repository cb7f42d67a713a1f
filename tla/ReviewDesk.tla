----------------------------- MODULE ReviewDesk -----------------------------
(***************************************************************************)
(* Review records (nodes/specialist/review_gate.py), the routes that        *)
(* resolve them and resume or delete executions (api.py), and what          *)
(* DAGEngine makes of an execution's file meanwhile (engine/executor.py).   *)
(*                                                                         *)
(* The engine and the resume route are tasks of one event loop: an action   *)
(* is what happens between two awaits.  The resolve and delete routes run   *)
(* in threads of their own, between any two file accesses of each other.    *)
(* DAGEngine says which nodes run; here an execution is its gates, its      *)
(* pauses and what is saved.                                                *)
(***************************************************************************)
EXTENDS Naturals, FiniteSets

CONSTANTS
    Exec,      \* executions
    Review,    \* review ids, and the bound on records
    Thread,    \* threads serving the resolve route
    None,      \* nothing
    MaxResumes \* bound: how often an execution is resumed

VARIABLES
    file,    \* the file of each execution: its status and review_id
    walk,    \* whether the engine walks an execution's layers
    fresh,   \* reviews the gates of the present layer have asked for
    outs,    \* reviews the outputs of an execution's gates name
    review,  \* the review records
    thread,  \* what each thread is resolving
    pauses, resumes, \* history: how often an execution was paused and resumed
    mixed            \* history: reviews two threads resolved at once

engine == <<file, walk, fresh, outs, pauses, resumes>>
vars == <<engine, review, thread, mixed>>

Action == {"approve", "reject", "request_changes"}
NoFile == [status |-> "none", review |-> None]
NoReview == [exec |-> None, status |-> "none", action |-> None]
Asked(e) == [exec |-> e, status |-> "pending_review", action |-> None]
Idle == [review |-> None, action |-> None, copy |-> NoReview]

Init ==
    /\ file = [e \in Exec |-> NoFile]
    /\ walk = [e \in Exec |-> FALSE]
    /\ fresh = [e \in Exec |-> {}] /\ outs = [e \in Exec |-> {}]
    /\ review = [r \in Review |-> NoReview]
    /\ thread = [t \in Thread |-> Idle]
    /\ pauses = [e \in Exec |-> 0] /\ resumes = [e \in Exec |-> 0]
    /\ mixed = {}

-----------------------------------------------------------------------------
(* The engine                                                              *)

\* The engine holds the state of an execution in memory and saves all of it.
Save(e, status, r) == file' = [file EXCEPT ![e] = [status |-> status, review |-> r]]

\* execute: the ids of executions are new ones.
Execute(e) ==
    /\ file[e] = NoFile /\ ~walk[e] /\ pauses[e] = 0
    /\ walk' = [walk EXCEPT ![e] = TRUE]
    /\ Save(e, "running", None)
    /\ UNCHANGED <<fresh, outs, pauses, resumes, review, thread, mixed>>

GateAsksUnsaved(e, r) ==                 \* a mutant: the record is not saved
    /\ walk[e] /\ review[r] = NoReview
    /\ outs' = [outs EXCEPT ![e] = @ \cup {r}]
    /\ fresh' = [fresh EXCEPT ![e] = @ \cup {r}]
    /\ Save(e, "running", None)
    /\ UNCHANGED <<walk, pauses, resumes, review, thread, mixed>>

\* ReviewGateNode.execute: a record under a new id, which the outputs name.
GateAsks(e, r) ==
    /\ walk[e]
    /\ review[r] = NoReview
    /\ review' = [review EXCEPT ![r] = Asked(e)]
    /\ outs' = [outs EXCEPT ![e] = @ \cup {r}]
    /\ fresh' = [fresh EXCEPT ![e] = @ \cup {r}]
    /\ Save(e, "running", None)
    /\ UNCHANGED <<walk, pauses, resumes, thread, mixed>>

\* _pause_for_review, for every gate of the layer: the last one is named.  A gate
\* of the layer that was let through before pauses the execution again.
PauseForReview(e) ==
    /\ walk[e]
    /\ \E r \in outs[e] : Save(e, "awaiting_review", r)
    /\ walk' = [walk EXCEPT ![e] = FALSE]
    /\ fresh' = [fresh EXCEPT ![e] = {}]
    /\ pauses' = [pauses EXCEPT ![e] = @ + 1]
    /\ UNCHANGED <<outs, resumes, review, thread, mixed>>

\* The walk ends, which no gate does that still has to pause it.
Finish(e) ==
    /\ walk[e] /\ fresh[e] = {}
    /\ \E s \in {"completed", "failed"} : Save(e, s, None)
    /\ walk' = [walk EXCEPT ![e] = FALSE]
    /\ UNCHANGED <<fresh, outs, pauses, resumes, review, thread, mixed>>

\* An exception ends a walk wherever it is.
Break(e) ==
    /\ walk[e]
    /\ Save(e, "failed", None)
    /\ walk' = [walk EXCEPT ![e] = FALSE]
    /\ fresh' = [fresh EXCEPT ![e] = {}]
    /\ UNCHANGED <<outs, pauses, resumes, review, thread, mixed>>

-----------------------------------------------------------------------------
(* The routes                                                              *)

\* resume_execution_endpoint with "resume": the status is all that is asked.
Resume(e) ==
    /\ file[e].status = "awaiting_review"
    /\ resumes[e] < MaxResumes
    /\ Save(e, "running", None)
    /\ walk' = [walk EXCEPT ![e] = TRUE]
    /\ resumes' = [resumes EXCEPT ![e] = @ + 1]
    /\ UNCHANGED <<fresh, outs, pauses, review, thread, mixed>>

\* The same with "reject", or for a workflow that is gone.
ResumeEnds(e) ==
    /\ file[e].status = "awaiting_review"
    /\ \E s \in {"rejected", "failed"} : Save(e, s, file[e].review)
    /\ UNCHANGED <<walk, fresh, outs, pauses, resumes, review, thread, mixed>>

\* delete_execution_history: the file goes, the walk goes on.
Delete(e) ==
    /\ file[e] # NoFile
    /\ file' = [file EXCEPT ![e] = NoFile]
    /\ UNCHANGED <<walk, fresh, outs, pauses, resumes, review, thread, mixed>>

LoadAnyReview(t, r, a) ==       \* a mutant: resolved reviews are not refused
    /\ thread[t] = Idle /\ review[r] # NoReview
    /\ thread' = [thread EXCEPT ![t] = [review |-> r, action |-> a, copy |-> review[r]]]
    /\ mixed' = IF \E u \in Thread : thread[u].review = r THEN mixed \cup {r} ELSE mixed
    /\ UNCHANGED <<engine, review>>

\* resolve_review loads the record and refuses one that is resolved.
LoadReview(t, r, a) ==
    /\ thread[t] = Idle
    /\ review[r].status = "pending_review"
    /\ thread' = [thread EXCEPT ![t] = [review |-> r, action |-> a, copy |-> review[r]]]
    /\ mixed' = IF \E u \in Thread : thread[u].review = r THEN mixed \cup {r} ELSE mixed
    /\ UNCHANGED <<engine, review>>

\* The status of a resolved review: the action is compared with the statuses.
StatusFor(a) ==
    CASE a = "approved" -> "approved"
      [] a = "rejected" -> "rejected"
      [] OTHER -> "changes_requested"

\* resolve_review saves it.  Nothing tells the execution.
SaveReview(t) ==
    /\ thread[t] # Idle
    /\ review' = [review EXCEPT ![thread[t].review] =
                    [exec |-> thread[t].copy.exec, status |-> StatusFor(thread[t].action),
                     action |-> thread[t].action]]
    /\ thread' = [thread EXCEPT ![t] = Idle]
    /\ UNCHANGED <<engine, mixed>>

\* The process dies and starts again: files stay, walks and requests are gone.
Crash ==
    /\ walk' = [e \in Exec |-> FALSE]
    /\ fresh' = [e \in Exec |-> {}]
    /\ thread' = [t \in Thread |-> Idle]
    /\ UNCHANGED <<file, outs, pauses, resumes, review, mixed>>

Next ==
    \/ \E e \in Exec :
         \/ Execute(e) \/ PauseForReview(e) \/ Finish(e) \/ Break(e)
         \/ Resume(e) \/ ResumeEnds(e) \/ Delete(e)
         \/ \E r \in Review : GateAsks(e, r)
    \/ \E t \in Thread :
         \/ SaveReview(t)
         \/ \E r \in Review, a \in Action : LoadReview(t, r, a)
    \/ Crash

Spec == Init /\ [][Next]_vars
-----------------------------------------------------------------------------
(* Properties                                                              *)

\* An execution that waits names a review that was put on record for it, so that
\* whoever looks for what it waits for finds it, restarts in between included.
AwaitsItsOwnReview ==
    \A e \in Exec : file[e].status = "awaiting_review" =>
        file[e].review \in Review /\ review[file[e].review].exec = e

\* "Raises ValueError if the review is already resolved" of resolve_review: what
\* one reviewer decided, another does not change; unless both requests were let in
\* before either was saved.
KeepsResolutions ==
    \A r \in Review \ mixed : review[r].action # None => review'[r] = review[r]
ResolutionIsFinal == [][KeepsResolutions]_vars

\* "Approve, reject, or request changes on a pending review" of the resolve
\* route: the record says what the reviewer did.
StatusSaysAction ==
    \A r \in Review :
      /\ review[r].action = "approve" => review[r].status = "approved"
      /\ review[r].action = "reject" => review[r].status = "rejected"
=============================================================================
