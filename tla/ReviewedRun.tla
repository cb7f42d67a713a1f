----------------------------- MODULE ReviewedRun -----------------------------
(***************************************************************************)
(* What the workflow engine promises of one execution, whatever the         *)
(* workflow: nodes are worked on only while the run is in progress (or      *)
(* winding down after a failure), never while a reviewer is being waited    *)
(* for or after the end; a reviewer is asked about one gate at a time and   *)
(* about no gate twice; the end is final.                                   *)
(***************************************************************************)
EXTENDS Naturals

CONSTANTS Node, None

VARIABLES
  phase,   \* where the run is
  gate,    \* the gate a reviewer is asked about, or None
  passed,  \* gates let through
  effort   \* how often each node was attempted

runvars == <<phase, gate, passed, effort>>

Init ==
  /\ phase = "none" /\ gate = None /\ passed = {}
  /\ effort = [n \in Node |-> 0]

Begin ==
  /\ phase = "none" /\ phase' = "running"
  /\ UNCHANGED <<gate, passed, effort>>

Attempt(n) ==
  /\ phase \in {"running", "failed"}
  /\ effort' = [effort EXCEPT ![n] = @ + 1]
  /\ UNCHANGED <<phase, gate, passed>>

Ask(g) ==
  /\ phase = "running" /\ g \notin passed
  /\ phase' = "waiting" /\ gate' = g
  /\ UNCHANGED <<passed, effort>>

\* The reviewer lets the run go on.
Answer ==
  /\ phase = "waiting" /\ phase' = "running"
  /\ passed' = passed \cup {gate} /\ gate' = None
  /\ UNCHANGED effort

\* The reviewer rejects, or there is no workflow to go on with.
GiveUp ==
  /\ phase = "waiting" /\ phase' \in {"rejected", "failed"}
  /\ gate' = None
  /\ UNCHANGED <<passed, effort>>

End ==
  /\ phase = "running" /\ phase' \in {"completed", "failed"}
  /\ UNCHANGED <<gate, passed, effort>>

Next ==
  \/ Begin \/ Answer \/ GiveUp \/ End
  \/ \E n \in Node : Attempt(n) \/ Ask(n)

Spec == Init /\ [][Next]_runvars

=============================================================================
