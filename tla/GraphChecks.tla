----------------------------- MODULE GraphChecks -----------------------------
(***************************************************************************)
(* What DAGEngine does with a workflow before it walks its layers: execute  *)
(* has DAGValidator.validate look at it and sorts it unless there are       *)
(* errors, resume sorts the workflow as it is stored by then, unseen.       *)
(***************************************************************************)
EXTENDS TopologicalSort

CONSTANT None   \* no parent

ASSUME NoneAssumption == None \notin Id

VARIABLES
  caller,                            \* "execute" or "resume"
  color, parent, stack, left, cycle, \* the search for a cycle
  search                             \* where it is

searching == <<color, parent, stack, left, cycle, search>>
sorting   == <<in_degree, frontier, upcoming, todo, layers, pc>>
checks    == <<vars, searching, caller>>

Search == INSTANCE CycleSearch WITH pc <- search

ChecksInit == Init /\ Search!Init /\ caller \in {"execute", "resume"}

\* Connections that name something that is no node are errors of their own.
Missing == Conn \ Edges

\* validate found nothing to complain about.
ErrorFree == search = "none" /\ Missing = {}

Validate ==
  /\ caller = "execute" /\ Search!Next
  /\ UNCHANGED <<sorting, caller>>

SortLayers ==
  /\ caller = "execute" => ErrorFree
  /\ Next
  /\ UNCHANGED <<searching, caller>>

ChecksNext == Validate \/ SortLayers

ChecksSpec == ChecksInit /\ [][ChecksNext]_checks /\ WF_checks(ChecksNext)

-----------------------------------------------------------------------------
(* Properties. *)

\* _find_cycle finds a cycle exactly when the graph has one, which is when sort
\* raises, and what it reads off the parent pointers is a cycle of the graph:
\* execute never comes to the CyclicDAGError of sort.
FindsIffCyclic == Search!FindsIffCyclic /\ Search!CycleIsReal

=============================================================================
