---------------------------- MODULE MCBatchImport ----------------------------
(* BatchImport for TLC.  The run checks liveness, so threads and jobs are   *)
(* not declared symmetric; what symmetry would say of the first step is said  *)
(* by an action constraint: one thread starts, with one job.                 *)
EXTENDS BatchImport

CONSTANTS FirstThread, FirstJob

\* Nothing but an import can change the first state, a crash apart, which leaves it as it is.
FirstRequest ==
    calls = 0 => disk'[FirstJob] # NoFile /\ thread'[FirstThread] # Idle
=============================================================================
