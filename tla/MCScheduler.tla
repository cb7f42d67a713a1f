---------------------------- MODULE MCScheduler ----------------------------
(* Scheduler for TLC: schedules are numbered from one.                    *)
EXTENDS Scheduler

CONSTANT M   \* the number of schedules

MCSched == 1..M
MCAlways == [s \in 1..M |-> 0..MaxTime]
=============================================================================
