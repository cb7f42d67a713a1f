-------------------------- MODULE SchedulerProofs --------------------------
(***************************************************************************)
(* Proofs about Scheduler: what its files and its rounds know of firings,   *)
(* and of files that no execution has been told of.                        *)
(***************************************************************************)
EXTENDS Scheduler, FiniteSetTheorems, WellFoundedInduction, TLAPS

-----------------------------------------------------------------------------
(* What the variables hold                                                 *)

Schedule == [enabled : BOOLEAN, last : {Never} \cup Nat]
Stored == Schedule \cup {NoFile}
Step == {"list", "check", "fire", "running", "save", "asleep"}
Loop == [pc : Step, todo : SUBSET Sched, snap : [Sched -> Stored], changed : SUBSET File, wake : Nat]
Request == [kind : {"toggle", "edit", "delete"}, sched : Sched, copy : Schedule]

TypeOK ==
    /\ now \in Nat
    /\ stored \in [Sched -> Stored]
    /\ loop \in Loop
    /\ known \in [Sched -> (SUBSET File) \cup {Unscanned}]
    /\ dir \in [Sched -> SUBSET File]
    /\ request \in [Thread -> Request \cup {Idle}]
    /\ news \in [Sched -> SUBSET File] /\ absorbed \in [Sched -> SUBSET File]
    /\ lastRun \in [Sched -> {Never} \cup Nat]
    /\ lost \in SUBSET Sched

\* Whoever fires, runs or saves has a schedule, and a round only has schedules that were on
\* file when it began.
RoundHasSchedules ==
    /\ loop.pc \in {"fire", "running", "save"} => loop.todo # {}
    /\ \A s \in loop.todo : loop.snap[s] # NoFile

\* An execution of s is under way, or its end is not on file yet.
Running(s) == loop.pc \in {"running", "save"} /\ Current = s

\* A firing is on record: it is known to have happened, and no restart or request took it away.
OnRecord(s) == lastRun[s] # Never /\ s \notin lost /\ ~Running(s)

\* Files tell of firings, and so does what the round has read of them.
FilesTell == \A s \in Sched : OnRecord(s) /\ Exists(s) => lastRun[s] <= stored[s].last
RoundTells == \A s \in loop.todo : OnRecord(s) => lastRun[s] <= loop.snap[s].last

\* Time has not passed since a cron schedule was found due.
FiresWhenDue == At("fire") /\ Current \in Cron => Due(Current)

RunsArePast == \A s \in Sched : lastRun[s] <= now

FiringInv ==
    /\ TypeOK /\ RoundHasSchedules /\ FilesTell /\ RoundTells /\ FiresWhenDue /\ RunsArePast

\* What the execution about to start will be told of.
InHand(s) == IF At("fire") /\ Current = s THEN loop.changed ELSE {}

\* A file that no execution was told of is there, and found by the next scan, or in hand, or
\* one that the first scan of a process took for known, as long as there is a workflow to
\* execute (Scan, Fire; the safety of NewFilesAreTold).
NewsIsInSight ==
    \A s \in Sched \ Orphans :
        /\ news[s] \subseteq dir[s]
        /\ \/ known[s] = Unscanned
           \/ news[s] \subseteq (dir[s] \ known[s]) \cup InHand(s) \cup absorbed[s]

SchedulerInv == FiringInv /\ NewsIsInSight
-----------------------------------------------------------------------------
(* Rounds and minutes                                                      *)

\* Min is the least of a set of numbers.
LEMMA Least ==
    ASSUME NEW S \in SUBSET Nat, S # {}
    PROVE  Min(S) \in S /\ \A y \in S : Min(S) <= y
<1>1. PICK n \in S : TRUE
  OBVIOUS
<1> DEFINE T == {1..i : i \in {j \in S : j <= n}}
<1>2. T \subseteq FiniteSubsetsOf(1..n)
  <2>1. \A i \in {j \in S : j <= n} : 1..i \subseteq 1..n
    OBVIOUS
  <2>2. IsFiniteSet(1..n)
    BY FS_Interval
  <2> QED
    BY <2>1, <2>2, FS_FiniteSubsetsOfFinite
<1>3. T # {}
  OBVIOUS
<1>4. IsWellFoundedOn(StrictSubsetOrdering(1..n), FiniteSubsetsOf(1..n))
  BY FS_StrictSubsetOrderingWellFounded
<1> HIDE DEF T
<1>5. PICK x \in T : \A y \in T : ~ (<<y, x>> \in StrictSubsetOrdering(1..n))
  BY <1>2, <1>3, <1>4, WFMin
<1>6. PICK m \in S : m <= n /\ x = 1..m
  BY <1>5 DEF T
<1>7. ASSUME NEW k \in S, k < m
      PROVE  FALSE
  <2>1. 1..k \in T
    BY <1>6, <1>7 DEF T
  <2>2. 1..k \subseteq 1..m /\ m \in 1..m /\ m \notin 1..k /\ 1..m \subseteq 1..n
    BY <1>6, <1>7
  <2>3. <<1..k, 1..m>> \in StrictSubsetOrdering(1..n)
    BY <2>2 DEF StrictSubsetOrdering
  <2> QED
    BY <1>5, <1>6, <2>1, <2>3
<1>8. \A y \in S : m <= y
  BY <1>7
<1> QED
  BY <1>8 DEF Min

LEMMA CurrentIsToDo == ASSUME TypeOK, loop.todo # {} PROVE Current \in loop.todo /\ Current \in Sched
<1>1. loop.todo \in SUBSET Nat
  BY SchedulerAssumption DEF TypeOK, Loop
<1> QED
  BY <1>1, Least DEF Current, TypeOK, Loop

\* Going on with the next schedule takes the one at hand off the list.
LEMMA GoesOnwards ==
    ASSUME TypeOK, loop.todo # {}, loop' = Onwards
    PROVE  /\ loop' \in Loop /\ loop'.pc = "check" /\ loop'.todo = loop.todo \ {Current}
           /\ loop'.snap = loop.snap
BY Zenon DEF TypeOK, Loop, Step, Onwards

\* Two moments a minute apart are in two minutes.
LEMMA Windows ==
    ASSUME NEW m \in Nat \ {0}, NEW a \in Nat, NEW b \in Nat, a - b >= m
    PROVE  a \div m # b \div m
BY SMTT(30)

\* Going on with nothing on file changed keeps what is told, and needs no more of s.
LEMMA OnwardsKeeps ==
    ASSUME FiringInv, loop.todo # {}, loop' = Onwards, UNCHANGED <<now, stored, lastRun, lost>>,
           Running(Current) => stored[Current] = NoFile
    PROVE  RoundHasSchedules' /\ FilesTell' /\ RoundTells' /\ FiresWhenDue' /\ RunsArePast'
<1>1. /\ loop' \in Loop /\ loop'.pc = "check" /\ loop'.todo = loop.todo \ {Current}
      /\ loop'.snap = loop.snap
  BY GoesOnwards DEF FiringInv
<1>2. PICK c \in Sched : c = Current
  BY CurrentIsToDo DEF FiringInv
<1>3. \A s \in Sched : s # c => (OnRecord(s)' => OnRecord(s))
  BY <1>1, <1>2 DEF OnRecord, Running
<1>4. Exists(c)' => (OnRecord(c)' => OnRecord(c))
  BY <1>1, <1>2 DEF OnRecord, Running, Exists
<1>5. FilesTell'
  BY <1>3, <1>4 DEF FiringInv, FilesTell, Exists
<1>6. RoundTells'
  BY <1>1, <1>2, <1>3 DEF FiringInv, RoundTells, TypeOK, Loop
<1> QED
  BY <1>1, <1>5, <1>6 DEF FiringInv, RoundHasSchedules, FiresWhenDue, RunsArePast, At
-----------------------------------------------------------------------------
(* Firings                                                                 *)

LEMMA SchedulerStart == Init => SchedulerInv
<1> SUFFICES ASSUME Init PROVE SchedulerInv
  OBVIOUS
<1>1. stored \in [Sched -> Stored]
  BY DEF Init, Stored, Schedule
<1>2. loop \in Loop /\ loop.pc = "list" /\ loop.todo = {}
  BY <1>1 DEF Init, Loop, Step
<1>3. TypeOK
  <2>1. /\ known \in [Sched -> (SUBSET File) \cup {Unscanned}] /\ dir \in [Sched -> SUBSET File]
        /\ news \in [Sched -> SUBSET File] /\ absorbed \in [Sched -> SUBSET File]
    BY DEF Init
  <2>2. request \in [Thread -> Request \cup {Idle}]
    BY DEF Init
  <2>3. lastRun \in [Sched -> {Never} \cup Nat] /\ lost \in SUBSET Sched /\ now \in Nat
    BY DEF Init
  <2> QED
    BY <1>1, <1>2, <2>1, <2>2, <2>3 DEF TypeOK
<1>4. FilesTell /\ RunsArePast
  BY DEF Init, FilesTell, OnRecord, RunsArePast, Never
<1>5. NewsIsInSight
  BY DEF Init, NewsIsInSight
<1> QED
  BY <1>2, <1>3, <1>4, <1>5
     DEF SchedulerInv, FiringInv, RoundHasSchedules, RoundTells, FiresWhenDue, At

\* What the property says of one step.
FiresOncePerMinute ==
    \A s \in Cron : Starts(s) /\ lastRun[s] # Never /\ s \notin lost
                        => now \div Minute # lastRun[s] \div Minute

LEMMA FiringFire == ASSUME FiringInv, Fire PROVE FiringInv' /\ FiresOncePerMinute
<1> DEFINE c == Current
<1>1. At("fire") /\ loop.todo # {} /\ c \in loop.todo /\ c \in Sched
  BY CurrentIsToDo DEF Fire, FiringInv, RoundHasSchedules, At
<1>2. /\ loop' \in Loop /\ loop'.pc = "running" /\ loop'.todo = loop.todo
      /\ loop'.snap = loop.snap /\ loop'.changed = loop.changed
  BY Zenon DEF Fire, FiringInv, TypeOK, Loop, Step
<1>3. Current' = c
  BY <1>2 DEF Current
<1>4. /\ now' = now /\ stored' = stored /\ known' = known /\ dir' = dir /\ request' = request
      /\ absorbed' = absorbed /\ news' = [news EXCEPT ![c] = @ \ loop.changed]
      /\ lastRun' = [lastRun EXCEPT ![c] = now] /\ lost' = lost \ {c}
  BY DEF Fire
<1> HIDE DEF c
<1>5. TypeOK'
  BY <1>1, <1>2, <1>4 DEF FiringInv, TypeOK
<1>6. RoundHasSchedules'
  BY <1>1, <1>2 DEF FiringInv, RoundHasSchedules
<1>7. \A s \in Sched : OnRecord(s)' => s # c /\ OnRecord(s) /\ lastRun'[s] = lastRun[s]
  BY <1>1, <1>2, <1>3, <1>4 DEF OnRecord, Running, At, FiringInv, TypeOK
<1>8. FilesTell'
  BY <1>4, <1>7 DEF FiringInv, FilesTell, Exists
<1>9. RoundTells'
  BY <1>2, <1>7 DEF FiringInv, RoundTells, TypeOK, Loop
<1>10. FiresWhenDue'
  BY <1>2 DEF FiresWhenDue, At
<1>11. RunsArePast'
  BY <1>4 DEF FiringInv, RunsArePast, TypeOK
<1>12. ASSUME NEW s \in Cron, Starts(s), lastRun[s] # Never, s \notin lost
       PROVE  now \div Minute # lastRun[s] \div Minute
  <2>1. s = c /\ s \in Sched /\ OnRecord(s)
    BY <1>1, <1>12, SchedulerAssumption DEF Starts, c, OnRecord, Running, At
  <2>2. lastRun[s] <= loop.snap[s].last /\ lastRun[s] \in Nat /\ now \in Nat
    BY <1>1, <1>12, <2>1 DEF FiringInv, RoundTells, TypeOK
  <2>3. loop.snap[s].last = Never \/ now - loop.snap[s].last >= Minute
    BY <1>1, <2>1, <1>12 DEF FiringInv, FiresWhenDue, Due, Snapshot, c
  <2>4. loop.snap[s] \in Schedule
    BY <1>1, <2>1 DEF FiringInv, TypeOK, Loop, Stored, RoundHasSchedules
  <2>5. now - lastRun[s] >= Minute
    BY <2>2, <2>3, <2>4, SchedulerAssumption DEF Schedule, Never
  <2> QED
    BY <2>2, <2>5, Windows, SchedulerAssumption
<1> QED
  BY <1>5, <1>6, <1>8, <1>9, <1>10, <1>11, <1>12 DEF FiringInv, FiresOncePerMinute

LEMMA FiringLoad == ASSUME FiringInv, LoadFired PROVE FiringInv'
<1>1. At("running") /\ loop.todo # {} /\ Current \in loop.todo /\ Current \in Sched
  BY CurrentIsToDo DEF LoadFired, FiringInv, RoundHasSchedules, At
<1>2. UNCHANGED <<now, stored, known, dir, request, news, absorbed, lastRun, lost>>
  BY DEF LoadFired, history
<1>3. CASE ~Exists(Current)
  <2>1. loop' = Onwards
    BY <1>3 DEF LoadFired
  <2>2. TypeOK'
    BY <1>1, <1>2, <2>1, GoesOnwards DEF FiringInv, TypeOK
  <2>3. stored[Current] = NoFile
    BY <1>3 DEF Exists
  <2> QED
    BY <1>1, <1>2, <2>1, <2>2, <2>3, OnwardsKeeps DEF FiringInv
<1>4. CASE Exists(Current)
  <2> DEFINE c == Current
  <2>1. /\ loop' = [loop EXCEPT !.pc = "save", !.snap = [@ EXCEPT ![c] = stored[c]]]
        /\ stored[c] # NoFile
    BY <1>4 DEF LoadFired, Exists
  <2>2. loop'.snap = [loop.snap EXCEPT ![c] = stored[c]] /\ loop'.snap \in [Sched -> Stored]
    <3>1. loop'.snap = [loop.snap EXCEPT ![c] = stored[c]]
      BY <2>1, Zenon DEF FiringInv, TypeOK, Loop
    <3> HIDE DEF c
    <3> QED
      BY <1>1, <3>1 DEF c, FiringInv, TypeOK, Loop
  <2>3. loop' \in Loop /\ loop'.pc = "save" /\ loop'.todo = loop.todo
    BY <2>1, <2>2, Zenon DEF FiringInv, TypeOK, Loop, Step
  <2>4. Current' = c
    BY <2>3 DEF Current
  <2> HIDE DEF c
  <2>5. TypeOK'
    BY <1>2, <2>3 DEF FiringInv, TypeOK
  <2>6. RoundHasSchedules'
    BY <1>1, <2>1, <2>2, <2>3 DEF FiringInv, RoundHasSchedules, TypeOK, Loop
  <2>7. \A s \in Sched : OnRecord(s)' => s # c /\ OnRecord(s)
    BY <1>1, <1>2, <2>3, <2>4 DEF OnRecord, Running, At, c
  <2>8. FilesTell'
    BY <1>2, <2>7 DEF FiringInv, FilesTell, Exists
  <2>9. RoundTells'
    BY <1>2, <2>2, <2>3, <2>7 DEF FiringInv, RoundTells, TypeOK, Loop
  <2> QED
    BY <1>2, <2>3, <2>5, <2>6, <2>8, <2>9 DEF FiringInv, FiresWhenDue, At, RunsArePast
<1> QED
  BY <1>3, <1>4

LEMMA FiringSave == ASSUME FiringInv, SaveFired PROVE FiringInv'
<1> DEFINE c == Current
<1>1. At("save") /\ loop.todo # {} /\ c \in loop.todo /\ c \in Sched
  BY CurrentIsToDo DEF SaveFired, FiringInv, RoundHasSchedules, At
<1>2. /\ UNCHANGED <<now, known, dir, request, news, absorbed, lastRun, lost>> /\ loop' = Onwards
      /\ stored' = [stored EXCEPT ![c] = [Snapshot EXCEPT !.last = now]]
  BY DEF SaveFired, history
<1>3. /\ loop' \in Loop /\ loop'.pc = "check" /\ loop'.todo = loop.todo \ {c}
      /\ loop'.snap = loop.snap
  BY <1>1, <1>2, GoesOnwards DEF FiringInv
<1>4. Snapshot \in Schedule
  BY <1>1 DEF FiringInv, TypeOK, Loop, RoundHasSchedules, Stored, Snapshot
<1>5. PICK written \in Schedule : written = [Snapshot EXCEPT !.last = now] /\ written.last = now
  <2>1. now \in {Never} \cup Nat
    BY DEF FiringInv, TypeOK
  <2> DEFINE w == [Snapshot EXCEPT !.last = now]
  <2>2. w \in Schedule
    BY <1>4, <2>1 DEF Schedule
  <2>3. w.last = now
    BY <1>4, Zenon DEF Schedule
  <2> QED
    BY <2>2, <2>3, Zenon
<1>6. stored' = [stored EXCEPT ![c] = written]
  BY <1>2, <1>5
<1>7. \A s \in Sched : s # c => (OnRecord(s)' => OnRecord(s))
  BY <1>2 DEF OnRecord, Running
<1> HIDE DEF c
<1>8. TypeOK'
  BY <1>2, <1>3, <1>5, <1>6 DEF FiringInv, TypeOK, Stored
<1>9. FilesTell'
  BY <1>1, <1>2, <1>5, <1>6, <1>7 DEF FiringInv, FilesTell, Exists, TypeOK, RunsArePast
<1>10. RoundTells'
  BY <1>2, <1>3, <1>7 DEF FiringInv, RoundTells, TypeOK, Loop
<1> QED
  BY <1>2, <1>3, <1>8, <1>9, <1>10
     DEF FiringInv, RoundHasSchedules, FiresWhenDue, At, RunsArePast

LEMMA FiringSaveSchedule == ASSUME FiringInv, NEW u \in Thread, SaveSchedule(u) PROVE FiringInv'
<1>1. PICK r \in Request : r = request[u]
  BY DEF SaveSchedule, FiringInv, TypeOK
<1>2. r.sched \in Sched /\ r.copy \in Schedule /\ r.kind \in {"toggle", "edit", "delete"}
  BY DEF Request
<1>3. Written(r) \in Stored /\ (Written(r) # NoFile => Written(r).last = r.copy.last)
  <2>1. CASE r.kind = "toggle"
    <3>1. Written(r) = [r.copy EXCEPT !.enabled = ~@]
      BY <2>1, Zenon DEF Written
    <3> QED
      BY <1>2, <3>1 DEF Stored, Schedule
  <2>2. CASE r.kind = "edit"
    <3>1. Written(r) = r.copy
      BY <2>2, Zenon DEF Written
    <3> QED
      BY <1>2, <3>1 DEF Stored
  <2>3. CASE r.kind = "delete"
    <3>1. Written(r) = NoFile
      BY <2>3, Zenon DEF Written
    <3> QED
      BY <3>1 DEF Stored
  <2> QED
    BY <1>2, <2>1, <2>2, <2>3
<1>4. PICK w \in Stored : w = Written(r) /\ (w # NoFile => w.last = r.copy.last)
  BY <1>3
<1>5. /\ stored' = [stored EXCEPT ![r.sched] = w]
      /\ lost' = IF Stale(r) THEN lost \cup {r.sched} ELSE lost
      /\ request' = [request EXCEPT ![u] = Idle]
      /\ UNCHANGED <<now, loop, known, dir, news, absorbed, lastRun>>
  BY <1>1, <1>4 DEF SaveSchedule
<1>6. TypeOK'
  BY <1>2, <1>5 DEF FiringInv, TypeOK
<1>7. \A s \in Sched : OnRecord(s)' => OnRecord(s)
  BY <1>5 DEF OnRecord, Running, Current
<1>8. FilesTell'
  <2> SUFFICES ASSUME NEW s \in Sched, OnRecord(s)', Exists(s)' PROVE lastRun[s] <= stored'[s].last
    BY <1>5 DEF FilesTell
  <2>1. CASE s # r.sched
    BY <1>5, <1>7, <2>1 DEF FiringInv, FilesTell, Exists, TypeOK
  <2>2. CASE s = r.sched
    <3>1. stored'[s] = w /\ w # NoFile /\ w.last = r.copy.last
      BY <1>2, <1>4, <1>5, <2>2 DEF FiringInv, TypeOK, Exists
    <3>2. ~Stale(r)
      BY <1>5, <2>2 DEF OnRecord
    <3>3. stored[s].last = r.copy.last /\ r.copy.last # NoFile.last
      BY <1>2, <2>2, <3>2 DEF Stale, NoFile, Schedule, Never
    <3>4. Exists(s)
      BY <3>3 DEF Exists
    <3> QED
      BY <1>7, <3>1, <3>3, <3>4 DEF FiringInv, FilesTell
  <2> QED
    BY <2>1, <2>2
<1>9. RoundTells'
  BY <1>5, <1>7 DEF FiringInv, RoundTells, TypeOK, Loop
<1> QED
  BY <1>5, <1>6, <1>8, <1>9
     DEF FiringInv, RoundHasSchedules, FiresWhenDue, At, Due, Snapshot, Current, RunsArePast

\* What a first scan takes for known are files of the schedule at hand.
LEMMA ScanAbsorbs ==
    ASSUME FiringInv, \/ SkipDisabled \/ FireNothing \/ CheckCron \/ Scan
    PROVE  absorbed' \in [Sched -> SUBSET File]
<1>1. CASE Scan
  <2>1. loop.todo # {}
    BY <1>1 DEF Scan, Coming
  <2>2. Current \in Sched
    BY <2>1, CurrentIsToDo DEF FiringInv
  <2> QED
    BY <1>1, <2>2 DEF Scan, FiringInv, TypeOK
<1> QED
  BY <1>1 DEF SkipDisabled, FireNothing, CheckCron, history, FiringInv, TypeOK

LEMMA FiringStep == ASSUME FiringInv, Next PROVE FiringInv' /\ FiresOncePerMinute
<1>1. CASE ListSchedules
  <2>1. /\ At("list") /\ UNCHANGED <<now, stored, known, dir, request, news, absorbed, lastRun, lost>>
        /\ loop' = [loop EXCEPT !.pc = "check", !.snap = stored, !.todo = {s \in Sched : Exists(s)}]
    BY <1>1 DEF ListSchedules, history
  <2>2. /\ loop' \in Loop /\ loop'.pc = "check" /\ loop'.snap = stored
        /\ loop'.todo = {s \in Sched : Exists(s)}
    <3>1. {s \in Sched : Exists(s)} \in SUBSET Sched
      OBVIOUS
    <3> HIDE DEF Exists
    <3> QED
      BY <2>1, <3>1, Zenon DEF FiringInv, TypeOK, Loop, Step
  <2>3. TypeOK'
    BY <2>1, <2>2 DEF FiringInv, TypeOK
  <2>4. RoundHasSchedules'
    BY <2>2 DEF RoundHasSchedules, Exists
  <2>5. \A s \in Sched : OnRecord(s)' => OnRecord(s)
    BY <2>1, <2>2 DEF OnRecord, Running, At
  <2>6. FilesTell' /\ RoundTells'
    BY <2>1, <2>2, <2>5 DEF FiringInv, FilesTell, RoundTells, Exists
  <2> QED
    BY <2>1, <2>2, <2>3, <2>4, <2>6
       DEF FiringInv, FiresWhenDue, RunsArePast, FiresOncePerMinute, Starts, At
\* Rounds that go on with the next schedule.
<1>2. CASE SkipDisabled \/ FireNothing \/ ((CheckCron \/ Scan) /\ loop' = Onwards)
  <2>1. /\ loop' = Onwards /\ loop.todo # {} /\ loop.pc \in {"check", "fire"}
        /\ UNCHANGED <<now, stored, dir, request, news, lastRun, lost>>
    BY <1>2 DEF SkipDisabled, FireNothing, CheckCron, Scan, Coming, history, FiringInv,
                RoundHasSchedules, At
  <2>2. /\ known' \in [Sched -> (SUBSET File) \cup {Unscanned}]
        /\ absorbed' \in [Sched -> SUBSET File]
    BY <1>2, ScanAbsorbs DEF SkipDisabled, FireNothing, CheckCron, Scan, history, FiringInv, TypeOK
  <2>3. loop' \in Loop /\ loop'.pc = "check"
    BY <2>1, GoesOnwards DEF FiringInv
  <2>4. TypeOK'
    BY <2>1, <2>2, <2>3 DEF FiringInv, TypeOK
  <2>5. ~Running(Current)
    BY <2>1 DEF Running
  <2> QED
    BY <2>1, <2>3, <2>4, <2>5, OnwardsKeeps DEF FiringInv, FiresOncePerMinute, Starts
\* Rounds that come to fire.
<1>3. CASE (CheckCron \/ Scan) /\ loop' # Onwards
  <2>1. /\ loop.pc = "check" /\ loop.todo # {}
        /\ UNCHANGED <<now, stored, dir, request, news, lastRun, lost>>
    BY <1>3 DEF CheckCron, Scan, Coming, At, history
  <2>2. Current \in loop.todo /\ Current \in Sched
    BY <2>1, CurrentIsToDo DEF FiringInv
  <2>3. /\ loop' \in Loop /\ loop'.pc = "fire" /\ loop'.todo = loop.todo /\ loop'.snap = loop.snap
        /\ known' \in [Sched -> (SUBSET File) \cup {Unscanned}]
    <3>1. CASE CheckCron
      <4>1. loop' = [loop EXCEPT !.pc = "fire"] /\ known' = known
        BY <1>3, <3>1 DEF CheckCron
      <4> QED
        BY <4>1, Zenon DEF FiringInv, TypeOK, Loop, Step
    <3>2. CASE Scan
      <4>1. PICK new \in SUBSET File : loop' = [loop EXCEPT !.pc = "fire", !.changed = new]
        BY <1>3, <2>2, <3>2 DEF Scan, FiringInv, TypeOK
      <4>2. known' = [known EXCEPT ![Current] = dir[Current]]
        BY <3>2 DEF Scan
      <4>3. known' \in [Sched -> (SUBSET File) \cup {Unscanned}]
        BY <2>2, <4>2 DEF FiringInv, TypeOK
      <4> QED
        BY <4>1, <4>3, Zenon DEF FiringInv, TypeOK, Loop, Step
    <3> QED
      BY <1>3, <3>1, <3>2
  <2>4. Current' = Current
    BY <2>3 DEF Current
  <2>5. Current \in Cron => Due(Current)
    BY <1>3 DEF CheckCron, Scan
  <2>6. FiresWhenDue'
    BY <2>1, <2>3, <2>4, <2>5 DEF FiresWhenDue, Due, Snapshot
  <2>7. TypeOK'
    BY <1>3, <2>1, <2>3, ScanAbsorbs DEF FiringInv, TypeOK
  <2>8. \A s \in Sched : OnRecord(s)' => OnRecord(s)
    BY <2>1 DEF OnRecord, Running
  <2>9. FilesTell' /\ RoundTells'
    BY <2>1, <2>3, <2>8 DEF FiringInv, FilesTell, RoundTells, Exists, TypeOK, Loop
  <2> QED
    BY <2>1, <2>3, <2>6, <2>7, <2>9
       DEF FiringInv, RoundHasSchedules, RunsArePast, FiresOncePerMinute, Starts, At
<1>4. CASE Fire
  BY <1>4, FiringFire
<1>5. CASE LoadFired
  BY <1>5, FiringLoad DEF LoadFired, FiresOncePerMinute, Starts, At
<1>6. CASE SaveFired
  BY <1>6, FiringSave DEF SaveFired, FiresOncePerMinute, Starts, At
\* The end of a round and of the sleep after it.
<1>7. CASE Sleep \/ Wake
  <2>1. /\ loop.pc \in {"check", "asleep"} /\ (Sleep => loop.todo = {})
        /\ UNCHANGED <<now, stored, known, dir, request, news, absorbed, lastRun, lost>>
    BY <1>7 DEF Sleep, Wake, At, history
  <2>2. /\ loop' \in Loop /\ loop'.pc \in {"asleep", "list"} /\ loop'.todo = loop.todo
        /\ loop'.snap = loop.snap
    <3>1. CASE Sleep
      <4>1. PICK n \in Nat : loop' = [loop EXCEPT !.pc = "asleep", !.wake = n]
        <5>1. (IF now + Poll < MaxTime THEN now + Poll ELSE MaxTime) \in Nat
          BY SchedulerAssumption DEF FiringInv, TypeOK
        <5> QED
          BY <3>1, <5>1, Zenon DEF Sleep
      <4> QED
        BY <4>1, Zenon DEF FiringInv, TypeOK, Loop, Step
    <3>2. CASE Wake
      <4>1. loop' = [loop EXCEPT !.pc = "list"]
        BY <3>2 DEF Wake
      <4> QED
        BY <4>1, Zenon DEF FiringInv, TypeOK, Loop, Step
    <3> QED
      BY <1>7, <3>1, <3>2
  <2>3. TypeOK'
    BY <2>1, <2>2 DEF FiringInv, TypeOK
  <2>4. \A s \in Sched : OnRecord(s)' => OnRecord(s)
    BY <2>1 DEF OnRecord, Running
  <2>5. FilesTell' /\ RoundTells'
    BY <2>1, <2>2, <2>4 DEF FiringInv, FilesTell, RoundTells, Exists, TypeOK, Loop
  <2> QED
    BY <2>1, <2>2, <2>3, <2>5
       DEF FiringInv, RoundHasSchedules, FiresWhenDue, RunsArePast, FiresOncePerMinute, Starts, At
<1>8. CASE \E u \in Thread, s \in Sched, kind \in {"toggle", "edit", "delete"} :
              LoadSchedule(u, s, kind)
  <2>1. PICK u \in Thread, s \in Sched, kind \in {"toggle", "edit", "delete"} :
              LoadSchedule(u, s, kind)
    BY <1>8
  <2>2. /\ request' = [request EXCEPT ![u] = [kind |-> kind, sched |-> s, copy |-> stored[s]]]
        /\ UNCHANGED <<now, stored, loop, known, dir, news, absorbed, lastRun, lost>>
        /\ stored[s] # NoFile
    BY <2>1 DEF LoadSchedule, history, Exists
  <2>3. stored[s] \in Schedule
    BY <2>2 DEF FiringInv, TypeOK, Stored
  <2>4. [kind |-> kind, sched |-> s, copy |-> stored[s]] \in Request
    BY <2>3 DEF Request
  <2>5. TypeOK'
    BY <2>2, <2>4 DEF FiringInv, TypeOK
  <2> QED
    BY <2>2, <2>5
       DEF FiringInv, RoundHasSchedules, FilesTell, RoundTells, OnRecord, Running, Current, Exists,
           FiresWhenDue, Due, Snapshot, RunsArePast, FiresOncePerMinute, Starts, At
<1>9. CASE \E u \in Thread : SaveSchedule(u)
  <2>1. PICK u \in Thread : SaveSchedule(u)
    BY <1>9
  <2> QED
    BY <2>1, FiringSaveSchedule DEF SaveSchedule, FiresOncePerMinute, Starts, At
<1>10. CASE \E s \in Sched, f \in File : Create(s, f) \/ Remove(s, f)
  <2>1. PICK s \in Sched, f \in File : Create(s, f) \/ Remove(s, f)
    BY <1>10
  <2>2. UNCHANGED <<now, stored, loop, known, request, lastRun, lost>>
    BY <2>1 DEF Create, Remove
  <2>3. /\ dir' \in [Sched -> SUBSET File] /\ news' \in [Sched -> SUBSET File]
        /\ absorbed' \in [Sched -> SUBSET File]
    BY <2>1 DEF Create, Remove, FiringInv, TypeOK
  <2>4. TypeOK'
    BY <2>2, <2>3 DEF FiringInv, TypeOK
  <2> QED
    BY <2>2, <2>4
       DEF FiringInv, RoundHasSchedules, FilesTell, RoundTells, OnRecord, Running, Current, Exists,
           FiresWhenDue, Due, Snapshot, RunsArePast, FiresOncePerMinute, Starts, At
<1>11. CASE Tick
  <2>1. /\ now' = now + 1 /\ loop.pc \in {"running", "asleep"}
        /\ UNCHANGED <<stored, loop, known, dir, request, news, absorbed, lastRun, lost>>
    BY <1>11 DEF Tick, At, history
  <2>2. TypeOK'
    BY <2>1 DEF FiringInv, TypeOK
  <2>3. RunsArePast'
    BY <2>1 DEF FiringInv, TypeOK, RunsArePast, Never
  <2> QED
    BY <2>1, <2>2, <2>3
       DEF FiringInv, RoundHasSchedules, FilesTell, RoundTells, OnRecord, Running, Current, Exists,
           FiresWhenDue, FiresOncePerMinute, Starts, At
<1>12. CASE Restart
  <2>1. /\ loop' = [pc |-> "list", todo |-> {}, snap |-> stored, changed |-> {}, wake |-> 0]
        /\ known' = [s \in Sched |-> Unscanned] /\ request' = [u \in Thread |-> Idle]
        /\ lost' = IF loop.pc \in {"running", "save"} THEN lost \cup {Current} ELSE lost
        /\ UNCHANGED <<now, stored, dir, news, absorbed, lastRun>>
    BY <1>12 DEF Restart
  <2>2. loop' \in Loop /\ loop'.pc = "list" /\ loop'.todo = {}
    BY <2>1 DEF FiringInv, TypeOK, Loop, Step
  <2>3. loop.pc \in {"running", "save"} => Current \in Sched
    BY CurrentIsToDo DEF FiringInv, RoundHasSchedules
  <2>4. TypeOK'
    <3>1. /\ known' \in [Sched -> (SUBSET File) \cup {Unscanned}]
          /\ request' \in [Thread -> Request \cup {Idle}]
      BY <2>1
    <3>2. lost' \in SUBSET Sched
      BY <2>1, <2>3 DEF FiringInv, TypeOK
    <3> QED
      BY <2>1, <2>2, <3>1, <3>2 DEF FiringInv, TypeOK
  <2>5. \A s \in Sched : OnRecord(s)' => OnRecord(s)
    BY <2>1 DEF OnRecord, Running
  <2>6. FilesTell'
    BY <2>1, <2>5 DEF FiringInv, FilesTell, Exists
  <2> QED
    BY <2>1, <2>2, <2>4, <2>6
       DEF FiringInv, RoundHasSchedules, RoundTells, FiresWhenDue, RunsArePast,
           FiresOncePerMinute, Starts, At
<1> QED
  BY <1>1, <1>2, <1>3, <1>4, <1>5, <1>6, <1>7, <1>8, <1>9, <1>10, <1>11, <1>12 DEF Next, Polls
-----------------------------------------------------------------------------
(* New files                                                               *)

\* If nothing was in hand for a workflow, nothing is lost from sight while files, names seen
\* and news stay as they are.
LEMMA SightStays ==
    ASSUME NewsIsInSight, UNCHANGED <<known, dir, news, absorbed>>, At("fire") => Current \in Orphans
    PROVE  NewsIsInSight'
BY DEF NewsIsInSight, InHand

LEMMA NewsStep == ASSUME FiringInv, NewsIsInSight, Next PROVE NewsIsInSight'
<1>1. ASSUME \/ ListSchedules \/ SkipDisabled \/ LoadFired \/ SaveFired \/ Sleep \/ Wake
             \/ CheckCron \/ FireNothing \/ Tick
      PROVE  NewsIsInSight'
  <2>1. UNCHANGED <<known, dir, news, absorbed>> /\ (At("fire") => Current \in Orphans)
    BY <1>1 DEF ListSchedules, SkipDisabled, LoadFired, SaveFired, Sleep, Wake, CheckCron,
                FireNothing, Tick, Coming, At, history
  <2> QED
    BY <2>1, SightStays
<1>2. ASSUME \E u \in Thread : \/ \E s \in Sched, kind \in {"toggle", "edit", "delete"} :
                                     LoadSchedule(u, s, kind)
                               \/ SaveSchedule(u)
      PROVE  NewsIsInSight'
  <2>1. UNCHANGED <<known, dir, news, absorbed, loop>>
    BY <1>2 DEF LoadSchedule, SaveSchedule, history
  <2> QED
    BY <2>1 DEF NewsIsInSight, InHand, At, Current
<1>3. CASE Scan
  <2>1. PICK c \in Sched : c = Current /\ loop.pc = "check"
    BY <1>3, CurrentIsToDo DEF Scan, Coming, FiringInv, At
  <2>2. PICK new \in SUBSET File :
              /\ new = IF known[c] = Unscanned THEN {} ELSE dir[c] \ known[c]
              /\ loop' = IF new = {} THEN Onwards ELSE [loop EXCEPT !.pc = "fire", !.changed = new]
    <3>1. dir[c] \in SUBSET File
      BY DEF FiringInv, TypeOK
    <3> DEFINE found == IF known[c] = Unscanned THEN {} ELSE dir[c] \ known[c]
    <3>2. found \in SUBSET File
      BY <3>1
    <3>3. loop' = IF found = {} THEN Onwards ELSE [loop EXCEPT !.pc = "fire", !.changed = found]
      BY <1>3, <2>1, Zenon DEF Scan
    <3> QED
      BY <3>2, <3>3, Zenon
  <2>3. /\ known' = [known EXCEPT ![c] = dir[c]] /\ UNCHANGED <<dir, news>> /\ dir[c] \in SUBSET File
        /\ absorbed' = IF known[c] # Unscanned THEN absorbed
                       ELSE [absorbed EXCEPT ![c] = @ \cup news[c]]
    BY <1>3, <2>1 DEF Scan, history, FiringInv, TypeOK
  <2>4. dir[c] # Unscanned
    BY <2>3, SchedulerAssumption DEF Unscanned
  <2>5. new # {} => InHand(c)' = new
    <3> SUFFICES ASSUME new # {} PROVE InHand(c)' = new
      OBVIOUS
    <3>1. loop' = [loop EXCEPT !.pc = "fire", !.changed = new]
      BY <2>2
    <3>2. loop'.pc = "fire" /\ loop'.changed = new /\ loop'.todo = loop.todo
      BY <3>1, Zenon DEF FiringInv, TypeOK, Loop
    <3> QED
      BY <2>1, <3>2 DEF InHand, At, Current
  <2>6. ASSUME NEW s \in Sched \ Orphans
        PROVE  /\ news'[s] \subseteq dir'[s]
               /\ \/ known'[s] = Unscanned
                  \/ news'[s] \subseteq (dir'[s] \ known'[s]) \cup InHand(s)' \cup absorbed'[s]
    <3>1. InHand(s) = {}
      BY <2>1 DEF InHand, At
    <3>2. CASE s # c
      BY <2>3, <2>6, <3>1, <3>2 DEF NewsIsInSight, FiringInv, TypeOK
    <3>3. CASE s = c
      <4>1. known'[s] = dir[s] /\ known'[s] # Unscanned
        BY <2>3, <2>4, <3>3 DEF FiringInv, TypeOK
      <4>2. news[s] \subseteq new \cup absorbed'[s]
        BY <2>2, <2>3, <2>6, <3>1, <3>3 DEF NewsIsInSight, FiringInv, TypeOK
      <4>3. news[s] \subseteq InHand(s)' \cup absorbed'[s]
        BY <2>5, <3>3, <4>2
      <4> QED
        BY <2>3, <2>6, <4>1, <4>3 DEF NewsIsInSight
    <3> QED
      BY <3>2, <3>3
  <2> QED
    BY <2>6 DEF NewsIsInSight
<1>4. CASE Fire
  <2>1. PICK c \in Sched : c = Current /\ At("fire")
    BY <1>4, CurrentIsToDo DEF Fire, FiringInv, RoundHasSchedules, At
  <2>2. news' = [news EXCEPT ![c] = @ \ loop.changed] /\ UNCHANGED <<known, dir, absorbed>>
    BY <1>4, <2>1 DEF Fire
  <2>3. ASSUME NEW s \in Sched \ Orphans
        PROVE  /\ news'[s] \subseteq dir[s]
               /\ known[s] = Unscanned \/ news'[s] \subseteq (dir[s] \ known[s]) \cup absorbed[s]
    <3>1. s # c => InHand(s) = {}
      BY <2>1 DEF InHand
    <3>2. InHand(c) = loop.changed
      BY <2>1 DEF InHand
    <3>3. /\ news[s] \subseteq dir[s]
          /\ \/ known[s] = Unscanned
             \/ news[s] \subseteq (dir[s] \ known[s]) \cup InHand(s) \cup absorbed[s]
      BY <2>3 DEF NewsIsInSight
    <3> QED
      BY <2>2, <3>1, <3>2, <3>3 DEF FiringInv, TypeOK
  <2> QED
    BY <2>2, <2>3 DEF NewsIsInSight
<1>5. CASE \E s \in Sched, f \in File : Create(s, f) \/ Remove(s, f)
  <2>1. PICK s \in Sched, f \in File : Create(s, f) \/ Remove(s, f)
    BY <1>5
  <2>2. UNCHANGED <<loop, known>>
    BY <2>1 DEF Create, Remove
  <2>3. ASSUME NEW q \in Sched PROVE InHand(q)' = InHand(q)
    BY <2>2 DEF InHand, At, Current
  <2>4. CASE Create(s, f)
    <3>1. /\ dir' = [dir EXCEPT ![s] = @ \cup {f}]
          /\ news' = IF f \in known[s] THEN news ELSE [news EXCEPT ![s] = @ \cup {f}]
          /\ absorbed' = absorbed
      BY <2>4 DEF Create
    <3> QED
      BY <2>2, <2>3, <3>1 DEF NewsIsInSight, FiringInv, TypeOK
  <2>5. CASE Remove(s, f)
    <3>1. dir' = [dir EXCEPT ![s] = @ \ {f}] /\ news' = [news EXCEPT ![s] = @ \ {f}]
          /\ absorbed' = [absorbed EXCEPT ![s] = @ \ {f}]
      BY <2>5 DEF Remove
    <3> QED
      BY <2>2, <2>3, <3>1 DEF NewsIsInSight, FiringInv, TypeOK
  <2> QED
    BY <2>1, <2>4, <2>5
<1>6. CASE Restart
  BY <1>6 DEF Restart, NewsIsInSight
<1> QED
  BY <1>1, <1>2, <1>3, <1>4, <1>5, <1>6 DEF Next, Polls
-----------------------------------------------------------------------------
(* Theorems                                                                *)

LEMMA SchedulerRest ==
    ASSUME SchedulerInv, UNCHANGED vars PROVE SchedulerInv'
<1>1. UNCHANGED <<now, stored, loop, known, dir, request, news, absorbed, lastRun, lost>>
  BY DEF vars, history
<1>2. TypeOK' /\ RoundHasSchedules'
  BY <1>1 DEF SchedulerInv, FiringInv, TypeOK, RoundHasSchedules
<1>3. FilesTell' /\ RoundTells'
  BY <1>1 DEF SchedulerInv, FiringInv, FilesTell, RoundTells, OnRecord, Running, Current, Exists
<1>4. FiresWhenDue' /\ RunsArePast'
  BY <1>1 DEF SchedulerInv, FiringInv, FiresWhenDue, At, Current, Due, Snapshot, RunsArePast
<1>5. NewsIsInSight'
  BY <1>1 DEF SchedulerInv, NewsIsInSight, InHand, At, Current
<1> QED
  BY <1>2, <1>3, <1>4, <1>5 DEF SchedulerInv, FiringInv

\* The invariant of the polling loop: what files and rounds say of firings, and where the
\* files are that nobody was told of (SchedulerService, ScheduleStore, triggers).
THEOREM SchedulerInvariant == Spec => []SchedulerInv
<1>1. SchedulerInv /\ [Next]_vars => SchedulerInv'
  BY FiringStep, NewsStep, SchedulerRest DEF SchedulerInv
<1> QED
  BY <1>1, SchedulerStart, PTL DEF Spec

\* A cron schedule fires at most once in a minute, for any schedules, expressions, polling
\* interval, requests and restarts, unless its file has lost the last firing (evaluate_cron).
THEOREM OncePerMinuteHolds == Spec => OncePerMinute
<1>1. SchedulerInv /\ [Next]_vars => [FiresOncePerMinute]_vars
  BY FiringStep DEF SchedulerInv
<1>2. SchedulerInv /\ [Next]_vars =>
        [\A s \in Cron : (Starts(s) /\ lastRun[s] # Never /\ s \notin lost)
                           => now \div Minute # lastRun[s] \div Minute]_vars
  BY <1>1 DEF FiresOncePerMinute
<1> QED
  BY <1>2, SchedulerInvariant, PTL DEF Spec, OncePerMinute

\* A file no execution was told of is one the next scan finds, or one that the execution about
\* to start is told of: no scan takes it for known before, but the first of a process
\* (scan_directory, _fire).
THEOREM NewFilesAreInSight == Spec => []NewsIsInSight
BY SchedulerInvariant, PTL DEF SchedulerInv
=============================================================================
