----------------------------- MODULE Scheduler -----------------------------
(***************************************************************************)
(* The schedule poller of workflow_engine/scheduler: the loop of            *)
(* SchedulerService over the schedule files (store.py) and the cron and    *)
(* file-watch triggers (triggers.py), with the schedule routes of api.py   *)
(* that change the same files from threads of their own.                   *)
(*                                                                         *)
(* The loop is one asyncio task.  It awaits every execution it starts, so  *)
(* time passes while it sleeps and while a workflow runs, and nowhere else. *)
(* A route, and the loop after an execution, load a schedule file and save *)
(* it again: one action reads, a later one writes.                         *)
(***************************************************************************)
EXTENDS Integers, FiniteSetsExt

CONSTANTS
    Sched,       \* schedules, numbered in the order in which ScheduleStore.list
                 \* sorts their files
    Cron,        \* the cron schedules; the others watch a directory
    Matches,     \* Matches[s]: the minutes the expression of s matches
    Orphans,     \* schedules whose workflow has been deleted
    File,        \* file names matching the watched pattern
    Thread,      \* threads serving schedule routes
    Minute,      \* length of a minute, and of the window of evaluate_cron
    Poll,        \* poll_interval
    MaxTime,     \* bound: the clock
    MaxRequests, \* bound: schedule requests
    MaxFileOps,  \* bound: files created and removed
    MaxRestarts  \* bound: restarts of the process

ASSUME SchedulerAssumption ==
    /\ Sched \subseteq Nat /\ Cron \subseteq Sched
    /\ "unscanned" \notin File
    /\ Minute \in Nat \ {0} /\ Poll \in Nat /\ MaxTime \in Nat

VARIABLES
    now,      \* the clock
    stored,   \* the schedule files
    loop,     \* where the polling task is
    known,    \* _known_files: names seen by the last scan of a schedule
    dir,      \* the files in the directory a schedule watches
    request,  \* what each thread is doing
    news,     \* history: files created under a name the last scan did not see,
              \* that no execution was told of
    absorbed, \* history: those of them that a first scan took for known
    lastRun,  \* history: when an execution of a schedule last started
    lost,     \* history: schedules whose last firing a restart kept from their
              \* file, or a request took from it again
    requests, fileOps, restarts  \* how much of the bounds is used up

bounds == <<requests, fileOps, restarts>>
history == <<news, absorbed, lastRun, lost>>
vars == <<now, stored, loop, known, dir, request, history, bounds>>

Never == -1
NoFile == [enabled |-> FALSE, last |-> -2]
Unscanned == {"unscanned"}
Idle == [kind |-> "idle"]

Exists(s) == stored[s] # NoFile

Init ==
    /\ now = 0
    /\ stored = [s \in Sched |-> [enabled |-> TRUE, last |-> Never]]
    /\ loop = [pc |-> "list", todo |-> {}, snap |-> stored,
               changed |-> {}, wake |-> 0]
    /\ known = [s \in Sched |-> Unscanned]
    /\ dir = [s \in Sched |-> {}]
    /\ request = [u \in Thread |-> Idle]
    /\ news = [s \in Sched |-> {}] /\ absorbed = [s \in Sched |-> {}]
    /\ lastRun = [s \in Sched |-> Never]
    /\ lost = {}
    /\ requests = 0 /\ fileOps = 0 /\ restarts = 0

-----------------------------------------------------------------------------
(* The polling task                                                        *)

\* The schedule the round has come to, as the round's snapshot has it.
Current == Min(loop.todo)
Snapshot == loop.snap[Current]

At(pc) == loop.pc = pc
Coming == At("check") /\ loop.todo # {}

\* Go on with the next schedule of the round.
Onwards == [loop EXCEPT !.pc = "check", !.todo = @ \ {Current}, !.changed = {}]

\* _check_schedules lists the schedule files once for the whole round.
ListSchedules ==
    /\ At("list")
    /\ loop' = [loop EXCEPT !.pc = "check", !.snap = stored,
                            !.todo = {s \in Sched : Exists(s)}]
    /\ UNCHANGED <<now, stored, known, dir, request, history, bounds>>

SkipDisabled ==
    /\ Coming
    /\ ~Snapshot.enabled
    /\ loop' = Onwards
    /\ UNCHANGED <<now, stored, known, dir, request, history, bounds>>

\* Mutant of Due: the window since the last firing is not looked at.
DueAnyTime(s) == now \div Minute \in Matches[s]

\* evaluate_cron: the minute matches and the last firing is a minute ago.
Due(s) ==
    /\ now \div Minute \in Matches[s]
    /\ \/ Snapshot.last = Never
       \/ now - Snapshot.last >= Minute

CheckCron ==
    /\ Coming
    /\ Snapshot.enabled /\ Current \in Cron
    /\ loop' = IF Due(Current) THEN [loop EXCEPT !.pc = "fire"] ELSE Onwards
    /\ UNCHANGED <<now, stored, known, dir, request, history, bounds>>

\* scan_directory: what was not there at the last scan is new; the first
\* scan of the process finds nothing new, and takes all that is there for known.
\* Only names are compared.
Scan ==
    /\ Coming
    /\ Snapshot.enabled /\ Current \notin Cron
    /\ LET new == IF known[Current] = Unscanned THEN {}
                  ELSE dir[Current] \ known[Current]
       IN loop' = IF new = {} THEN Onwards
                  ELSE [loop EXCEPT !.pc = "fire", !.changed = new]
    /\ known' = [known EXCEPT ![Current] = dir[Current]]
    /\ absorbed' = IF known[Current] # Unscanned THEN absorbed
                   ELSE [absorbed EXCEPT ![Current] = @ \cup news[Current]]
    /\ UNCHANGED <<now, stored, dir, request, news, lastRun, lost, bounds>>

\* _fire starts an execution, told of the changed files, and awaits it.
Fire ==
    /\ At("fire") /\ Current \notin Orphans
    /\ loop' = [loop EXCEPT !.pc = "running"]
    /\ news' = [news EXCEPT ![Current] = @ \ loop.changed]
    /\ lastRun' = [lastRun EXCEPT ![Current] = now]
    /\ lost' = lost \ {Current}
    /\ UNCHANGED <<now, stored, known, dir, request, absorbed, bounds>>

\* The workflow has been deleted: nothing is executed.
FireNothing ==
    /\ At("fire") /\ Current \in Orphans
    /\ loop' = Onwards
    /\ UNCHANGED <<now, stored, known, dir, request, history, bounds>>

\* Mutant of LoadFired: the directory is scanned again after the execution.
LoadFiredRescans ==
    /\ At("running")
    /\ loop' = IF Exists(Current)
                 THEN [loop EXCEPT !.pc = "save",
                                   !.snap = [@ EXCEPT ![Current] = stored[Current]]]
                 ELSE Onwards
    /\ known' = [known EXCEPT ![Current] = dir[Current]]
    /\ UNCHANGED <<now, stored, dir, request, history, bounds>>

\* The execution has ended; update_last_fired loads the schedule, which may
\* be gone by now.
LoadFired ==
    /\ At("running")
    /\ loop' = IF Exists(Current)
                 THEN [loop EXCEPT !.pc = "save",
                                   !.snap = [@ EXCEPT ![Current] = stored[Current]]]
                 ELSE Onwards
    /\ UNCHANGED <<now, stored, known, dir, request, history, bounds>>

\* ... and saves it, all of it, with the time of the firing.
SaveFired ==
    /\ At("save")
    /\ stored' = [stored EXCEPT ![Current] = [Snapshot EXCEPT !.last = now]]
    /\ loop' = Onwards
    /\ UNCHANGED <<now, known, dir, request, history, bounds>>

\* The round is over: sleep.  (When the clock has come to its bound the loop
\* goes on polling without it.)
Sleep ==
    /\ At("check") /\ loop.todo = {}
    /\ loop' = [loop EXCEPT !.pc = "asleep", !.wake = IF now + Poll < MaxTime THEN now + Poll ELSE MaxTime]
    /\ UNCHANGED <<now, stored, known, dir, request, history, bounds>>

Wake ==
    /\ At("asleep") /\ now >= loop.wake
    /\ loop' = [loop EXCEPT !.pc = "list"]
    /\ UNCHANGED <<now, stored, known, dir, request, history, bounds>>

-----------------------------------------------------------------------------
(* The schedule routes, the directories and the clock                      *)

\* toggle_schedule, update_schedule and delete_schedule load the schedule.
LoadSchedule(u, s, kind) ==
    /\ requests < MaxRequests
    /\ request[u] = Idle
    /\ Exists(s)
    /\ request' = [request EXCEPT ![u] = [kind |-> kind, sched |-> s,
                                          copy |-> stored[s]]]
    /\ requests' = requests + 1
    /\ UNCHANGED <<now, stored, loop, known, dir, history, fileOps, restarts>>

\* What the routes write: the other state, the record as loaded (its trigger
\* or workflow edited), or nothing.
Written(r) ==
    CASE r.kind = "toggle" -> [r.copy EXCEPT !.enabled = ~@]
      [] r.kind = "edit"   -> r.copy
      [] r.kind = "delete" -> NoFile

\* The loop has saved a firing since the route loaded the schedule.
Stale(r) == r.copy.last # stored[r.sched].last

SaveSchedule(u) ==
    /\ request[u] # Idle
    /\ stored' = [stored EXCEPT ![request[u].sched] = Written(request[u])]
    /\ lost' = IF Stale(request[u]) THEN lost \cup {request[u].sched} ELSE lost
    /\ request' = [request EXCEPT ![u] = Idle]
    /\ UNCHANGED <<now, loop, known, dir, news, absorbed, lastRun, bounds>>

\* A file created under a name the last scan did not see is news.
Create(s, f) ==
    /\ fileOps < MaxFileOps
    /\ s \notin Cron /\ f \notin dir[s]
    /\ dir' = [dir EXCEPT ![s] = @ \cup {f}]
    /\ news' = IF f \in known[s] THEN news ELSE [news EXCEPT ![s] = @ \cup {f}]
    /\ fileOps' = fileOps + 1
    /\ UNCHANGED <<now, stored, loop, known, request, absorbed, lastRun, lost,
                   requests, restarts>>

Remove(s, f) ==
    /\ fileOps < MaxFileOps
    /\ f \in dir[s]
    /\ dir' = [dir EXCEPT ![s] = @ \ {f}]
    /\ news' = [news EXCEPT ![s] = @ \ {f}]
    /\ absorbed' = [absorbed EXCEPT ![s] = @ \ {f}]
    /\ fileOps' = fileOps + 1
    /\ UNCHANGED <<now, stored, loop, known, request, lastRun, lost, requests,
                   restarts>>

\* Time passes while the loop sleeps or awaits an execution.
Tick ==
    /\ now < MaxTime
    /\ At("running") \/ (At("asleep") /\ now < loop.wake)
    /\ now' = now + 1
    /\ UNCHANGED <<stored, loop, known, dir, request, history, bounds>>

\* The process restarts: the task begins anew, with nothing scanned and no changed
\* files in hand, and an execution under way is not gone on with.
Restart ==
    /\ restarts < MaxRestarts
    /\ restarts' = restarts + 1
    /\ loop' = [pc |-> "list", todo |-> {}, snap |-> stored,
                changed |-> {}, wake |-> 0]
    /\ known' = [s \in Sched |-> Unscanned]
    /\ request' = [u \in Thread |-> Idle]
    /\ lost' = IF loop.pc \in {"running", "save"} THEN lost \cup {Current} ELSE lost
    /\ UNCHANGED <<now, stored, dir, news, absorbed, lastRun, requests, fileOps>>

Polls ==
    \/ ListSchedules \/ SkipDisabled \/ CheckCron \/ Scan \/ Fire
    \/ FireNothing \/ LoadFired \/ SaveFired \/ Sleep \/ Wake

Next ==
    \/ Polls
    \/ \E u \in Thread :
        \/ \E s \in Sched, kind \in {"toggle", "edit", "delete"} :
             LoadSchedule(u, s, kind)
        \/ SaveSchedule(u)
    \/ \E s \in Sched, f \in File : Create(s, f) \/ Remove(s, f)
    \/ Tick \/ Restart

Spec == Init /\ [][Next]_vars

\* The event loop runs the task when it can go on, executions end and time
\* goes on; no request has to come and no file has to change.
FairSpec == Spec /\ WF_vars(Polls) /\ WF_vars(Tick)
-----------------------------------------------------------------------------
(* Properties                                                              *)

\* The next state finds an execution of a schedule started just now.
Starts(s) == At("fire") /\ loop'.pc = "running" /\ Current = s

\* A cron schedule fires at most once in a minute, across overlong rounds and
\* restarts, unless its file does not say when it last did: a restart ended the
\* execution, or a request wrote back what it had loaded before
\* (evaluate_cron, update_last_fired).
OncePerMinute ==
    [][\A s \in Cron :
         (Starts(s) /\ lastRun[s] # Never /\ s \notin lost)
            => now \div Minute # lastRun[s] \div Minute]_vars

\* A new file is told to an execution in the end, unless it goes away, its schedule
\* is disabled or deleted, or the first scan of a process takes it for known: what
\* is new at a restart and not yet told is never reported (the polling loop;
\* scan_directory: "none reported as new").
NewFilesAreTold ==
    \A s \in Sched \ (Cron \cup Orphans), f \in File :
        f \in news[s] ~> \/ f \notin news[s] \/ f \in absorbed[s]
                        \/ ~stored[s].enabled

\* "Update the last_fired timestamp without a full load/save cycle" of
\* update_last_fired: the loop changes nothing else of a schedule.
FiringKeepsTheRest ==
    [][SaveFired =>
         \A s \in Sched : /\ Exists(s)' = Exists(s)
                          /\ stored'[s].enabled = stored[s].enabled]_vars

=============================================================================
