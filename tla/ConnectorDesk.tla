---------------------------- MODULE ConnectorDesk ----------------------------
(***************************************************************************)
(* The connectors of one workspace and their sync schedules: the routes     *)
(* that create, edit, toggle and delete them (api/routes_connectors.py),    *)
(* the files behind (connectors/config_store.py, schedule.py), and the      *)
(* syncs that run_due_schedules starts (sync_runner.py).  What a sync does   *)
(* with the items of a connector is ConnectorSync; here it succeeds or      *)
(* fails.                                                                   *)
(*                                                                         *)
(* The schedules of a connector are one file, which every operation reads,  *)
(* changes and writes as a whole, in threads and without a lock.  A request *)
(* is a number of file accesses, of which a thread takes one at a time.     *)
(***************************************************************************)
EXTENDS Naturals, Sequences, FiniteSets

CONSTANTS
    Connector, Thread, None,
    Every,          \* minutes between syncs a request may ask for; 0 is manual
    MaxTime, MaxRequests, MaxSchedules, MaxCrashes   \* bounds

VARIABLES
    config,     \* connectors with a config file
    listed,     \* the ids in the configs' _index.json
    file,       \* the schedules of each connector, a sequence of records
    now,        \* minutes
    thread,     \* what each thread is doing
    used,       \* connector ids given out
    made, requests, crashes,   \* what the bounds count
    mixed,      \* history: connectors two threads worked on at once, or one died on
    ran         \* history: per schedule, when run_due_schedules last served it

disk == <<config, listed, file>>
counters == <<used, made, requests, crashes>>
history == <<mixed, ran>>
vars == <<disk, now, thread, counters, history>>

-----------------------------------------------------------------------------
(* Schedules                                                                *)

\* ConnectorSchedule.calculate_next_run: None is 0.  The cron expression of a cron
\* schedule is not looked at: it has an interval, like an interval schedule, or is
\* never due, like a manual one.
NextRunFromCreation(s) ==                \* a mutant: counted from the creation
    IF ~s.on \/ s.every = 0 THEN 0 ELSE s.made + s.every

NextRun(s) ==
    IF ~s.on \/ s.every = 0 THEN 0
    ELSE (IF s.last = 0 THEN s.made ELSE s.last) + s.every

\* ConnectorSchedule.is_due
IsDue(s, time) ==
    LET next == IF s.next = 0 THEN NextRun(s) ELSE s.next IN
    s.on /\ next # 0 /\ time >= next

WithNext(s) == [s EXCEPT !.next = NextRun(s)]

\* ScheduleStore.update_schedule on a list that was loaded: the record with that id
\* is replaced, and there may be none.
Updated(list, s) ==
    [i \in DOMAIN list |-> IF list[i].id = s.id THEN WithNext(s) ELSE list[i]]

\* delete_schedule, of the one record with that id.
Without(list, id) ==
    LET k == CHOOSE i \in DOMAIN list : list[i].id = id IN
    SubSeq(list, 1, k - 1) \o SubSeq(list, k + 1, Len(list))
Has(list, id) == \E i \in DOMAIN list : list[i].id = id

-----------------------------------------------------------------------------
(* Requests                                                                 *)

\* A thread is at a step of an operation on connector c.  It has a schedule, a list to
\* be saved, and the schedules run_due_schedules has yet to serve, each with its place
\* in the file; or it has ids of configs.
Doing(op, step, c, s, list, due) ==
    [op |-> op, step |-> step, c |-> c, s |-> s, list |-> list, due |-> due]
Configuring(op, step, c, ids) ==
    [op |-> op, step |-> step, c |-> c, ids |-> ids, due |-> {}]
Idle == Configuring("-", "-", None, {})

At(t, step) == thread[t].step = step
Goto(t, th) == thread' = [thread EXCEPT ![t] = th]
Changing(op, c, s) == Doing(op, "load", c, s, <<>>, {})
Serve(s, due) == Doing("sync", "config", s.c, s, <<>>, due)

\* run_due_schedules goes on to the next schedule of the list it made, which has those of
\* one connector together, as they are in the file; other requests end here.
Upcoming(due, c) ==
    {d \in due :
        /\ (\E e \in due : e[2].c = c) => d[2].c = c
        /\ \A e \in due : e[2].c = d[2].c => d[1] <= e[1]}
GoesOn(t, due, c) ==
    \/ due = {} /\ Goto(t, Idle)
    \/ \E d \in Upcoming(due, c) : Goto(t, Serve(d[2], due \ {d}))
Ends(t) == GoesOn(t, thread[t].due, thread[t].c)

Works(th, c) ==
    /\ th.step # "-"
    /\ th.c \in {c, None} \/ \E d \in th.due : d[2].c = c
WorksOn(t, c) == Works(thread[t], c)

Begin(t, c, th) ==
    /\ thread[t] = Idle /\ requests < MaxRequests
    /\ requests' = requests + 1
    /\ Goto(t, th)
    /\ mixed' = mixed \cup {d \in Connector : c \in {d, None} /\ \E u \in Thread : WorksOn(u, d)}
    /\ UNCHANGED <<disk, now, crashes, ran>>

CreateConfig(t) ==
    \E c \in Connector \ used :
        Begin(t, c, Configuring("save", "write", c, {})) /\ used' = used \cup {c} /\ UNCHANGED made
UpdateConfig(t) ==
    \E c \in config : Begin(t, c, Configuring("save", "write", c, {})) /\ UNCHANGED <<used, made>>
RemoveConfig(t) ==
    \E c \in config : Begin(t, c, Configuring("drop", "write", c, {})) /\ UNCHANGED <<used, made>>

\* create_sync_schedule asks for no connector.
CreateSchedule(t) ==
    \E c \in Connector, every \in Every, on \in BOOLEAN :
        /\ made < MaxSchedules /\ made' = made + 1 /\ UNCHANGED used
        /\ Begin(t, c, Changing("create", c,
                 [id |-> made + 1, c |-> c, on |-> on, every |-> every,
                  next |-> 0, last |-> 0, made |-> now]))

\* update_sync_schedule and toggle_sync_schedule load the record, change it, and
\* then have update_schedule load the list again.
EditSchedule(t) ==
    \E c \in Connector : \E i \in DOMAIN file[c] :
        /\ \E every \in Every :
              Begin(t, c, Changing("update", c, [file[c][i] EXCEPT !.every = every]))
        /\ UNCHANGED <<used, made>>
ToggleSchedule(t) ==
    \E c \in Connector : \E i \in DOMAIN file[c] :
        /\ Begin(t, c, Changing("update", c, WithNext([file[c][i] EXCEPT !.on = ~@])))
        /\ UNCHANGED <<used, made>>
DeleteSchedule(t) ==
    \E c \in Connector : \E i \in DOMAIN file[c] :
        Begin(t, c, Changing("delete", c, file[c][i])) /\ UNCHANGED <<used, made>>

TriggerSync(t) ==
    \E c \in Connector : Begin(t, c, Doing("sync", "config", c, None, <<>>, {})) /\ UNCHANGED <<used, made>>

RunDue(t) == Begin(t, None, Doing("run", "due", None, None, <<>>, {})) /\ UNCHANGED <<used, made>>

-----------------------------------------------------------------------------
(* File accesses                                                            *)

\* list_due_schedules, over the file of every connector.
Due == {d \in UNION {{<<i, file[c][i]>> : i \in DOMAIN file[c]} : c \in Connector} : IsDue(d[2], now)}

ListDue(t) ==
    /\ At(t, "due")
    /\ GoesOn(t, Due, None)
    /\ UNCHANGED <<disk, now, counters, history>>

\* store.load: a sync without a config raises, and leaves the schedules alone.
LoadConfig(t) ==
    LET th == thread[t] IN
    /\ At(t, "config")
    /\ IF th.c \in config THEN Goto(t, Doing("sync", "sync", th.c, th.s, <<>>, th.due)) ELSE Ends(t)
    /\ UNCHANGED <<disk, now, counters, history>>

\* The sync itself, which may raise.
RunSync(t) ==
    LET th == thread[t] IN
    /\ At(t, "sync")
    /\ Goto(t, Doing("sync", "find", th.c, th.s, <<>>, th.due)) \/ Ends(t)
    /\ UNCHANGED <<disk, now, counters, history>>

\* find_schedule_for_connector: the first one, whichever was due.
FindSchedule(t) ==
    LET th == thread[t] IN
    /\ At(t, "find")
    /\ IF file[th.c] = <<>> THEN Ends(t) /\ UNCHANGED ran
       ELSE LET s == Head(file[th.c]) IN
            /\ Goto(t, Doing("sync", "load", th.c, WithNext([s EXCEPT !.last = now]), <<>>, th.due))
            /\ ran' = IF th.s # None /\ th.s.id = s.id
                      THEN [ran EXCEPT ![<<th.c, s.id>>] = now] ELSE ran
    /\ UNCHANGED <<disk, now, counters, mixed>>

\* _load_all, with what comes of the list in memory; nothing is saved unless the
\* record is there.
LoadList(t) ==
    LET th == thread[t]
        Then(list) == Goto(t, Doing(th.op, "save", th.c, th.s, list, th.due)) IN
    /\ At(t, "load")
    /\ \/ th.op = "create" /\ Then(Append(file[th.c], WithNext(th.s)))
       \/ th.op # "create" /\ ~Has(file[th.c], th.s.id) /\ Ends(t)
       \/ th.op \in {"update", "sync"} /\ Has(file[th.c], th.s.id) /\ Then(Updated(file[th.c], th.s))
       \/ th.op = "delete" /\ Has(file[th.c], th.s.id) /\ Then(Without(file[th.c], th.s.id))
    /\ UNCHANGED <<disk, now, counters, history>>

\* _save_all
SaveList(t) ==
    /\ At(t, "save")
    /\ file' = [file EXCEPT ![thread[t].c] = thread[t].list]
    /\ Ends(t)
    /\ UNCHANGED <<config, listed, now, counters, history>>

\* ConnectorConfigStore.save and delete: the file, then the list of ids if that
\* changes it.
WriteConfig(t) ==
    LET th == thread[t] IN
    /\ At(t, "write")
    /\ config' = IF th.op = "save" THEN config \cup {th.c} ELSE config \ {th.c}
    /\ Goto(t, Configuring(th.op, "ids", th.c, {}))
    /\ UNCHANGED <<listed, file, now, counters, history>>

LoadIds(t) ==
    LET th == thread[t] IN
    /\ At(t, "ids")
    /\ IF (th.c \in listed) = (th.op = "save") THEN Goto(t, Idle)
       ELSE Goto(t, Configuring(th.op, "list", th.c, listed))
    /\ UNCHANGED <<disk, now, counters, history>>

SaveIds(t) ==
    LET th == thread[t] IN
    /\ At(t, "list")
    /\ listed' = IF th.op = "save" THEN th.ids \cup {th.c} ELSE th.ids \ {th.c}
    /\ Goto(t, Idle)
    /\ UNCHANGED <<config, file, now, counters, history>>

Tick ==
    /\ now < MaxTime /\ now' = now + 1
    /\ UNCHANGED <<disk, thread, counters, history>>

Crash ==
    /\ crashes < MaxCrashes /\ crashes' = crashes + 1
    /\ thread' = [t \in Thread |-> Idle]
    /\ mixed' = mixed \cup {c \in Connector : \E t \in Thread : WorksOn(t, c)}
    /\ UNCHANGED <<disk, now, used, made, requests, ran>>

Init ==
    /\ config \in SUBSET Connector /\ listed = config /\ used = config
    /\ file = [c \in Connector |-> <<>>]
    /\ now = 1 /\ thread = [t \in Thread |-> Idle]
    /\ made = 0 /\ requests = 0 /\ crashes = 0
    /\ mixed = {} /\ ran = [x \in Connector \X (1..MaxSchedules) |-> 0]

Next ==
    \/ Tick \/ Crash
    \/ \E t \in Thread :
        \/ CreateConfig(t) \/ UpdateConfig(t) \/ RemoveConfig(t)
        \/ CreateSchedule(t) \/ EditSchedule(t) \/ ToggleSchedule(t) \/ DeleteSchedule(t)
        \/ TriggerSync(t) \/ RunDue(t)
        \/ ListDue(t) \/ LoadConfig(t) \/ RunSync(t) \/ FindSchedule(t)
        \/ LoadList(t) \/ SaveList(t)
        \/ WriteConfig(t) \/ LoadIds(t) \/ SaveIds(t)

Spec == Init /\ [][Next]_vars

-----------------------------------------------------------------------------
(* Properties                                                               *)

\* Between two successful syncs run_due_schedules makes for the first schedule of a
\* connector its interval goes by, through edits, toggles and manual syncs; unless
\* two threads worked on the connector at once, or one died on it.
KeepsToInterval ==
    \A c \in Connector \ mixed : file[c] # <<>> =>
        LET s == Head(file[c]) IN
        ran'[<<c, s.id>>] # ran[<<c, s.id>>] =>
            ran[<<c, s.id>>] = 0 \/ ran[<<c, s.id>>] + s.every <= now
ServedAtItsInterval == [][KeepsToInterval]_vars
=============================================================================
