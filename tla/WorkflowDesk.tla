---------------------------- MODULE WorkflowDesk ----------------------------
(***************************************************************************)
(* The routes that create, update, delete and execute workflows             *)
(* (workflow_engine/api.py), over the files of workflows, of their versions  *)
(* (stores/json_store.py, version_store.py) and of the schedules their       *)
(* trigger nodes ask for.  What an execution does is DAGEngine; here it      *)
(* runs the definition the route loaded, and is linked to a version.         *)
(*                                                                         *)
(* The routes run in threads, an execution on the event loop, and no file   *)
(* has a lock.  A request is a sequence of file accesses, of which a thread  *)
(* takes one at a time.                                                     *)
(***************************************************************************)
EXTENDS Naturals, FiniteSets, FiniteSetsExt

CONSTANTS
    Workflow, Thread, None,
    Trigger,        \* trigger nodes
    MaxRequests, MaxCrashes   \* bounds

VARIABLES
    stored,     \* the definition of each workflow on file and its version, or None
    listed,     \* the ids in the workflows' _index.json
    versions,   \* the version files of each workflow: a definition per number
    index,      \* the numbers in the _index.json beside them
    schedules,  \* the schedules of trigger nodes: [id, w, node]
    executions, \* executions: [w, ran, linked, torn], linked a number or 0
    thread,     \* what each thread is doing
    used, made, requests, crashes,  \* ids given out, and what the bounds count
    mixed,      \* history: workflows two threads worked on at once
    torn        \* history: workflows a thread died on, and none has stored since

disk == <<stored, listed, versions, index, schedules, executions>>
counters == <<used, made, requests, crashes>>
vars == <<disk, thread, counters, mixed, torn>>

Number == 1..MaxRequests
Definition == SUBSET Trigger   \* a definition is reduced to its trigger nodes

-----------------------------------------------------------------------------
(* Requests                                                                 *)

\* A request: the file access it has come to, its workflow, the definition it stores or runs,
\* the ids or numbers it has loaded, the number of a version, and the schedules that are to
\* be saved and deleted.
Idle == [at |-> "-", w |-> None, new |-> None, ids |-> {}, n |-> 0, save |-> {}, drop |-> {}]

At(t, at) == thread[t].at = at
Goes(t, at, ids, n) ==
    thread' = [thread EXCEPT ![t] = [at |-> at, w |-> thread[t].w, new |-> thread[t].new,
                                     ids |-> ids, n |-> n, save |-> {}, drop |-> {}]]
Scheduling(t, save, drop) ==
    thread' = [thread EXCEPT ![t] = [at |-> IF save \cup drop = {} THEN "end" ELSE "schedule",
                                     w |-> thread[t].w, new |-> thread[t].new,
                                     ids |-> {}, n |-> 0, save |-> save, drop |-> drop]]

Begin(t, w, at, new) ==
    /\ thread[t] = Idle /\ requests < MaxRequests
    /\ requests' = requests + 1
    /\ thread' = [thread EXCEPT ![t] = [at |-> at, w |-> w, new |-> new,
                                        ids |-> {}, n |-> 0, save |-> {}, drop |-> {}]]
    /\ mixed' = IF \E u \in Thread : thread[u].w = w THEN mixed \cup {w} ELSE mixed
    /\ UNCHANGED <<disk, made, crashes, torn>>

Create(t) ==
    \E w \in Workflow \ used, d \in Definition :
        Begin(t, w, "write", [def |-> d, version |-> 1]) /\ used' = used \cup {w}

\* The version is counted on from the workflow the route has loaded.
Update(t) ==
    \E w \in Workflow, d \in Definition :
        /\ stored[w] # None
        /\ Begin(t, w, "write", [def |-> d, version |-> stored[w].version + 1])
        /\ UNCHANGED used

Delete(t) ==
    \E w \in Workflow :
        stored[w] # None /\ Begin(t, w, "unlink", None) /\ UNCHANGED used

\* execute_workflow loads the workflow and validates it.
BeginExecute(t) ==
    \E w \in Workflow :
        /\ stored[w] # None
        /\ Begin(t, w, "latest", stored[w]) /\ UNCHANGED used

Answer(t) ==
    /\ At(t, "end")
    /\ thread' = [thread EXCEPT ![t] = Idle]
    /\ UNCHANGED <<disk, counters, mixed, torn>>

-----------------------------------------------------------------------------
(* File accesses                                                            *)

\* JSONWorkflowStore.save and delete: the workflow's file, then the list of ids, if that
\* changes it.
WriteWorkflow(t) ==
    LET th == thread[t] IN
    /\ \/ At(t, "write") /\ stored' = [stored EXCEPT ![th.w] = th.new] /\ Goes(t, "ids", {}, 0)
       \/ At(t, "unlink") /\ stored' = [stored EXCEPT ![th.w] = None] /\ Goes(t, "unids", {}, 0)
    /\ UNCHANGED <<listed, versions, index, schedules, executions, counters, mixed, torn>>

LoadIds(t) ==
    LET w == thread[t].w IN
    /\ \/ At(t, "ids") /\ w \in listed /\ Goes(t, "numbers", {}, 0)
       \/ At(t, "ids") /\ w \notin listed /\ Goes(t, "list", listed, 0)
       \/ At(t, "unids") /\ w \notin listed /\ Goes(t, "end", {}, 0)
       \/ At(t, "unids") /\ w \in listed /\ Goes(t, "unlist", listed, 0)
    /\ UNCHANGED <<disk, counters, mixed, torn>>

SaveIds(t) ==
    LET th == thread[t] IN
    /\ \/ At(t, "list") /\ listed' = th.ids \cup {th.w} /\ Goes(t, "numbers", {}, 0)
       \/ At(t, "unlist") /\ listed' = th.ids \ {th.w} /\ Goes(t, "end", {}, 0)
    /\ UNCHANGED <<stored, versions, index, schedules, executions, counters, mixed, torn>>

\* A new version is numbered on from the largest number in the index.
NextNumber(numbers) == IF numbers = {} THEN 1 ELSE Max(numbers) + 1

FirstNumber(numbers) ==                  \* a mutant: the head of the list
    IF numbers = {} THEN 0 ELSE Min(numbers)
\* get_latest_version_number; an execution without one is linked to none.
LatestNumber(numbers) == IF numbers = {} THEN 0 ELSE Max(numbers)

\* JSONVersionStore.create_version
LoadNumbers(t) ==
    LET numbers == index[thread[t].w] IN
    /\ At(t, "numbers")
    /\ Goes(t, "version", numbers, NextNumber(numbers))
    /\ UNCHANGED <<disk, counters, mixed, torn>>

WriteVersion(t) ==
    LET th == thread[t] IN
    /\ At(t, "version")
    /\ versions' = [versions EXCEPT ![th.w] = [@ EXCEPT ![th.n] = th.new.def]]
    /\ Goes(t, "index", th.ids, th.n)
    /\ UNCHANGED <<stored, listed, index, schedules, executions, counters, mixed, torn>>

SaveNumbers(t) ==
    LET th == thread[t] IN
    /\ At(t, "index")
    /\ index' = [index EXCEPT ![th.w] = th.ids \cup {th.n}]
    /\ Goes(t, "schedules", {}, 0)
    /\ UNCHANGED <<stored, listed, versions, schedules, executions, counters, mixed, torn>>

\* _sync_workflow_schedules: trigger nodes that have a schedule keep it, one of them if
\* there are several; the others get one, and schedules of nodes that are no more are
\* deleted.
Nodes(some) == {s.node : s \in some}
OneOfEach(old) ==
    {kept \in SUBSET old : /\ Nodes(kept) = Nodes(old)
                           /\ \A r, s \in kept : r.node = s.node => r = s}
ListSchedules(t) ==
    LET w == thread[t].w
        nodes == thread[t].new.def IN
    /\ At(t, "schedules")
    /\ \E kept \in OneOfEach({s \in schedules : s.w = w}) :
          LET new == {[id |-> made, w |-> w, node |-> n] : n \in nodes \ Nodes(kept)} IN
          /\ made' = IF new = {} THEN made ELSE made + 1
          /\ Scheduling(t, {s \in kept : s.node \in nodes} \cup new, {s \in kept : s.node \notin nodes})
    /\ torn' = torn \ {w}
    /\ UNCHANGED <<disk, used, requests, crashes, mixed>>

\* One after the other, those that are saved first.
SaveSchedule(t) ==
    LET th == thread[t]
        s == CHOOSE x \in th.save : TRUE
        d == CHOOSE x \in th.drop : TRUE IN
    /\ At(t, "schedule")
    /\ IF th.save # {} THEN schedules' = schedules \cup {s} /\ Scheduling(t, th.save \ {s}, th.drop)
       ELSE schedules' = schedules \ {d} /\ Scheduling(t, {}, th.drop \ {d})
    /\ UNCHANGED <<stored, listed, versions, index, executions, counters, mixed, torn>>

\* get_latest_version_number and load_version.
FindVersion(t) ==
    /\ At(t, "latest")
    /\ Goes(t, "run", {}, LatestNumber(index[thread[t].w]))
    /\ UNCHANGED <<disk, counters, mixed, torn>>

\* The engine runs the definition; the execution is saved again with its version.
Run(t) ==
    LET th == thread[t] IN
    /\ At(t, "run")
    /\ executions' = executions \cup
          {[w |-> th.w, ran |-> th.new.def, linked |-> th.n, torn |-> th.w \in torn]}
    /\ Goes(t, "end", {}, 0)
    /\ UNCHANGED <<stored, listed, versions, index, schedules, counters, mixed, torn>>

Crash ==
    /\ crashes < MaxCrashes /\ crashes' = crashes + 1
    /\ torn' = torn \cup ({thread[t].w : t \in Thread} \ {None})
    /\ thread' = [t \in Thread |-> Idle]
    /\ UNCHANGED <<disk, used, made, requests, mixed>>

Init ==
    /\ stored = [w \in Workflow |-> None] /\ listed = {}
    /\ versions = [w \in Workflow |-> [n \in Number |-> None]]
    /\ index = [w \in Workflow |-> {}]
    /\ schedules = {} /\ executions = {}
    /\ thread = [t \in Thread |-> Idle]
    /\ used = {} /\ made = 0 /\ requests = 0 /\ crashes = 0 /\ mixed = {} /\ torn = {}

Next ==
    \/ Crash
    \/ \E t \in Thread :
        \/ Create(t) \/ Update(t) \/ Delete(t) \/ BeginExecute(t) \/ Answer(t)
        \/ WriteWorkflow(t) \/ LoadIds(t) \/ SaveIds(t)
        \/ LoadNumbers(t) \/ WriteVersion(t) \/ SaveNumbers(t)
        \/ ListSchedules(t) \/ SaveSchedule(t) \/ FindVersion(t) \/ Run(t)

Spec == Init /\ [][Next]_vars

-----------------------------------------------------------------------------
(* Properties                                                               *)

Quiet(w) == \A t \in Thread : thread[t].w # w

\* The version an execution is linked to is the definition it ran, unless another
\* request overlapped, or an update died and none has followed.
RunsWhatItNames ==
    \A e \in executions : e.w \notin mixed /\ ~e.torn =>
        e.linked # 0 /\ versions[e.w][e.linked] = e.ran

\* The schedules of a workflow are one for each of its trigger nodes: what an update
\* that died has left out, the next one makes up for; unless requests overlapped.
OneScheduleEach ==
    \A w \in Workflow \ (mixed \cup torn) : stored[w] # None /\ Quiet(w) =>
        /\ {s.node : s \in {x \in schedules : x.w = w}} = stored[w].def
        /\ \A r, s \in schedules : r.w = w /\ s.w = w /\ r.node = s.node => r = s
=============================================================================
