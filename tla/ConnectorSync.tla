---------------------------- MODULE ConnectorSync ----------------------------
(***************************************************************************)
(* Incremental connector sync: SyncRunner.sync_connector                    *)
(* (connectors/sync_runner.py) over the sync-state files (sync_state.py),  *)
(* the bridge that turns fetched items into data sources                    *)
(* (evidence_bridge.py) and the data-source files of one workspace         *)
(* (data_sources/store.py).                                                 *)
(*                                                                         *)
(* A sync runs in the thread of the request that asked for it, so two of    *)
(* them may interleave at every file they read or write, and the process    *)
(* may die between any two.                                                *)
(***************************************************************************)
EXTENDS Integers, Sequences, FiniteSetsExt

CONSTANTS
    Conn,        \* connectors of the workspace
    Item,        \* external ids, numbers in the order they are listed
    Text,        \* contents an item may have, numbers
    Runner,      \* threads that may run a sync
    MaxSyncs,    \* bound: syncs started
    MaxChanges,  \* bound: changes at the remote side
    MaxFaults    \* bound: kinds of things that go wrong

Empty == 0    \* the content of an item whose fetch failed
Gone == -1    \* an item that is not there, or not listed

ASSUME SyncAssumption ==
    /\ Item \subseteq Nat /\ Text \subseteq Nat \ {Empty}
    /\ MaxSyncs \in Nat /\ MaxChanges \in Nat /\ MaxFaults \in Nat

VARIABLES
    remote,   \* the content of each item at the remote side
    state,    \* the sync-state file of each connector
    sources,  \* the data sources of the workspace, in index order
    run,      \* what each runner is doing
    synced,   \* history: the items as the last finished sync saw them
    faults,   \* history: what has gone wrong so far
    syncs, changes   \* how much of the bounds is used up

vars == <<remote, state, sources, run, synced, faults, syncs, changes>>

\* A step that fails, or an end of the process, or an item that is gone and
\* appears again.
Fault == {"list", "fetch", "state", "save", "delete", "index", "archive", "crash", "return"}

bounds == <<syncs, changes>>
NoFault == UNCHANGED faults
Fails(kind) ==
    /\ faults' = faults \cup {kind}
    /\ Cardinality(faults') <= MaxFaults

NoEntry == [hash |-> Gone, status |-> "none"]
Idle == [pc |-> "idle"]
Nothing == [i \in Item |-> Gone]

Init ==
    /\ remote \in [Conn -> [Item -> Text \cup {Gone}]]
    /\ state = [c \in Conn |-> [i \in Item |-> NoEntry]]
    /\ sources = <<>>
    /\ run = [r \in Runner |-> Idle]
    /\ synced = [c \in Conn |-> Nothing]
    /\ faults = {}
    /\ syncs = 0 /\ changes = 0

At(r, pc) == run[r].pc = pc
Listed(got) == {i \in Item : got[i] # Gone}
ConnOf(r) == run[r].conn

-----------------------------------------------------------------------------
(* Listing and fetching                                                    *)

\* A request, or a due schedule, starts a sync: the previous state is loaded.
StartSync(r, c) ==
    /\ At(r, "idle") /\ syncs < MaxSyncs
    /\ run' = [run EXCEPT ![r] = [pc |-> "fetch", conn |-> c, prev |-> state[c]]]
    /\ syncs' = syncs + 1
    /\ UNCHANGED <<remote, state, sources, synced, faults, changes>>

\* Items known from an earlier sync, not listed now, not yet marked deleted.
Vanished(prev, got) ==
    {i \in Item : /\ got[i] = Gone
                  /\ prev[i] # NoEntry /\ prev[i].status # "deleted_remote"}

\* The status of an item that was listed, by its hash at the last sync.
Compared(prev, hash) ==
    IF prev = NoEntry THEN "new"
    ELSE IF prev.hash # hash THEN "changed" ELSE "unchanged"

\* Mutant of AnyNews: items that changed are no news.
OnlyNewItems(prev, got) == \E i \in Listed(got) : prev[i] = NoEntry

\* Whether anything listed is new or changed.
AnyNews(prev, got) ==
    \E i \in Listed(got) : Compared(prev[i], got[i]) # "unchanged"

\* runtime_sync: a listing that fails is an empty listing, an item that
\* cannot be fetched is an item with empty content.
Gets(c, got) ==
    \/ got = remote[c] /\ NoFault
    \/ got = Nothing /\ Fails("list")
    \/ /\ \E E \in SUBSET Listed(remote[c]) \ {{}} :
            got = [i \in Item |-> IF i \in E THEN Empty ELSE remote[c][i]]
       /\ Fails("fetch")

FetchAll(r) ==
    /\ At(r, "fetch")
    /\ \E got \in [Item -> Text \cup {Gone, Empty}] :
         /\ Gets(ConnOf(r), got)
         /\ run' = [run EXCEPT ![r] =
                   [pc |-> "mark", conn |-> ConnOf(r), prev |-> @.prev, got |-> got,
                    todo |-> Listed(got) \cup Vanished(@.prev, got),
                    held |-> NoEntry, parsed |-> {}]]
    /\ UNCHANGED <<remote, state, sources, synced, bounds>>

-----------------------------------------------------------------------------
(* Marking what was seen, and what was not, in the sync-state file          *)

\* The loops go through their items in the order they are listed, and only then
\* through those that are not.
First(todo, got) ==
    Min(IF todo \cap Listed(got) # {} THEN todo \cap Listed(got) ELSE todo)
Current(r) == First(run[r].todo, run[r].got)
Busy(r, pc) == At(r, pc) /\ run[r].todo # {}

\* The runner goes on with its sync, ...
GoTo(r, pc, todo, held, parsed) ==
    [run EXCEPT ![r] = [pc |-> pc, conn |-> @.conn, prev |-> @.prev, got |-> @.got,
                        todo |-> todo, held |-> held, parsed |-> parsed]]

\* ... or with the next item of the loop.
Onwards(r, pc, parsed) == GoTo(r, pc, run[r].todo \ {Current(r)}, NoEntry, parsed)

\* mark_seen and mark_deleted_remote load the state file ...
LoadState(r) ==
    /\ Busy(r, "mark")
    /\ run' = GoTo(r, "write", run[r].todo, state[ConnOf(r)], run[r].parsed)
    /\ UNCHANGED <<remote, state, sources, synced, faults, bounds>>

\* ... and save it with one entry written.
SaveState(r) ==
    /\ At(r, "write")
    /\ LET i == Current(r)
           hash == run[r].got[i]
           file == run[r].held
       IN state' = [state EXCEPT ![ConnOf(r)] =
            IF hash # Gone
              THEN [file EXCEPT ![i] = [hash |-> hash,
                                        status |-> Compared(run[r].prev[i], hash)]]
              ELSE IF file[i] = NoEntry THEN @
                   ELSE [file EXCEPT ![i] = [hash |-> file[i].hash,
                                            status |-> "deleted_remote"]]]
    /\ run' = Onwards(r, "mark", run[r].parsed)
    /\ UNCHANGED <<remote, sources, synced, faults, bounds>>

\* All is marked.  The bridge is called only if something is new or changed.
CallBridge(r) ==
    /\ At(r, "mark") /\ run[r].todo = {}
    /\ run' = GoTo(r, "bridge",
                 IF AnyNews(run[r].prev, run[r].got) THEN Listed(run[r].got) ELSE {},
                 NoEntry, {})
    /\ UNCHANGED <<remote, state, sources, synced, faults, bounds>>

\* An exception before the bridge is called, from the configuration, the sync
\* state, the job or the schedule, ends the sync; what is marked stays marked.
SyncFails(r) ==
    /\ At(r, "fetch") \/ At(r, "mark") \/ At(r, "write")
    /\ Fails("state")
    /\ run' = [run EXCEPT ![r] = Idle]
    /\ UNCHANGED <<remote, state, sources, synced, bounds>>

-----------------------------------------------------------------------------
(* The bridge: persist_connector_content                                   *)

\* Mutant of Found: archived sources are not looked at.
FoundUnarchived(c, i) ==
    LET mine == {k \in DOMAIN sources :
                   /\ sources[k].conn = c /\ sources[k].item = i
                   /\ sources[k].status # "archived"}
    IN IF mine = {} THEN 0 ELSE Min(mine)

\* _find_existing_datasource: the first source of the item, or 0.
Found(c, i) ==
    LET mine == {k \in DOMAIN sources : sources[k].conn = c /\ sources[k].item = i}
    IN IF mine = {} THEN 0 ELSE Min(mine)

\* The item has no content, or the source found has it already.
SkipItem(r) ==
    /\ Busy(r, "bridge")
    /\ LET k == Found(ConnOf(r), Current(r))
           hash == run[r].got[Current(r)]
       IN hash = Empty \/ (k # 0 /\ sources[k].hash = hash)
    /\ run' = Onwards(r, "bridge", run[r].parsed)
    /\ UNCHANGED <<remote, state, sources, synced, faults, bounds>>

\* Mutant of FindSource: the old chunks are left.
FindKeepsChunks(r) ==
    /\ Busy(r, "bridge")
    /\ run[r].got[Current(r)] # Empty
    /\ LET k == Found(ConnOf(r), Current(r))
       IN /\ k # 0 => sources[k].hash # run[r].got[Current(r)]
          /\ run' = GoTo(r, "save", run[r].todo, k, run[r].parsed)
    /\ UNCHANGED <<remote, state, sources, synced, faults, bounds>>

\* No source is found, or one with other content, whose chunks are deleted; a
\* deletion that fails is only logged.
FindSource(r) ==
    /\ Busy(r, "bridge")
    /\ run[r].got[Current(r)] # Empty
    /\ LET k == Found(ConnOf(r), Current(r))
       IN /\ k # 0 => sources[k].hash # run[r].got[Current(r)]
          /\ run' = GoTo(r, "save", run[r].todo, k, run[r].parsed)
          /\ \/ /\ sources' = IF k = 0 THEN sources
                              ELSE [sources EXCEPT ![k] = [@ EXCEPT !.chunks = {}]]
                /\ NoFault
             \/ k # 0 /\ Fails("delete") /\ UNCHANGED sources
    /\ UNCHANGED <<remote, state, synced, bounds>>

\* A new source is added at the end of the index, ...
AddSource(r) ==
    /\ At(r, "save") /\ run[r].held = 0
    /\ sources' = Append(sources, [conn |-> ConnOf(r), item |-> Current(r),
                                   hash |-> run[r].got[Current(r)],
                                   status |-> "parsed", chunks |-> {},
                                   indexed |-> {}])
    /\ run' = GoTo(r, "chunks", run[r].todo, Len(sources) + 1, run[r].parsed)
    /\ UNCHANGED <<remote, state, synced, faults, bounds>>

\* ... or the one found gets the new hash.
SaveSource(r) ==
    /\ At(r, "save") /\ run[r].held # 0
    /\ sources' = [sources EXCEPT ![run[r].held] =
                    [conn |-> @.conn, item |-> @.item, hash |-> run[r].got[Current(r)],
                     status |-> "parsed", chunks |-> @.chunks, indexed |-> @.indexed]]
    /\ run' = GoTo(r, "chunks", run[r].todo, run[r].held, run[r].parsed)
    /\ UNCHANGED <<remote, state, synced, faults, bounds>>

\* The chunks parsed from the content are saved, a failure to do so is logged.
SaveChunks(r) ==
    /\ At(r, "chunks")
    /\ LET k == run[r].held
           text == run[r].got[Current(r)]
       IN \/ sources' = [sources EXCEPT ![k] = [@ EXCEPT !.chunks = sources[k].chunks \cup {text}]] /\ NoFault
          \/ Fails("save") /\ UNCHANGED sources
    /\ run' = Onwards(r, "bridge", run[r].parsed \cup {run[r].held})
    /\ UNCHANGED <<remote, state, synced, bounds>>

\* An exception leaves an item out; the bridge goes on with the next one.
ItemFails(r) ==
    /\ At(r, "save") \/ Busy(r, "bridge")
    /\ Fails("save")
    /\ run' = Onwards(r, "bridge", run[r].parsed)
    /\ UNCHANGED <<remote, state, sources, synced, bounds>>

\* All chunks parsed are added to the vector index at the end, under ids made
\* from their source and text.
IndexChunks(r) ==
    /\ At(r, "bridge") /\ run[r].todo = {}
    /\ \/ /\ sources' = [k \in DOMAIN sources |->
                   IF k \in run[r].parsed
                     THEN [sources[k] EXCEPT !.indexed = sources[k].indexed
                             \cup {run[r].got[sources[k].item]}]
                     ELSE sources[k]]
          /\ NoFault
       \/ run[r].parsed # {} /\ Fails("index") /\ UNCHANGED sources
    /\ run' = GoTo(r, "indexed", {}, NoEntry, run[r].parsed)
    /\ UNCHANGED <<remote, state, synced, bounds>>

-----------------------------------------------------------------------------
(* Archiving what is gone                                                  *)

\* Mutant of Reconcile: nothing is archived unless something was imported.
ReconcileOnNews(r) ==
    /\ At(r, "indexed")
    /\ run' = GoTo(r, "archive",
                 IF AnyNews(run[r].prev, run[r].got)
                   THEN Vanished(run[r].prev, run[r].got) ELSE {}, NoEntry, run[r].parsed)
    /\ UNCHANGED <<remote, state, sources, synced, faults, bounds>>

\* The sources of the items that vanished are to be archived.
Reconcile(r) ==
    /\ At(r, "indexed")
    /\ run' = GoTo(r, "archive", Vanished(run[r].prev, run[r].got), NoEntry, run[r].parsed)
    /\ UNCHANGED <<remote, state, sources, synced, faults, bounds>>

\* find_by_metadata: the first source with the external id, or 0.
FoundById(i) ==
    LET same == {k \in DOMAIN sources : sources[k].item = i}
    IN IF same = {} THEN 0 ELSE Min(same)

\* The source of an item that vanished is archived.
Archive(r) ==
    /\ Busy(r, "archive")
    /\ LET k == FoundById(Current(r))
       IN sources' = IF k = 0 THEN sources
                     ELSE [sources EXCEPT ![k] = [@ EXCEPT !.status = "archived"]]
    /\ run' = Onwards(r, "archive", run[r].parsed)
    /\ UNCHANGED <<remote, state, synced, faults, bounds>>

\* A source that cannot be found or saved leaves it and all that are still to come as
\* they are; this is only logged, and the sync goes on to its end.
ArchiveFails(r) ==
    /\ Busy(r, "archive")
    /\ Fails("archive")
    /\ run' = GoTo(r, "archive", {}, NoEntry, run[r].parsed)
    /\ UNCHANGED <<remote, state, sources, synced, bounds>>

FinishSync(r) ==
    /\ At(r, "archive") /\ run[r].todo = {}
    /\ synced' = [synced EXCEPT ![ConnOf(r)] = run[r].got]
    /\ run' = [run EXCEPT ![r] = Idle]
    /\ UNCHANGED <<remote, state, sources, faults, bounds>>

-----------------------------------------------------------------------------
(* The remote side, and the end of the process                             *)

Change(c, i, text) ==
    /\ changes < MaxChanges
    /\ remote[c][i] # text
    /\ IF remote[c][i] = Gone /\ state[c][i] # NoEntry THEN Fails("return") ELSE NoFault
    /\ remote' = [remote EXCEPT ![c][i] = text]
    /\ changes' = changes + 1
    /\ UNCHANGED <<state, sources, run, synced, syncs>>

Crash ==
    /\ \E r \in Runner : ~At(r, "idle")
    /\ Fails("crash")
    /\ run' = [r \in Runner |-> Idle]
    /\ UNCHANGED <<remote, state, sources, synced, bounds>>

Syncs(r) ==
    \/ FetchAll(r) \/ LoadState(r) \/ SaveState(r) \/ SyncFails(r) \/ CallBridge(r)
    \/ SkipItem(r) \/ FindSource(r) \/ AddSource(r) \/ SaveSource(r)
    \/ SaveChunks(r) \/ ItemFails(r) \/ IndexChunks(r) \/ Reconcile(r) \/ Archive(r)
    \/ ArchiveFails(r) \/ FinishSync(r)

Next ==
    \/ \E r \in Runner : Syncs(r) \/ \E c \in Conn : StartSync(r, c)
    \/ \E c \in Conn, i \in Item, text \in Text \cup {Gone} : Change(c, i, text)
    \/ Crash

Spec == Init /\ [][Next]_vars
-----------------------------------------------------------------------------
(* Properties                                                              *)

\* Nobody syncs connector c.
Quiet(c) == \A r \in Runner : At(r, "idle") \/ ConnOf(r) # c

\* Content t of item i of connector c can be found in evidence.
InEvidence(c, i, t) ==
    \E k \in DOMAIN sources :
        /\ sources[k].conn = c /\ sources[k].item = i /\ sources[k].hash = t
        /\ t \in sources[k].chunks /\ t \in sources[k].indexed

\* Nothing of these kinds has gone wrong.
Spared(kinds) == faults \cap kinds = {}

\* "Only imports new or changed items. Unchanged items are skipped" of
\* run_sync: between syncs, what the last finished sync listed is in evidence,
\* unless the process died, the sync ended with an exception or something could
\* not be saved: the item counts as seen by then.
SyncedIsHeld ==
    Spared({"state", "save", "index", "crash"}) =>
        \A c \in Conn : Quiet(c) =>
            \A i \in Listed(synced[c]) :
                synced[c][i] = Empty \/ InEvidence(c, i, synced[c][i])

\* "Mark associated DataSources as archived" of sync_connector, between syncs: a
\* source is archived only if its item counts as deleted, whatever fails and
\* wherever the process dies, unless a listing failed or an item came back; and
\* the sources of all items that count as deleted are archived, unless archiving
\* failed or a sync ended between the mark and the archiving.  An item is
\* marked once, so that no later sync makes up for it.
ArchivedIsDeleted ==
    \A k \in DOMAIN sources :
        LET archived == sources[k].status = "archived"
            deleted == state[sources[k].conn][sources[k].item].status = "deleted_remote"
        IN Quiet(sources[k].conn) =>
             /\ Spared({"list", "return"}) => (archived => deleted)
             /\ Spared({"state", "archive", "crash"}) => (deleted => archived)

\* "Skip to avoid duplicate DataSource records" of persist_connector_content:
\* an item has one data source, whatever failed or died before, and the sync
\* state knows the item (mark_seen before the bridge), so that its deletion can
\* be noticed.
OneSource ==
    \A j, k \in DOMAIN sources :
        /\ state[sources[j].conn][sources[j].item] # NoEntry
        /\ (sources[j].conn = sources[k].conn /\ sources[j].item = sources[k].item)
             => j = k

\* Chunks are never those of a content the source no longer has, even when a
\* sync dies between the source and its chunks, unless they could not be deleted
\* (evidence_bridge.py).
ChunksAreCurrent ==
    Spared({"delete"}) =>
        \A k \in DOMAIN sources : sources[k].chunks \subseteq {sources[k].hash}
=============================================================================
