---------------------------- MODULE BatchImport ----------------------------
(***************************************************************************)
(* Batched connector imports: run_import_v3, resume_job, request_cancel_job *)
(* and pause_job of connectors/import_jobs.py over BatchProcessor          *)
(* (connectors/batch_processor.py), the job file (store.py), the duplicate *)
(* store (dedup.py), the rate limiter and the evidence bridge.             *)
(*                                                                         *)
(* The routes are synchronous functions, so every request runs on a thread *)
(* of its own.  A thread works on its own copy of the job record; the file *)
(* holds the copy saved last, whichever thread saved it.  The processor,   *)
(* and with it batch_size, is one object shared by all of them.            *)
(*                                                                         *)
(* The connector lists the items 1..N, always in this order.  One action   *)
(* runs from one read or write of shared state to the next; an item is     *)
(* fetched, retries included, in one.  The counters of imported, skipped   *)
(* and changed items, timestamps, audit records and metrics are left out.  *)
(***************************************************************************)
EXTENDS Naturals, FiniteSets

CONSTANTS
    Thread,        \* threads serving requests
    Job,           \* identifiers run_import_v3 can draw
    N,             \* number of items the connector lists
    DefaultSize,   \* batch_size of a new processor
    Sizes,         \* batch sizes callers pass to run_import_v3
    Wanted,        \* the item sets callers ask for, 1..N being item_ids = None
    Nested,        \* items identified by a path below a folder
    MayFail,       \* whether listing, fetching and the bridge can fail
    MaxCalls,      \* bound: requests to import, cancel, pause or resume
    MaxLimits,     \* bound: answers that start a rate-limit window
    MaxCrashes     \* bound: process restarts

ASSUME ImportAssumption ==
    /\ N \in Nat
    /\ DefaultSize \in Nat \ {0}
    /\ Sizes \subseteq Nat \ {0}
    /\ Wanted \subseteq SUBSET (1..N)

VARIABLES
    disk,     \* the job files
    thread,   \* what each thread is doing, its copy of the job included
    size,     \* processor.batch_size
    limited,  \* the connector is inside a rate-limit window
    hashes,   \* items the duplicate store knows the content of
    evidence, \* items stored as evidence
    dropped,  \* history: content a restart, a failing bridge or version record took
    asked,    \* history: the items the import of a job was asked for
    tried,    \* history: the items of a job some thread has come to
    calls, limits, crashes   \* how much of the bounds is used up

vars == <<disk, thread, size, limited, hashes, evidence, dropped, asked, tried,
          calls, limits, crashes>>

kept == <<evidence, dropped>>
history == <<asked, tried>>
bounds == <<calls, limits, crashes>>

Item == 1..N
NoFile == [status |-> "none"]
NoCopy == [status |-> "new", cancel |-> FALSE, processed |-> 0, failed |-> 0,
           at |-> [processed |-> 0, batch |-> 0]]

Idle == [pc |-> "idle"]

-----------------------------------------------------------------------------
(* The list a job works on, cut into batches.                              *)

\* How many batches of the given size the items take: at least one.
Batches(items, sz) ==
    LET n == (Cardinality(items) + sz - 1) \div sz IN IF n = 0 THEN 1 ELSE n

Rank(items, i) == Cardinality({k \in items : k <= i})

\* items[start : start + sz], positions counted from 0.
Slice(items, start, sz) ==
    {i \in items : start < Rank(items, i) /\ Rank(items, i) <= start + sz}

\* start_idx of the batch the thread comes to, with batch_size as it is now.
Start(t) == (thread[t].batch - 1) * size

-----------------------------------------------------------------------------
Init ==
    /\ disk = [j \in Job |-> NoFile]
    /\ thread = [t \in Thread |-> Idle]
    /\ size = DefaultSize
    /\ limited = FALSE
    /\ hashes = {}
    /\ evidence = {} /\ dropped = {}
    /\ asked = [j \in Job |-> {}]
    /\ tried = [j \in Job |-> {}]
    /\ calls = 0 /\ limits = 0 /\ crashes = 0

Save(j, copy) == disk' = [disk EXCEPT ![j] = copy]

Goto(t, state) == thread' = [thread EXCEPT ![t] = state]

\* The thread of a request, as it starts.
Serving(leg, j, items, sz, copy) ==
    [pc |-> "listing", leg |-> leg, job |-> j, items |-> items, ask |-> sz,
     copy |-> copy, offset |-> 0, last |-> 0, batch |-> 0, todo |-> {},
     count |-> 0, bad |-> 0, collected |-> {}]

\* run_import_v3 up to list_items: the job is saved as "queued".
Import(t, j, items, sz) ==
    /\ calls < MaxCalls
    /\ thread[t] = Idle
    /\ disk[j] = NoFile
    /\ Save(j, [NoCopy EXCEPT !.status = "queued"])
    /\ Goto(t, Serving("import", j, items, sz,
                       [NoCopy EXCEPT !.status = "queued"]))
    /\ asked' = [asked EXCEPT ![j] = items]
    /\ calls' = calls + 1
    /\ UNCHANGED <<size, limited, hashes, kept, tried, limits, crashes>>

\* list_items raises: the job fails.
ListFails(t) ==
    /\ thread[t].pc = "listing"
    /\ MayFail
    /\ Save(thread[t].job, [thread[t].copy EXCEPT !.status = "failed"])
    /\ Goto(t, Idle)
    /\ UNCHANGED <<size, limited, hashes, kept, history, bounds>>

\* Nothing to import: the job is complete at once.
ListEmpty(t) ==
    /\ thread[t].pc = "listing"
    /\ thread[t].items = {}
    /\ Save(thread[t].job, [thread[t].copy EXCEPT !.status = "completed"])
    /\ Goto(t, Idle)
    /\ UNCHANGED <<size, limited, hashes, kept, history, bounds>>

\* The request's batch size is set on the shared processor.
List(t) ==
    /\ thread[t].pc = "listing"
    /\ thread[t].items # {}
    /\ size' = thread[t].ask
    /\ Goto(t, [thread[t] EXCEPT !.pc = "ready"])
    /\ UNCHANGED <<disk, limited, hashes, kept, history, bounds>>

\* resume_job up to process_items: the saved record is taken over; neither
\* the item_ids nor the batch_size of the import are asked for again.
Resume(t, j) ==
    /\ calls < MaxCalls
    /\ thread[t] = Idle
    /\ disk[j].status \in {"failed", "paused", "cancelled"}
    /\ Goto(t, [Serving("resume", j, Item, 0,
                        [disk[j] EXCEPT !.status = "running",
                                        !.cancel = FALSE])
                EXCEPT !.pc = "ready"])
    /\ calls' = calls + 1
    /\ UNCHANGED <<disk, size, limited, hashes, kept, history, limits,
                   crashes>>

-----------------------------------------------------------------------------
(* process_items                                                           *)

\* The counters start again, the job is saved, the number of batches fixed.
Begin(t) ==
    /\ thread[t].pc = "ready"
    /\ LET at == thread[t].copy.at
           fresh == [thread[t].copy EXCEPT !.status = "running",
                                           !.processed = 0, !.failed = 0]
       IN /\ Save(thread[t].job, fresh)
          /\ Goto(t, [thread[t] EXCEPT
                        !.pc = "loop", !.batch = 1,
                        !.copy = [fresh EXCEPT !.processed = at.processed],
                        !.offset = at.processed,
                        !.last = Batches(thread[t].items, size)])
    /\ UNCHANGED <<size, limited, hashes, kept, history, bounds>>

\* The loop is over: cancelled, no batch left, or an empty batch.
LoopEnds(t) ==
    LET h == thread[t]
    IN (~h.copy.cancel /\ h.batch <= h.last)
          => (Start(t) >= h.offset /\ Slice(h.items, Start(t), size) = {})

\* Mutant of SkipBatch: a batch that starts at the checkpoint is passed over.
SkipBatchAtIt(t) ==
    /\ thread[t].pc = "loop"
    /\ ~LoopEnds(t)
    /\ Start(t) <= thread[t].offset
    /\ Goto(t, [thread[t] EXCEPT !.batch = @ + 1])
    /\ UNCHANGED <<disk, size, limited, hashes, kept, history, bounds>>

\* A batch that starts before the checkpoint is passed over.
SkipBatch(t) ==
    /\ thread[t].pc = "loop"
    /\ ~LoopEnds(t)
    /\ Start(t) < thread[t].offset
    /\ Goto(t, [thread[t] EXCEPT !.batch = @ + 1])
    /\ UNCHANGED <<disk, size, limited, hashes, kept, history, bounds>>

EnterBatch(t) ==
    /\ thread[t].pc = "loop"
    /\ ~LoopEnds(t)
    /\ Start(t) >= thread[t].offset
    /\ Goto(t, [thread[t] EXCEPT
                  !.pc = "batch", !.count = 0, !.bad = 0,
                  !.todo = Slice(thread[t].items, Start(t), size)])
    /\ UNCHANGED <<disk, size, limited, hashes, kept, history, bounds>>

\* The thread comes to the next item of its batch.
Comes(t, i) ==
    /\ thread[t].pc = "batch"
    /\ i \in thread[t].todo /\ \A k \in thread[t].todo : i <= k
    /\ tried' = [tried EXCEPT ![thread[t].job] = @ \cup {i}]
    /\ UNCHANGED asked

\* Mutant of HoldOff: the item is kept until the window ends.
HoldOffWaits(t) ==
    /\ limited
    /\ thread[t].pc = "batch" /\ thread[t].todo # {}
    /\ UNCHANGED vars

\* Inside a rate-limit window the item is not fetched, nor counted.
HoldOff(t) ==
    /\ limited
    /\ \E i \in Item :
        /\ Comes(t, i)
        /\ Goto(t, [thread[t] EXCEPT !.todo = @ \ {i}])
    /\ UNCHANGED <<disk, size, limited, hashes, kept, bounds>>

\* Content comes back.  An import records new content in the duplicate store
\* and keeps it for the evidence bridge; a resumed job does neither.
FetchContent(t) ==
    /\ ~limited
    /\ \E i \in Item :
        LET new == {i} \ hashes IN
        /\ Comes(t, i)
        /\ thread[t].leg = "import" => new \cap Nested = {}
        /\ IF thread[t].leg = "import"
             THEN /\ hashes' = hashes \cup new
                  /\ Goto(t, [thread[t] EXCEPT
                                !.todo = @ \ {i}, !.count = @ + 1,
                                !.collected = @ \cup new])
             ELSE /\ Goto(t, [thread[t] EXCEPT
                                !.todo = @ \ {i}, !.count = @ + 1])
                  /\ UNCHANGED hashes
    /\ UNCHANGED <<disk, size, limited, kept, bounds>>

\* The fetch raises once its retries are used up.  An answer that names the
\* rate limit opens a window.
FetchFails(t, is429) ==
    /\ ~limited
    /\ MayFail
    /\ is429 => limits < MaxLimits
    /\ \E i \in Item :
        /\ Comes(t, i)
        /\ Goto(t, [thread[t] EXCEPT !.todo = @ \ {i}, !.count = @ + 1,
                                     !.bad = @ + 1])
    /\ limited' = is429
    /\ limits' = IF is429 THEN limits + 1 ELSE limits
    /\ UNCHANGED <<disk, size, hashes, kept, calls, crashes>>

\* New content is recorded in the duplicate store, then its version cannot be: the folder
\* an identifier with a path names is never made.  The item fails, and is unchanged ever
\* after.
VersionFails(t) ==
    /\ ~limited
    /\ thread[t].pc = "batch" /\ thread[t].leg = "import"
    /\ \E i \in (Item \cap Nested) \ hashes :
        /\ Comes(t, i)
        /\ hashes' = hashes \cup {i}
        /\ dropped' = dropped \cup {i}
        /\ Goto(t, [thread[t] EXCEPT !.todo = @ \ {i}, !.count = @ + 1,
                                     !.bad = @ + 1])
    /\ UNCHANGED <<disk, size, limited, evidence, bounds>>

\* Mutant of EndBatch: the checkpoint counts the batch that comes next.
EndBatchAhead(t) ==
    /\ thread[t].pc = "batch"
    /\ thread[t].todo = {}
    /\ LET h == thread[t]
           done == h.copy.processed + h.count
           copy == [h.copy EXCEPT !.processed = done,
                                  !.failed = @ + h.bad,
                                  !.at = [processed |-> done + size,
                                          batch |-> h.batch]]
       IN /\ Save(h.job, copy)
          /\ Goto(t, [h EXCEPT !.pc = "loop", !.copy = copy,
                               !.batch = @ + 1])
    /\ UNCHANGED <<size, limited, hashes, kept, history, bounds>>

\* Totals and checkpoint are brought up to date and the job is saved.
EndBatch(t) ==
    /\ thread[t].pc = "batch"
    /\ thread[t].todo = {}
    /\ LET h == thread[t]
           done == h.copy.processed + h.count
           copy == [h.copy EXCEPT !.processed = done,
                                  !.failed = @ + h.bad,
                                  !.at = [processed |-> done,
                                          batch |-> h.batch]]
       IN /\ Save(h.job, copy)
          /\ Goto(t, [h EXCEPT !.pc = "loop", !.copy = copy,
                               !.batch = @ + 1])
    /\ UNCHANGED <<size, limited, hashes, kept, history, bounds>>

Verdict(h) ==
    IF h.copy.cancel /\ h.batch <= h.last THEN "cancelled"
    ELSE IF h.copy.failed > 0 THEN "completed_with_warnings"
    ELSE "completed"

\* The job is finalised and saved.  An import that collected content goes on
\* to the evidence bridge.
Finish(t) ==
    /\ thread[t].pc = "loop"
    /\ LoopEnds(t)
    /\ LET h == thread[t] IN
        /\ Save(h.job, [h.copy EXCEPT !.status = Verdict(h)])
        /\ Goto(t, IF h.collected = {} THEN Idle
                   ELSE [h EXCEPT !.pc = "bridge"])
    /\ UNCHANGED <<size, limited, hashes, kept, history, bounds>>

\* Mutant of Bridge: the content of a job paused meanwhile is dropped.
BridgeIfRunning(t) ==
    /\ thread[t].pc = "bridge"
    /\ evidence' = IF disk[thread[t].job].status = "paused" THEN evidence
                   ELSE evidence \cup thread[t].collected
    /\ Goto(t, Idle)
    /\ UNCHANGED <<dropped, disk, size, limited, hashes, history, bounds>>

\* persist_connector_content, its failure swallowed.
Bridge(t) ==
    /\ thread[t].pc = "bridge"
    /\ \/ /\ evidence' = evidence \cup thread[t].collected
          /\ UNCHANGED dropped
       \/ /\ MayFail
          /\ dropped' = dropped \cup thread[t].collected
          /\ UNCHANGED evidence
    /\ Goto(t, Idle)
    /\ UNCHANGED <<disk, size, limited, hashes, history, bounds>>

-----------------------------------------------------------------------------
(* request_cancel_job and pause_job read the file, then write it back.     *)

Asks(leg) == IF leg = "cancel" THEN {"running", "queued"} ELSE {"running"}

Read(t, leg, j) ==
    /\ calls < MaxCalls
    /\ thread[t] = Idle
    /\ disk[j].status \in Asks(leg)
    /\ Goto(t, [Serving(leg, j, {}, 0, disk[j]) EXCEPT !.pc = "asked"])
    /\ calls' = calls + 1
    /\ UNCHANGED <<disk, size, limited, hashes, kept, history, limits,
                   crashes>>

WriteBack(t) ==
    /\ thread[t].pc = "asked"
    /\ Save(thread[t].job,
            IF thread[t].leg = "cancel"
              THEN [thread[t].copy EXCEPT !.cancel = TRUE]
              ELSE [thread[t].copy EXCEPT !.status = "paused"])
    /\ Goto(t, Idle)
    /\ UNCHANGED <<size, limited, hashes, kept, history, bounds>>

\* The rate-limit window ends.
WindowEnds ==
    /\ limited
    /\ limited' = FALSE
    /\ UNCHANGED <<disk, thread, size, hashes, kept, history, bounds>>

\* Content in the memory of a thread.
Held == UNION {thread[t].collected : t \in {u \in Thread : thread[u] # Idle}}

\* The process restarts: files stay; threads, processor and limiter are new.
Crash ==
    /\ crashes < MaxCrashes
    /\ crashes' = crashes + 1
    /\ thread' = [t \in Thread |-> Idle]
    /\ size' = DefaultSize
    /\ limited' = FALSE
    /\ dropped' = dropped \cup Held
    /\ UNCHANGED <<disk, hashes, evidence, history, calls, limits>>

Works(t) ==
    \/ ListFails(t) \/ ListEmpty(t) \/ List(t) \/ Begin(t)
    \/ SkipBatch(t) \/ EnterBatch(t)
    \/ HoldOff(t) \/ FetchContent(t) \/ FetchFails(t, TRUE)
    \/ FetchFails(t, FALSE) \/ VersionFails(t)
    \/ EndBatch(t) \/ Finish(t) \/ Bridge(t) \/ WriteBack(t)

Next ==
    \/ \E t \in Thread :
        \/ \E j \in Job :
            \/ \E items \in Wanted, sz \in Sizes : Import(t, j, items, sz)
            \/ Resume(t, j)
            \/ \E leg \in {"cancel", "pause"} : Read(t, leg, j)
        \/ Works(t)
    \/ WindowEnds
    \/ Crash

Spec == Init /\ [][Next]_vars

\* A thread the operating system schedules makes progress; no request has to
\* arrive, no window has to end and no crash has to happen.
FairSpec == Spec /\ \A t \in Thread : WF_vars(Works(t))
-----------------------------------------------------------------------------
(* Properties                                                              *)

Done == {"completed", "completed_with_warnings"}

\* Every item of the batches up to b has been come to.
Covered(seen, b) == \A i \in Item : i <= b * DefaultSize => i \in seen

\* What makes a record safe to resume from: its checkpoint counts no further
\* than the batch it was taken after, up to which nothing is left out.
Sound(seen, copy) ==
    /\ copy.at.processed <= N
    /\ copy.at.processed <= copy.at.batch * DefaultSize
    /\ Covered(seen, copy.at.batch)
    /\ copy.status \in Done => Item \subseteq seen

\* A thread in the loop has covered every batch before its own, and counts
\* no further than the checkpoint it started from or the batch it is in.
SoundThread(seen, h) ==
    /\ Sound(seen, h.copy)
    /\ h.pc \in {"loop", "batch"} =>
         /\ Covered(seen, h.batch - 1)
         /\ h.offset <= N
         /\ h.offset <= h.copy.at.batch * DefaultSize
         /\ h.copy.processed <= N
         /\ \/ h.copy.processed <= h.offset
            \/ h.copy.processed <= (h.batch - 1) * DefaultSize
         /\ h.last * DefaultSize >= N
    /\ h.pc = "batch" =>
         /\ h.copy.processed <= (h.batch - 1) * DefaultSize
         /\ \A i \in Item : i <= h.batch * DefaultSize => i \in seen \cup h.todo

\* With one batch size in use, every copy of a job asked for without item_ids,
\* in the file or in the memory of any thread, is safe to resume from, however
\* the requests overwrite each other's records (resume_job, pause_job and the
\* save_job calls of process_items).
CheckpointsAreSound ==
    \A j \in Job : asked[j] = Item =>
        /\ disk[j] # NoFile => Sound(tried[j], disk[j])
        /\ \A t \in Thread :
             thread[t] # Idle /\ thread[t].job = j =>
                 SoundThread(tried[j], thread[t])

\* A job that says it is complete has come to every item it was asked for,
\* across pauses, restarts and resumes from a checkpoint (process_items).
NothingLeftOut ==
    \A j \in Job : disk[j].status \in Done => asked[j] \subseteq tried[j]

\* Content recorded by the duplicate store reaches the evidence, or is lost to a
\* restart, to the bridge or to the version record (fetch_item_fn).
RecordedReachesEvidence ==
    \A i \in Item : i \in hashes ~> i \in evidence \cup dropped

\* Every request comes to its end (the loop of process_items does).
RequestsEnd == \A t \in Thread : thread[t] # Idle ~> thread[t] = Idle
=============================================================================
