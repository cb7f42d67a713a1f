---------------------------- MODULE DataSources ----------------------------
(***************************************************************************)
(* The data sources of one workspace: the routes that upload, parse, index  *)
(* and delete them (api/routes_data_sources.py) over the file store they    *)
(* share (data_sources/store.py).                                           *)
(*                                                                         *)
(* The routes run in threads, and nothing locks the store.  A request is    *)
(* therefore a program: the sequence of its file accesses, of which a       *)
(* thread takes one at a time, between any two accesses of the others.      *)
(* `found' is the route's own copy of the record, `copy' the one about to   *)
(* be saved.  A document is what a parser makes of it: its chunks, or an    *)
(* exception.                                                               *)
(***************************************************************************)
EXTENDS Naturals, Sequences, FiniteSets

CONSTANTS
    Source,     \* source ids; every upload takes a new one
    Thread,     \* threads that serve requests
    Doc,        \* documents: [kind, ok, n], n the number of chunks
    None,       \* nothing
    MaxRequests, MaxCrashes  \* bounds

VARIABLES
    files,    \* sources whose uploaded file is on disk
    rec,      \* the record of each source, or None
    listed,   \* the ids in _index.json
    chunks,   \* the chunks of each source on disk, by number
    prof,     \* sources with a profile
    meta,     \* the chunk count in the index metadata of each source, 0 if none
    vec,      \* the chunks of each source in the vector collection
    thread,   \* what each thread is doing
    used, requests, crashes,   \* ids given out, and what the bounds count
    mixed,    \* history: sources two requests worked on at once
    doomed    \* history: sources someone began to delete

store == <<files, rec, listed, chunks, prof, meta, vec>>
history == <<used, requests, crashes, mixed, doomed>>
vars == <<store, thread, history>>

-----------------------------------------------------------------------------
(* Requests as programs                                                     *)

I(do) == [do |-> do, to |-> "-"]
Idle == [src |-> None, todo |-> <<>>, found |-> None, copy |-> None, ids |-> {}, n |-> 0]

\* DataSourceStore.save: the record, then its id into the list unless it is there.
Save == <<I("write"), I("ids"), I("list")>>

\* update_status: load, set, save; nothing if there is no record.
UpdateStatus(status) == <<[do |-> "set", to |-> status]>> \o Save

\* source = store.load(...) or source; source.metadata = meta; store.save(source)
Resave == <<I("reload")>> \o Save

Upload == <<I("file")>> \o Save

DeleteRecordFirst ==                     \* a mutant: the record goes first
    <<I("rmrecord"), I("ids"), I("unlist"),
      I("rmfile"), I("rmchunks"), I("rmprofile"), I("rmmeta")>>

Delete == <<I("rmfile"), I("rmchunks"), I("rmprofile"), I("rmmeta"), I("rmrecord"),
            I("ids"), I("unlist")>>

\* parse_data_source, and _parse_csv, from the parser on: onDisk is whether the
\* file is still there when the parser opens it.  A csv file that is gone raises
\* past every handler, a workbook that is gone has a warning and no chunks.
\* get_parser has a parser for every type that can be uploaded.
Parsed(doc, onDisk) ==
    LET Chunks == [i \in 1..(IF onDisk THEN doc.n ELSE 0) |-> I("chunk")] IN
    CASE doc.kind = "csv" /\ ~onDisk -> <<>>
      [] doc.kind = "csv" /\ onDisk /\ doc.ok ->
             <<I("profile")>> \o UpdateStatus("parsed") \o Resave
      [] doc.kind = "xlsx" /\ doc.ok ->
             Chunks \o UpdateStatus("parsed") \o Resave \o <<I("reprofile")>> \o Resave
      [] doc.kind = "text" /\ doc.ok /\ onDisk ->
             Chunks \o UpdateStatus("parsed") \o Resave \o Resave
      [] OTHER -> UpdateStatus("failed")

Parse == UpdateStatus("parsing") \o <<I("parse")>>

Index == <<I("chunks"), I("vector"), I("meta")>> \o UpdateStatus("indexed")

-----------------------------------------------------------------------------
(* What a thread does                                                       *)

\* The thread whose next access is `do' has made it: its state becomes th with the
\* access taken off the program.
Does(t, do) == thread[t].todo # <<>> /\ Head(thread[t].todo).do = do
Then(t, th) == thread' = [thread EXCEPT ![t] = [th EXCEPT !.todo = Tail(@)]]
Ends(t) == thread' = [thread EXCEPT ![t] = Idle]

\* A request that has no access left has been answered.
Answer(t) ==
    /\ thread[t].src # None /\ thread[t].todo = <<>>
    /\ Ends(t) /\ UNCHANGED <<store, history>>

\* A request begins with what it checks first.
Begin(t, s, program, copy) ==
    /\ thread[t] = Idle /\ requests < MaxRequests
    /\ requests' = requests + 1
    /\ thread' = [thread EXCEPT ![t] =
           [Idle EXCEPT !.src = s, !.todo = program, !.found = copy, !.copy = copy]]
    /\ mixed' = IF \E u \in Thread : thread[u].src = s THEN mixed \cup {s} ELSE mixed
    /\ UNCHANGED <<store, crashes>>

BeginUpload(t) ==
    \E s \in Source \ used, d \in Doc :
        /\ Begin(t, s, Upload, [status |-> "uploaded", doc |-> d])
        /\ used' = used \cup {s} /\ UNCHANGED doomed

BeginDelete(t) ==
    \E s \in Source :
        /\ rec[s] # None
        /\ Begin(t, s, Delete, rec[s])
        /\ doomed' = doomed \cup {s} /\ UNCHANGED used

BeginParse(t) ==
    \E s \in files :
        /\ rec[s] # None
        /\ Begin(t, s, Parse, rec[s]) /\ UNCHANGED <<used, doomed>>

BeginIndexAnyway(t) ==                   \* a mutant: a parse under way is good enough
    \E s \in Source :
        /\ rec[s] # None /\ rec[s].status \in {"parsing", "parsed"}
        /\ Begin(t, s, Index, rec[s]) /\ UNCHANGED <<used, doomed>>

BeginIndex(t) ==
    \E s \in Source :
        /\ rec[s] # None /\ rec[s].status = "parsed"
        /\ Begin(t, s, Index, rec[s]) /\ UNCHANGED <<used, doomed>>

\* DataSourceStore.store_uploaded_file and delete_uploaded_file.
StoreFile(t) ==
    LET th == thread[t] IN
    /\ \/ Does(t, "file") /\ files' = files \cup {th.src}
       \/ Does(t, "rmfile") /\ files' = files \ {th.src}
    /\ Then(t, th)
    /\ UNCHANGED <<rec, listed, chunks, prof, meta, vec, history>>

\* update_status loads the record; without one it saves nothing.
SetStatus(t) ==
    LET th == thread[t] IN
    /\ Does(t, "set")
    /\ IF rec[th.src] = None
       THEN thread' = [thread EXCEPT ![t].todo = SubSeq(@, Len(UpdateStatus("-")) + 1, Len(@))]
       ELSE Then(t, [th EXCEPT !.copy = [rec[th.src] EXCEPT !.status = Head(th.todo).to]])
    /\ UNCHANGED <<store, history>>

\* source = store.load(workspace_id, source_id) or source
Reload(t) ==
    LET th == thread[t]
        now == IF rec[th.src] = None THEN th.found ELSE rec[th.src] IN
    /\ Does(t, "reload")
    /\ Then(t, [th EXCEPT !.found = now, !.copy = now])
    /\ UNCHANGED <<store, history>>

WriteRecord(t) ==
    LET th == thread[t] IN
    /\ Does(t, "write")
    /\ rec' = [rec EXCEPT ![th.src] = th.copy]
    /\ Then(t, th)
    /\ UNCHANGED <<files, listed, chunks, prof, meta, vec, history>>

RemoveRecord(t) ==
    LET th == thread[t] IN
    /\ Does(t, "rmrecord")
    /\ rec' = [rec EXCEPT ![th.src] = None]
    /\ Then(t, th)
    /\ UNCHANGED <<files, listed, chunks, prof, meta, vec, history>>

\* _load_index; the list is written only if that changes it.
LoadIndex(t) ==
    LET th == thread[t]
        adds == th.todo[2].do = "list" IN
    /\ Does(t, "ids")
    /\ IF (th.src \in listed) = adds
       THEN thread' = [thread EXCEPT ![t].todo = Tail(Tail(@))]
       ELSE Then(t, [th EXCEPT !.ids = listed])
    /\ UNCHANGED <<store, history>>

SaveIndex(t) ==
    LET th == thread[t] IN
    /\ \/ Does(t, "list") /\ listed' = th.ids \cup {th.src}
       \/ Does(t, "unlist") /\ listed' = th.ids \ {th.src}
    /\ Then(t, [th EXCEPT !.ids = {}])
    /\ UNCHANGED <<files, rec, chunks, prof, meta, vec, history>>

RunParser(t) ==
    LET th == thread[t] IN
    /\ Does(t, "parse")
    /\ thread' = [thread EXCEPT ![t].todo = Parsed(th.found.doc, th.src \in files)]
    /\ UNCHANGED <<store, history>>

\* save_chunks writes them one by one, under ids made of the document's text.
SaveChunk(t) ==
    LET th == thread[t] IN
    /\ Does(t, "chunk")
    /\ chunks' = [chunks EXCEPT ![th.src] = @ \cup {th.n + 1}]
    /\ Then(t, [th EXCEPT !.n = @ + 1])
    /\ UNCHANGED <<files, rec, listed, prof, meta, vec, history>>

\* delete_chunks: rmtree removes file by file.
RemoveChunks(t) ==
    LET th == thread[t] IN
    /\ Does(t, "rmchunks")
    /\ IF chunks[th.src] = {}
       THEN Then(t, th) /\ UNCHANGED chunks
       ELSE /\ \E c \in chunks[th.src] : chunks' = [chunks EXCEPT ![th.src] = @ \ {c}]
            /\ UNCHANGED thread
    /\ UNCHANGED <<files, rec, listed, prof, meta, vec, history>>

\* save_profile and delete_profile; a workbook is opened again for its profile.
Profile(t) ==
    LET th == thread[t] IN
    /\ \/ Does(t, "profile") /\ prof' = prof \cup {th.src}
       \/ Does(t, "reprofile")
          /\ prof' = IF th.src \in files THEN prof \cup {th.src} ELSE prof
       \/ Does(t, "rmprofile") /\ prof' = prof \ {th.src}
    /\ Then(t, th)
    /\ UNCHANGED <<files, rec, listed, chunks, meta, vec, history>>

\* index_data_source: without chunks there is nothing to index.
LoadChunks(t) ==
    LET th == thread[t] IN
    /\ Does(t, "chunks")
    /\ IF chunks[th.src] = {} THEN Ends(t)
       ELSE Then(t, [th EXCEPT !.n = Cardinality(chunks[th.src])])
    /\ UNCHANGED <<store, history>>

\* The collection takes the chunks, or fails and search falls back to keywords.
\* Nothing ever takes a chunk out of the collection.
IndexVectors(t) ==
    LET th == thread[t] IN
    /\ Does(t, "vector")
    /\ \/ vec' = [vec EXCEPT ![th.src] = @ \cup chunks[th.src]]
       \/ UNCHANGED vec
    /\ Then(t, th)
    /\ UNCHANGED <<files, rec, listed, chunks, prof, meta, history>>

IndexMetadata(t) ==
    LET th == thread[t] IN
    /\ \/ Does(t, "meta") /\ meta' = [meta EXCEPT ![th.src] = th.n]
       \/ Does(t, "rmmeta") /\ meta' = [meta EXCEPT ![th.src] = 0]
    /\ Then(t, th)
    /\ UNCHANGED <<files, rec, listed, chunks, prof, vec, history>>

\* The process dies; the files stay.
Crash ==
    /\ crashes < MaxCrashes
    /\ crashes' = crashes + 1
    /\ thread' = [t \in Thread |-> Idle]
    /\ UNCHANGED <<store, used, requests, mixed, doomed>>

Init ==
    /\ files = {} /\ listed = {} /\ prof = {}
    /\ rec = [s \in Source |-> None]
    /\ chunks = [s \in Source |-> {}] /\ vec = [s \in Source |-> {}]
    /\ meta = [s \in Source |-> 0]
    /\ thread = [t \in Thread |-> Idle]
    /\ used = {} /\ mixed = {} /\ doomed = {}
    /\ requests = 0 /\ crashes = 0

Next ==
    \/ Crash
    \/ \E t \in Thread :
        \/ BeginUpload(t) \/ BeginDelete(t) \/ BeginParse(t) \/ BeginIndex(t)
        \/ Answer(t) \/ StoreFile(t)
        \/ SetStatus(t) \/ Reload(t) \/ WriteRecord(t) \/ RemoveRecord(t)
        \/ LoadIndex(t) \/ SaveIndex(t)
        \/ RunParser(t) \/ SaveChunk(t) \/ RemoveChunks(t) \/ Profile(t)
        \/ LoadChunks(t) \/ IndexVectors(t) \/ IndexMetadata(t)

Spec == Init /\ [][Next]_vars

-----------------------------------------------------------------------------
(* Properties                                                               *)

Quiet(s) == \A t \in Thread : thread[t].src # s

\* delete_data_source removes the record last: whatever a crash leaves, no chunk,
\* profile or index metadata outlives the record a second delete needs to reach
\* them; unless two requests worked on the source at once.
NothingOutlivesItsRecord ==
    \A s \in Source : Quiet(s) /\ rec[s] = None /\ s \notin mixed =>
        chunks[s] = {} /\ s \notin prof /\ meta[s] = 0

\* What the record calls indexed is the whole document, on disk and in the index
\* metadata, whatever crashed on the way there; unless someone began to delete it
\* or two requests worked on it at once.
IndexedIsWhole ==
    \A s \in Source \ (mixed \cup doomed) :
        rec[s] # None /\ rec[s].status = "indexed" =>
            /\ s \in files
            /\ Cardinality(chunks[s]) = rec[s].doc.n /\ meta[s] = rec[s].doc.n
=============================================================================
