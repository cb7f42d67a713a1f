----------------------- MODULE ConnectorSyncProofs -----------------------
(***************************************************************************)
(* Proofs about ConnectorSync.                                              *)
(***************************************************************************)
EXTENDS ConnectorSync, FiniteSetTheorems, WellFoundedInduction, TLAPS

-----------------------------------------------------------------------------
(* What the variables hold                                                 *)

Hashes == Text \cup {Empty, Gone}
Entry == [hash : Hashes,
          status : {"none", "new", "changed", "unchanged", "deleted_remote"}]
StateFile == [Item -> Entry]
Fetched == [Item -> Hashes]
DataSource == [conn : Conn, item : Item, hash : Text, status : {"parsed", "archived"},
               chunks : SUBSET Text, indexed : SUBSET Hashes]
Starting == [pc : {"fetch"}, conn : Conn, prev : StateFile]
Going == [pc : {"mark", "write", "bridge", "save", "chunks", "indexed", "archive"},
          conn : Conn, prev : StateFile, got : Fetched, todo : SUBSET Item,
          held : {NoEntry} \cup StateFile \cup Nat, parsed : SUBSET Nat]

RunsOK ==
    \A r \in Runner :
        /\ run[r] \in {Idle} \cup Starting \cup Going
        /\ run[r].pc = "write" => run[r].held \in StateFile
        /\ run[r].pc \in {"save", "chunks"} => run[r].held \in 0..Len(sources)
        /\ run[r].pc = "chunks" => run[r].held # 0
        /\ run[r].pc \in {"write", "save", "chunks"} => run[r].todo # {}
        /\ run[r].pc \in {"bridge", "save", "chunks"} => run[r].todo \subseteq Listed(run[r].got)
        /\ run[r].pc \in {"save", "chunks"} => run[r].got[Current(r)] \in Text

TypeOK ==
    /\ remote \in [Conn -> [Item -> Text \cup {Gone}]]
    /\ state \in [Conn -> StateFile]
    /\ sources \in Seq(DataSource)
    /\ DOMAIN run = Runner
    /\ synced \in [Conn -> Fetched]
    /\ RunsOK

-----------------------------------------------------------------------------
(* Numbers                                                                 *)

\* Min is the least of a set of numbers.
LEMMA Least ==
    ASSUME NEW S \in SUBSET Nat, S # {}
    PROVE  Min(S) \in S /\ \A y \in S : Min(S) <= y
<1>1. PICK n \in S : TRUE
  OBVIOUS
<1> DEFINE T == {1..i : i \in {j \in S : j <= n}}
<1>2. T \subseteq FiniteSubsetsOf(1..n)
  <2>1. \A i \in {j \in S : j <= n} : 1..i \subseteq 1..n
    OBVIOUS
  <2>2. IsFiniteSet(1..n)
    BY FS_Interval
  <2> QED
    BY <2>1, <2>2, FS_FiniteSubsetsOfFinite
<1>3. T # {}
  OBVIOUS
<1>4. IsWellFoundedOn(StrictSubsetOrdering(1..n), FiniteSubsetsOf(1..n))
  BY FS_StrictSubsetOrderingWellFounded
<1> HIDE DEF T
<1>5. PICK x \in T : \A y \in T : ~ (<<y, x>> \in StrictSubsetOrdering(1..n))
  BY <1>2, <1>3, <1>4, WFMin
<1>6. PICK m \in S : m <= n /\ x = 1..m
  BY <1>5 DEF T
<1>7. ASSUME NEW k \in S, k < m
      PROVE  FALSE
  <2>1. 1..k \in T
    BY <1>6, <1>7 DEF T
  <2>2. 1..k \subseteq 1..m /\ m \in 1..m /\ m \notin 1..k /\ 1..m \subseteq 1..n
    BY <1>6, <1>7
  <2>3. <<1..k, 1..m>> \in StrictSubsetOrdering(1..n)
    BY <2>2 DEF StrictSubsetOrdering
  <2> QED
    BY <1>5, <1>6, <2>1, <2>3
<1>8. \A y \in S : m <= y
  BY <1>7
<1> QED
  BY <1>8 DEF Min
-----------------------------------------------------------------------------
(* The next item of a loop                                                 *)

LEMMA NoEntryIsEntry == NoEntry \in Entry /\ Gone \notin Text /\ Empty \notin Text /\ Empty # Gone
BY SyncAssumption DEF NoEntry, Entry, Hashes, Gone, Empty

\* The next item is one of those left, and one that is listed while there is any.
LEMMA FirstIsLeft ==
    ASSUME NEW todo \in SUBSET Item, NEW got, todo # {}
    PROVE  First(todo, got) \in todo
<1>1. todo \in SUBSET Nat /\ todo \cap Listed(got) \in SUBSET Nat
  BY SyncAssumption DEF Listed
<1> QED
  BY <1>1, Least DEF First

\* Who is at a step of the loops holds all that belongs to it.
LEMMA GoingOn ==
    ASSUME TypeOK, NEW r \in Runner,
           run[r].pc \in {"mark", "write", "bridge", "save", "chunks", "indexed", "archive"}
    PROVE  /\ run[r] \in Going
           /\ run[r].conn \in Conn /\ run[r].prev \in StateFile /\ run[r].got \in Fetched
           /\ run[r].todo \in SUBSET Item /\ run[r].parsed \in SUBSET Nat
           /\ run[r].todo # {} => Current(r) \in run[r].todo /\ Current(r) \in Item
<1>1. run[r] \in Going
  BY DEF TypeOK, RunsOK, Idle, Starting, Going
<1>2. /\ run[r].conn \in Conn /\ run[r].prev \in StateFile /\ run[r].got \in Fetched
      /\ run[r].todo \in SUBSET Item /\ run[r].parsed \in SUBSET Nat
  BY <1>1 DEF Going
<1> QED
  BY <1>1, <1>2, FirstIsLeft DEF Current

\* The source found is one of the item, and none is found only if there is none.
LEMMA FoundIsOfItem ==
    ASSUME TypeOK, NEW c, NEW i
    PROVE  /\ Found(c, i) \in 0..Len(sources)
           /\ Found(c, i) # 0 => /\ Found(c, i) \in DOMAIN sources
                                 /\ sources[Found(c, i)].conn = c
                                 /\ sources[Found(c, i)].item = i
           /\ Found(c, i) = 0 =>
                 \A k \in DOMAIN sources : ~ (sources[k].conn = c /\ sources[k].item = i)
<1> DEFINE mine == {k \in DOMAIN sources : sources[k].conn = c /\ sources[k].item = i}
<1>1. DOMAIN sources = 1..Len(sources) /\ Len(sources) \in Nat
  BY DEF TypeOK
<1>2. mine \in SUBSET Nat
  BY <1>1
<1>3. mine # {} => Min(mine) \in mine
  BY <1>2, Least
<1> QED
  BY <1>1, <1>3 DEF Found

\* As FoundIsOfItem, for any connector.
LEMMA FoundByIdIsOfItem ==
    ASSUME TypeOK, NEW i
    PROVE  /\ FoundById(i) \in 0..Len(sources)
           /\ FoundById(i) # 0 => /\ FoundById(i) \in DOMAIN sources
                                  /\ sources[FoundById(i)].item = i
           /\ FoundById(i) = 0 => \A k \in DOMAIN sources : sources[k].item # i
<1> DEFINE same == {k \in DOMAIN sources : sources[k].item = i}
<1>1. DOMAIN sources = 1..Len(sources) /\ Len(sources) \in Nat
  BY DEF TypeOK
<1>2. same \in SUBSET Nat
  BY <1>1
<1>3. same # {} => Min(same) \in same
  BY <1>2, Least
<1> QED
  BY <1>1, <1>3 DEF FoundById

-----------------------------------------------------------------------------
(* What the steps of a sync do to the runner                               *)

\* Runner r goes to pc with the given fields, all else of it stays.
Moves(r, pc, todo, held, parsed) ==
    /\ DOMAIN run' = Runner /\ \A q \in Runner \ {r} : run'[q] = run[q]
    /\ run'[r] \in Going
    /\ run'[r].conn = run[r].conn /\ run'[r].prev = run[r].prev /\ run'[r].got = run[r].got
    /\ run'[r].pc = pc /\ run'[r].todo = todo /\ run'[r].held = held
    /\ run'[r].parsed = parsed

Left(r) == run[r].todo \ {Current(r)}

LEMMA FetchMoves ==
    ASSUME TypeOK, NEW r \in Runner, FetchAll(r)
    PROVE  /\ run[r] \in Starting
           /\ DOMAIN run' = Runner /\ \A q \in Runner \ {r} : run'[q] = run[q]
           /\ run'[r] \in Going
           /\ run'[r].pc = "mark" /\ run'[r].conn = run[r].conn /\ run'[r].prev = run[r].prev
           /\ Gets(run[r].conn, run'[r].got)
           /\ run'[r].todo = Listed(run'[r].got) \cup Vanished(run[r].prev, run'[r].got)
           /\ run'[r].held = NoEntry /\ run'[r].parsed = {}
<1>1. run[r] \in Starting /\ DOMAIN run = Runner
  BY DEF TypeOK, RunsOK, Idle, Starting, Going, FetchAll, At
<1>2. PICK got \in [Item -> Text \cup {Gone, Empty}] :
        /\ Gets(ConnOf(r), got)
        /\ run' = [run EXCEPT ![r] =
                   [pc |-> "mark", conn |-> ConnOf(r), prev |-> run[r].prev, got |-> got,
                    todo |-> Listed(got) \cup Vanished(run[r].prev, got),
                    held |-> NoEntry, parsed |-> {}]]
  BY Zenon DEF FetchAll
<1>3. run'[r] = [pc |-> "mark", conn |-> ConnOf(r), prev |-> run[r].prev, got |-> got,
                 todo |-> Listed(got) \cup Vanished(run[r].prev, got),
                 held |-> NoEntry, parsed |-> {}]
  BY <1>1, <1>2
<1>4. DOMAIN run' = Runner /\ \A q \in Runner \ {r} : run'[q] = run[q]
  BY <1>1, <1>2
<1>5. run[r].conn \in Conn /\ run[r].prev \in StateFile /\ got \in Fetched
  BY <1>1, <1>2 DEF Starting, Fetched, Hashes
<1>6. Listed(got) \cup Vanished(run[r].prev, got) \in SUBSET Item
  BY DEF Listed, Vanished
<1>7. run'[r] \in Going
  BY <1>3, <1>5, <1>6 DEF Going, ConnOf
<1> QED
  BY <1>1, <1>2, <1>3, <1>4, <1>7 DEF ConnOf

LEMMA GoesTo ==
    ASSUME TypeOK, NEW r \in Runner, run[r] \in Going, NEW pc, NEW todo, NEW held, NEW parsed,
           pc \in {"mark", "write", "bridge", "save", "chunks", "indexed", "archive"},
           todo \in SUBSET Item, held \in {NoEntry} \cup StateFile \cup Nat,
           parsed \in SUBSET Nat, run' = GoTo(r, pc, todo, held, parsed)
    PROVE  Moves(r, pc, todo, held, parsed)
<1>1. DOMAIN run = Runner
  BY DEF TypeOK
<1>2. run' = [run EXCEPT ![r] =
          [pc |-> pc, conn |-> run[r].conn, prev |-> run[r].prev, got |-> run[r].got,
           todo |-> todo, held |-> held, parsed |-> parsed]]
  BY Zenon DEF GoTo
<1>3. run'[r] = [pc |-> pc, conn |-> run[r].conn, prev |-> run[r].prev,
                 got |-> run[r].got, todo |-> todo, held |-> held, parsed |-> parsed]
  BY <1>1, <1>2
<1> QED
  BY <1>1, <1>2, <1>3 DEF Moves, Going

LEMMA LoadMoves ==
    ASSUME TypeOK, NEW r \in Runner, LoadState(r)
    PROVE  Moves(r, "write", run[r].todo, state[run[r].conn], run[r].parsed)
<1>1. run[r] \in Going /\ run[r].todo \in SUBSET Item /\ run[r].parsed \in SUBSET Nat
      /\ run[r].conn \in Conn
  BY GoingOn DEF LoadState, Busy, At
<1>2. state[run[r].conn] \in StateFile
  BY <1>1 DEF TypeOK
<1> QED
  BY <1>1, <1>2, GoesTo DEF LoadState, ConnOf

LEMMA SaveStateMoves ==
    ASSUME TypeOK, NEW r \in Runner, SaveState(r)
    PROVE  Moves(r, "mark", Left(r), NoEntry, run[r].parsed)
<1>1. run[r] \in Going /\ run[r].todo \in SUBSET Item /\ run[r].parsed \in SUBSET Nat
      /\ run[r].conn \in Conn
  BY GoingOn DEF SaveState, At
<1> QED
  BY <1>1, GoesTo DEF SaveState, Onwards, Left

LEMMA CallMoves ==
    ASSUME TypeOK, NEW r \in Runner, CallBridge(r)
    PROVE  Moves(r, "bridge", IF AnyNews(run[r].prev, run[r].got)
                                THEN Listed(run[r].got) ELSE {}, NoEntry, {})
<1>1. run[r] \in Going /\ run[r].todo \in SUBSET Item /\ run[r].parsed \in SUBSET Nat
      /\ run[r].conn \in Conn
  BY GoingOn DEF CallBridge, At
<1>2. (IF AnyNews(run[r].prev, run[r].got) THEN Listed(run[r].got) ELSE {}) \in SUBSET Item
  BY DEF Listed
<1>3. run' = GoTo(r, "bridge", IF AnyNews(run[r].prev, run[r].got)
                                 THEN Listed(run[r].got) ELSE {}, NoEntry, {})
  BY Zenon DEF CallBridge
<1> QED
  BY <1>1, <1>2, <1>3, GoesTo

LEMMA SkipMoves ==
    ASSUME TypeOK, NEW r \in Runner, SkipItem(r)
    PROVE  Moves(r, "bridge", Left(r), NoEntry, run[r].parsed)
<1>1. run[r] \in Going /\ run[r].todo \in SUBSET Item /\ run[r].parsed \in SUBSET Nat
      /\ run[r].conn \in Conn
  BY GoingOn DEF SkipItem, Busy, At
<1> QED
  BY SMTT(30), <1>1, GoesTo DEF SkipItem, Onwards, Left

LEMMA FindMoves ==
    ASSUME TypeOK, NEW r \in Runner, FindSource(r)
    PROVE  Moves(r, "save", run[r].todo, Found(run[r].conn, Current(r)), run[r].parsed)
<1>1. run[r] \in Going /\ run[r].todo \in SUBSET Item /\ run[r].parsed \in SUBSET Nat
      /\ run[r].conn \in Conn
  BY GoingOn DEF FindSource, Busy, At
<1>2. Found(run[r].conn, Current(r)) \in Nat
  <2>1. Found(run[r].conn, Current(r)) \in 0..Len(sources) /\ Len(sources) \in Nat
    BY FoundIsOfItem DEF TypeOK
  <2> QED
    BY <2>1
<1> QED
  BY <1>1, <1>2, GoesTo DEF FindSource, ConnOf

LEMMA AddMoves ==
    ASSUME TypeOK, NEW r \in Runner, AddSource(r)
    PROVE  Moves(r, "chunks", run[r].todo, Len(sources) + 1, run[r].parsed)
<1>1. run[r] \in Going /\ run[r].todo \in SUBSET Item /\ run[r].parsed \in SUBSET Nat
      /\ run[r].conn \in Conn
  BY GoingOn DEF AddSource, At
<1>2. Len(sources) + 1 \in Nat
  BY DEF TypeOK
<1> QED
  BY <1>1, <1>2, GoesTo DEF AddSource

LEMMA SaveSourceMoves ==
    ASSUME TypeOK, NEW r \in Runner, SaveSource(r)
    PROVE  Moves(r, "chunks", run[r].todo, run[r].held, run[r].parsed)
<1>1. run[r] \in Going /\ run[r].todo \in SUBSET Item /\ run[r].parsed \in SUBSET Nat
      /\ run[r].conn \in Conn
  BY GoingOn DEF SaveSource, At
<1>2. run[r].held \in {NoEntry} \cup StateFile \cup Nat
  BY <1>1 DEF Going
<1> QED
  BY <1>1, <1>2, GoesTo DEF SaveSource

LEMMA ChunksMoves ==
    ASSUME TypeOK, NEW r \in Runner, SaveChunks(r)
    PROVE  Moves(r, "bridge", Left(r), NoEntry, run[r].parsed \cup {run[r].held})
<1>1. run[r] \in Going /\ run[r].todo \in SUBSET Item /\ run[r].parsed \in SUBSET Nat
      /\ run[r].conn \in Conn
  BY GoingOn DEF SaveChunks, At
<1>2. run[r].held \in Nat
  <2>1. run[r].held \in 0..Len(sources) /\ Len(sources) \in Nat
    BY DEF TypeOK, RunsOK, SaveChunks, At
  <2> QED
    BY <2>1
<1>3. run' = GoTo(r, "bridge", Left(r), NoEntry, run[r].parsed \cup {run[r].held})
  BY Zenon DEF SaveChunks, Onwards, Left
<1>4. Left(r) \in SUBSET Item /\ run[r].parsed \cup {run[r].held} \in SUBSET Nat
  BY <1>1, <1>2 DEF Left
<1> QED
  BY <1>1, <1>2, <1>3, <1>4, GoesTo

LEMMA FailMoves ==
    ASSUME TypeOK, NEW r \in Runner, ItemFails(r)
    PROVE  Moves(r, "bridge", Left(r), NoEntry, run[r].parsed)
<1>1. run[r] \in Going /\ run[r].todo \in SUBSET Item /\ run[r].parsed \in SUBSET Nat
      /\ run[r].conn \in Conn
  BY GoingOn DEF ItemFails, Busy, At
<1> QED
  BY <1>1, GoesTo DEF ItemFails, Onwards, Left

LEMMA IndexMoves ==
    ASSUME TypeOK, NEW r \in Runner, IndexChunks(r)
    PROVE  Moves(r, "indexed", {}, NoEntry, run[r].parsed)
<1>1. run[r] \in Going /\ run[r].todo \in SUBSET Item /\ run[r].parsed \in SUBSET Nat
      /\ run[r].conn \in Conn
  BY GoingOn DEF IndexChunks, At
<1> QED
  BY <1>1, GoesTo DEF IndexChunks

LEMMA ReconcileMoves ==
    ASSUME TypeOK, NEW r \in Runner, Reconcile(r)
    PROVE  Moves(r, "archive", Vanished(run[r].prev, run[r].got), NoEntry, run[r].parsed)
<1>1. run[r] \in Going /\ run[r].todo \in SUBSET Item /\ run[r].parsed \in SUBSET Nat
      /\ run[r].conn \in Conn
  BY GoingOn DEF Reconcile, At
<1> QED
  BY <1>1, GoesTo DEF Reconcile, Vanished

LEMMA ArchiveMoves ==
    ASSUME TypeOK, NEW r \in Runner, Archive(r)
    PROVE  Moves(r, "archive", Left(r), NoEntry, run[r].parsed)
<1>1. run[r] \in Going /\ run[r].todo \in SUBSET Item /\ run[r].parsed \in SUBSET Nat
      /\ run[r].conn \in Conn
  BY GoingOn DEF Archive, Busy, At
<1> QED
  BY <1>1, GoesTo DEF Archive, Onwards, Left

LEMMA ArchiveFailsMoves ==
    ASSUME TypeOK, NEW r \in Runner, ArchiveFails(r)
    PROVE  Moves(r, "archive", {}, NoEntry, run[r].parsed)
<1>1. run[r] \in Going /\ run[r].todo \in SUBSET Item /\ run[r].parsed \in SUBSET Nat
      /\ run[r].conn \in Conn
  BY GoingOn DEF ArchiveFails, Busy, At
<1> QED
  BY <1>1, GoesTo DEF ArchiveFails

-----------------------------------------------------------------------------
(* What the steps of a sync do to the data sources                         *)

LEMMA SourceFields ==
    ASSUME TypeOK, NEW k \in DOMAIN sources
    PROVE  /\ sources[k] \in DataSource
           /\ sources[k].conn \in Conn /\ sources[k].item \in Item
           /\ sources[k].hash \in Text /\ sources[k].status \in {"parsed", "archived"}
           /\ sources[k].chunks \in SUBSET Text /\ sources[k].indexed \in SUBSET Hashes
<1>1. sources[k] \in DataSource
  BY DEF TypeOK
<1> QED
  BY <1>1 DEF DataSource

\* Source k gets these contents, the others stay.
Edits(k, hash, status, chunks, indexed) ==
    /\ sources' \in Seq(DataSource)
    /\ Len(sources') = Len(sources) /\ DOMAIN sources' = DOMAIN sources
    /\ k \in DOMAIN sources
    /\ sources'[k].conn = sources[k].conn /\ sources'[k].item = sources[k].item
    /\ sources'[k].hash = hash /\ sources'[k].status = status
    /\ sources'[k].chunks = chunks /\ sources'[k].indexed = indexed
    /\ \A j \in DOMAIN sources \ {k} : sources'[j] = sources[j]

LEMMA EditsOne ==
    ASSUME TypeOK, NEW k \in DOMAIN sources, NEW s \in DataSource,
           s.conn = sources[k].conn, s.item = sources[k].item,
           sources' = [sources EXCEPT ![k] = s]
    PROVE  Edits(k, s.hash, s.status, s.chunks, s.indexed)
<1>1. sources \in Seq(DataSource) /\ DOMAIN sources = 1..Len(sources) /\ Len(sources) \in Nat
  BY DEF TypeOK
<1> QED
  BY <1>1 DEF Edits

LEMMA ChunksEdit ==
    ASSUME TypeOK, NEW k \in DOMAIN sources, NEW chunks \in SUBSET Text,
           sources' = [sources EXCEPT ![k] = [@ EXCEPT !.chunks = chunks]]
    PROVE  Edits(k, sources[k].hash, sources[k].status, chunks, sources[k].indexed)
<1>1. PICK s : s = [sources[k] EXCEPT !.chunks = chunks]
  OBVIOUS
<1>2. sources[k] \in DataSource
  BY SourceFields
<1>3. /\ s \in DataSource /\ s.conn = sources[k].conn /\ s.item = sources[k].item
      /\ s.hash = sources[k].hash
      /\ s.status = sources[k].status /\ s.chunks = chunks /\ s.indexed = sources[k].indexed
  BY <1>1, <1>2 DEF DataSource
<1>4. sources' = [sources EXCEPT ![k] = s]
  BY <1>1, Zenon
<1>5. Edits(k, s.hash, s.status, s.chunks, s.indexed)
  BY <1>3, <1>4, EditsOne, Zenon
<1> QED
  BY <1>3, <1>5, Zenon

\* The chunks of the source found are deleted, or that fails, or none is found.
LEMMA FindEdits ==
    ASSUME TypeOK, NEW r \in Runner, FindSource(r)
    PROVE  LET k == Found(run[r].conn, Current(r))
           IN \/ sources' = sources /\ (k = 0 \/ "delete" \in faults')
              \/ /\ k # 0
                 /\ Edits(k, sources[k].hash, sources[k].status, {}, sources[k].indexed)
<1> DEFINE k == Found(run[r].conn, Current(r))
<1>1. k # 0 => k \in DOMAIN sources
  BY FoundIsOfItem
<1>2. \/ sources' = sources /\ (k = 0 \/ "delete" \in faults')
      \/ k # 0 /\ sources' = [sources EXCEPT ![k] = [@ EXCEPT !.chunks = {}]]
  BY Zenon DEF FindSource, ConnOf, Fails
<1> HIDE DEF k
<1>3. {} \in SUBSET Text
  OBVIOUS
<1>4. ASSUME k # 0, sources' = [sources EXCEPT ![k] = [@ EXCEPT !.chunks = {}]]
      PROVE  Edits(k, sources[k].hash, sources[k].status, {}, sources[k].indexed)
  BY <1>1, <1>3, <1>4, ChunksEdit, Zenon
<1>5. \/ sources' = sources /\ (k = 0 \/ "delete" \in faults')
      \/ /\ k # 0
         /\ Edits(k, sources[k].hash, sources[k].status, {}, sources[k].indexed)
  BY <1>2, <1>4, Zenon
<1> QED
  BY <1>5, Zenon DEF k

\* A new source comes last.
LEMMA AddEdits ==
    ASSUME TypeOK, NEW r \in Runner, AddSource(r), run[r].got[Current(r)] \in Text
    PROVE  /\ sources' \in Seq(DataSource) /\ Len(sources') = Len(sources) + 1
           /\ DOMAIN sources' = 1..(Len(sources) + 1) /\ DOMAIN sources = 1..Len(sources)
           /\ \A k \in DOMAIN sources : sources'[k] = sources[k]
           /\ sources'[Len(sources) + 1] =
                [conn |-> run[r].conn, item |-> Current(r), hash |-> run[r].got[Current(r)],
                 status |-> "parsed", chunks |-> {}, indexed |-> {}]
<1>1. PICK s : s = [conn |-> run[r].conn, item |-> Current(r),
                    hash |-> run[r].got[Current(r)],
                    status |-> "parsed", chunks |-> {}, indexed |-> {}]
  OBVIOUS
<1>2. run[r].conn \in Conn /\ Current(r) \in Item
  <2>1. run[r].todo # {}
    BY DEF TypeOK, RunsOK, AddSource, At
  <2> QED
    BY <2>1, GoingOn DEF AddSource, At
<1>3. s \in DataSource
  BY <1>1, <1>2 DEF DataSource
<1>4. sources' = Append(sources, s)
  BY <1>1, Zenon DEF AddSource, ConnOf
<1>5. sources \in Seq(DataSource) /\ Len(sources) \in Nat
  BY DEF TypeOK
<1>6. /\ sources' \in Seq(DataSource) /\ Len(sources') = Len(sources) + 1
      /\ DOMAIN sources' = 1..(Len(sources) + 1) /\ DOMAIN sources = 1..Len(sources)
      /\ \A k \in DOMAIN sources : sources'[k] = sources[k]
      /\ sources'[Len(sources) + 1] = s
  BY <1>3, <1>4, <1>5
<1> QED
  BY <1>1, <1>6, Zenon

\* The source found takes the content fetched.
LEMMA SaveEdits ==
    ASSUME TypeOK, NEW r \in Runner, SaveSource(r), run[r].got[Current(r)] \in Text
    PROVE  Edits(run[r].held, run[r].got[Current(r)], "parsed",
                 sources[run[r].held].chunks, sources[run[r].held].indexed)
<1>1. run[r].held \in DOMAIN sources
  <2>1. run[r].held \in 0..Len(sources) /\ run[r].held # 0 /\ DOMAIN sources = 1..Len(sources)
    BY DEF TypeOK, RunsOK, SaveSource, At
  <2> QED
    BY <2>1 DEF TypeOK
<1>2. PICK s : s = [conn |-> sources[run[r].held].conn, item |-> sources[run[r].held].item,
                    hash |-> run[r].got[Current(r)], status |-> "parsed",
                    chunks |-> sources[run[r].held].chunks,
                    indexed |-> sources[run[r].held].indexed]
  OBVIOUS
<1>3. /\ s \in DataSource /\ s.conn = sources[run[r].held].conn
      /\ s.item = sources[run[r].held].item /\ s.hash = run[r].got[Current(r)]
      /\ s.status = "parsed" /\ s.chunks = sources[run[r].held].chunks
      /\ s.indexed = sources[run[r].held].indexed
  BY <1>1, <1>2, SourceFields DEF DataSource
<1>4. sources' = [sources EXCEPT ![run[r].held] = s]
  BY <1>2, Zenon DEF SaveSource
<1>5. Edits(run[r].held, s.hash, s.status, s.chunks, s.indexed)
  BY <1>1, <1>3, <1>4, EditsOne, Zenon
<1> QED
  BY <1>3, <1>5, Zenon

\* The source held gets the chunks of the content fetched, or saving them fails.
LEMMA ChunksEdits ==
    ASSUME TypeOK, NEW r \in Runner, SaveChunks(r), run[r].held \in DOMAIN sources,
           run[r].got[Current(r)] \in Text
    PROVE  LET k == run[r].held
           IN \/ sources' = sources /\ "save" \in faults'
              \/ Edits(k, sources[k].hash, sources[k].status,
                       sources[k].chunks \cup {run[r].got[Current(r)]}, sources[k].indexed)
<1> DEFINE k == run[r].held
           more == sources[k].chunks \cup {run[r].got[Current(r)]}
<1>1. \/ sources' = sources /\ "save" \in faults'
      \/ sources' = [sources EXCEPT ![k] = [@ EXCEPT !.chunks = more]]
  BY Zenon DEF SaveChunks, Fails
<1>2. more \in SUBSET Text
  BY SourceFields
<1> HIDE DEF more, k
<1>3. k \in DOMAIN sources
  BY DEF k
<1>4. \/ sources' = sources /\ "save" \in faults'
      \/ Edits(k, sources[k].hash, sources[k].status, more, sources[k].indexed)
  BY <1>1, <1>2, <1>3, ChunksEdit, Zenon
<1> QED
  BY <1>4, Zenon DEF more, k

\* All sources parsed in this sync are indexed, or indexing fails.
LEMMA IndexEdits ==
    ASSUME TypeOK, NEW r \in Runner, IndexChunks(r)
    PROVE  \/ sources' = sources /\ "index" \in faults'
           \/ /\ sources' \in Seq(DataSource) /\ Len(sources') = Len(sources)
              /\ DOMAIN sources' = DOMAIN sources
              /\ \A k \in DOMAIN sources :
                   /\ sources'[k].conn = sources[k].conn /\ sources'[k].item = sources[k].item
                   /\ sources'[k].hash = sources[k].hash
                   /\ sources'[k].status = sources[k].status
                   /\ sources'[k].chunks = sources[k].chunks
                   /\ sources[k].indexed \subseteq sources'[k].indexed
                   /\ k \in run[r].parsed => run[r].got[sources[k].item] \in sources'[k].indexed
<1>1. \/ sources' = sources /\ "index" \in faults'
      \/ sources' = [k \in DOMAIN sources |->
                       IF k \in run[r].parsed
                         THEN [sources[k] EXCEPT !.indexed = sources[k].indexed
                                 \cup {run[r].got[sources[k].item]}]
                         ELSE sources[k]]
  BY Zenon DEF IndexChunks, Fails
<1>2. ASSUME sources' = [k \in DOMAIN sources |->
                       IF k \in run[r].parsed
                         THEN [sources[k] EXCEPT !.indexed = sources[k].indexed
                                 \cup {run[r].got[sources[k].item]}]
                         ELSE sources[k]]
      PROVE  /\ sources' \in Seq(DataSource) /\ Len(sources') = Len(sources)
             /\ DOMAIN sources' = DOMAIN sources
             /\ \A k \in DOMAIN sources :
                  /\ sources'[k].conn = sources[k].conn /\ sources'[k].item = sources[k].item
                  /\ sources'[k].hash = sources[k].hash
                  /\ sources'[k].status = sources[k].status
                  /\ sources'[k].chunks = sources[k].chunks
                  /\ sources[k].indexed \subseteq sources'[k].indexed
                  /\ k \in run[r].parsed => run[r].got[sources[k].item] \in sources'[k].indexed
  <2>1. DOMAIN sources' = DOMAIN sources /\ DOMAIN sources = 1..Len(sources)
    <3>1. DOMAIN sources' = DOMAIN sources
      BY <1>2, Zenon
    <3> QED
      BY <3>1 DEF TypeOK
  <2>2. ASSUME NEW k \in DOMAIN sources
        PROVE  /\ sources'[k] \in DataSource
               /\ sources'[k].conn = sources[k].conn /\ sources'[k].item = sources[k].item
               /\ sources'[k].hash = sources[k].hash
               /\ sources'[k].status = sources[k].status
               /\ sources'[k].chunks = sources[k].chunks
               /\ sources[k].indexed \subseteq sources'[k].indexed
               /\ k \in run[r].parsed => run[r].got[sources[k].item] \in sources'[k].indexed
    <3> DEFINE more == sources[k].indexed \cup {run[r].got[sources[k].item]}
    <3>1. sources'[k] = IF k \in run[r].parsed THEN [sources[k] EXCEPT !.indexed = more]
                        ELSE sources[k]
      BY <1>2, Zenon
    <3>2. sources[k] \in DataSource
      BY SourceFields
    <3>3. more \in SUBSET Hashes
      <4>1. run[r].got \in Fetched
        BY GoingOn DEF IndexChunks, At
      <4> QED
        BY <4>1, SourceFields DEF Fetched
    <3>4. sources[k].indexed \subseteq more /\ run[r].got[sources[k].item] \in more
      OBVIOUS
    <3> HIDE DEF more
    <3>5. CASE k \in run[r].parsed
      <4>1. PICK s : s = [sources[k] EXCEPT !.indexed = more]
        OBVIOUS
      <4>2. sources'[k] = s
        BY <3>1, <3>5, <4>1, Zenon
      <4>3. /\ s \in DataSource /\ s.conn = sources[k].conn /\ s.item = sources[k].item
            /\ s.hash = sources[k].hash /\ s.status = sources[k].status
            /\ s.chunks = sources[k].chunks /\ s.indexed = more
        BY <3>2, <3>3, <4>1 DEF DataSource
      <4> QED
        BY <3>4, <4>2, <4>3, Zenon
    <3>6. CASE k \notin run[r].parsed
      <4>1. sources'[k] = sources[k]
        BY <3>1, <3>6, Zenon
      <4> QED
        BY <3>2, <3>6, <4>1
    <3> QED
      BY <3>5, <3>6, Zenon
  <2>3. sources' \in [1..Len(sources) -> DataSource] /\ Len(sources) \in Nat
    <3>1. sources' = [k \in DOMAIN sources |-> sources'[k]]
      BY <1>2, Zenon
    <3> QED
      BY <2>1, <2>2, <3>1 DEF TypeOK
  <2>4. sources' \in Seq(DataSource) /\ Len(sources') = Len(sources)
    BY <2>3
  <2> QED
    BY <2>1, <2>2, <2>4
<1> QED
  BY <1>1, <1>2, Zenon

\* The first source with the item is archived, if there is one.
LEMMA ArchiveEdits ==
    ASSUME TypeOK, NEW r \in Runner, Archive(r)
    PROVE  LET k == FoundById(Current(r))
           IN \/ sources' = sources /\ k = 0
              \/ /\ k # 0
                 /\ Edits(k, sources[k].hash, "archived", sources[k].chunks,
                          sources[k].indexed)
<1> DEFINE k == FoundById(Current(r))
<1>1. k # 0 => k \in DOMAIN sources
  BY FoundByIdIsOfItem
<1>2. \/ sources' = sources /\ k = 0
      \/ k # 0 /\ sources' = [sources EXCEPT ![k] = [@ EXCEPT !.status = "archived"]]
  BY Zenon DEF Archive
<1> HIDE DEF k
<1>3. ASSUME k # 0, sources' = [sources EXCEPT ![k] = [@ EXCEPT !.status = "archived"]]
      PROVE  Edits(k, sources[k].hash, "archived", sources[k].chunks, sources[k].indexed)
  <2>1. PICK s : s = [sources[k] EXCEPT !.status = "archived"]
    OBVIOUS
  <2>2. k \in DOMAIN sources /\ sources[k] \in DataSource
    BY <1>1, <1>3, SourceFields
  <2>3. /\ s \in DataSource /\ s.conn = sources[k].conn /\ s.item = sources[k].item
        /\ s.hash = sources[k].hash /\ s.status = "archived"
        /\ s.chunks = sources[k].chunks /\ s.indexed = sources[k].indexed
    BY <2>1, <2>2 DEF DataSource
  <2>4. sources' = [sources EXCEPT ![k] = s]
    BY <1>3, <2>1, Zenon
  <2>5. Edits(k, s.hash, s.status, s.chunks, s.indexed)
    BY <2>2, <2>3, <2>4, EditsOne, Zenon
  <2> QED
    BY <2>3, <2>5, Zenon
<1>4. \/ sources' = sources /\ k = 0
      \/ k # 0 /\ Edits(k, sources[k].hash, "archived", sources[k].chunks, sources[k].indexed)
  BY <1>2, <1>3, Zenon
<1> QED
  BY <1>4, Zenon DEF k
-----------------------------------------------------------------------------
(* The types are kept                                                       *)

LEMMA TypeStart == Init => TypeOK
<1> SUFFICES ASSUME Init PROVE TypeOK
  OBVIOUS
<1>1. state \in [Conn -> StateFile]
  <2>1. \A c \in Conn : state[c] = [i \in Item |-> NoEntry]
    BY DEF Init
  <2> QED
    BY <2>1, NoEntryIsEntry DEF Init, StateFile
<1>2. synced \in [Conn -> Fetched]
  BY DEF Init, Nothing, Fetched, Hashes
<1>3. sources \in Seq(DataSource) /\ \A r \in Runner : run[r] = Idle
  BY DEF Init
<1>4. RunsOK
  BY <1>3 DEF RunsOK, Idle
<1> QED
  BY <1>1, <1>2, <1>3, <1>4 DEF Init, TypeOK

LEMMA RunsGoOn ==
    ASSUME TypeOK, NEW r \in Runner, NEW pc, NEW todo, NEW held, NEW parsed,
           Moves(r, pc, todo, held, parsed),
           sources' \in Seq(DataSource), Len(sources') >= Len(sources),
           pc = "write" => held \in StateFile,
           pc \in {"save", "chunks"} =>
              held \in 0..Len(sources') /\ run[r].got[First(todo, run[r].got)] \in Text,
           pc = "chunks" => held # 0, pc \in {"write", "save", "chunks"} => todo # {},
           pc \in {"bridge", "save", "chunks"} => todo \subseteq Listed(run[r].got)
    PROVE  RunsOK' /\ DOMAIN run' = Runner
<1>1. run'[r] \in {Idle} \cup Starting \cup Going /\ DOMAIN run' = Runner
  BY DEF Moves
<1>2. Listed(run'[r].got) = Listed(run[r].got) /\ Current(r)' = First(todo, run[r].got)
  BY Zenon DEF Moves, Current
<1>3. ASSUME NEW q \in Runner, q # r
      PROVE  /\ run'[q] \in {Idle} \cup Starting \cup Going
             /\ run'[q].pc = "write" => run'[q].held \in StateFile
             /\ run'[q].pc \in {"save", "chunks"} => run'[q].held \in 0..Len(sources')
             /\ run'[q].pc = "chunks" => run'[q].held # 0
             /\ run'[q].pc \in {"write", "save", "chunks"} => run'[q].todo # {}
             /\ run'[q].pc \in {"bridge", "save", "chunks"} =>
                   run'[q].todo \subseteq Listed(run'[q].got)
             /\ run'[q].pc \in {"save", "chunks"} => run'[q].got[Current(q)'] \in Text
  <2>1. run'[q] = run[q]
    BY <1>3, Zenon DEF Moves
  <2>2. Current(q)' = Current(q)
    BY <2>1, Zenon DEF Current
  <2>3. Len(sources) \in Nat /\ Len(sources') \in Nat
    BY DEF TypeOK
  <2>4. run[q].held \in 0..Len(sources) => run[q].held \in 0..Len(sources')
    BY <2>3
  <2> QED
    BY <2>1, <2>2, <2>4, Zenon DEF TypeOK, RunsOK
<1>4. /\ run'[r].pc = "write" => run'[r].held \in StateFile
      /\ run'[r].pc \in {"save", "chunks"} => run'[r].held \in 0..Len(sources')
      /\ run'[r].pc = "chunks" => run'[r].held # 0
      /\ run'[r].pc \in {"write", "save", "chunks"} => run'[r].todo # {}
      /\ run'[r].pc \in {"bridge", "save", "chunks"} =>
            run'[r].todo \subseteq Listed(run'[r].got)
      /\ run'[r].pc \in {"save", "chunks"} => run'[r].got[Current(r)'] \in Text
  BY <1>2, Zenon DEF Moves
<1> QED
  BY <1>1, <1>3, <1>4, ZenonT(40) DEF RunsOK

\* A sync that ends leaves the others as they are.
LEMMA EndsIdle ==
    ASSUME TypeOK, NEW r \in Runner, run' = [run EXCEPT ![r] = Idle], UNCHANGED sources
    PROVE  RunsOK' /\ DOMAIN run' = Runner
<1>1. run'[r] = Idle /\ DOMAIN run' = Runner /\ \A q \in Runner \ {r} : run'[q] = run[q]
  BY DEF TypeOK
<1>2. Idle.pc = "idle" /\ run'[r].pc = "idle"
  BY <1>1 DEF Idle
<1>3. ASSUME NEW q \in Runner, q # r
      PROVE  /\ run'[q] \in {Idle} \cup Starting \cup Going
             /\ run'[q].pc = "write" => run'[q].held \in StateFile
             /\ run'[q].pc \in {"save", "chunks"} => run'[q].held \in 0..Len(sources')
             /\ run'[q].pc = "chunks" => run'[q].held # 0
             /\ run'[q].pc \in {"write", "save", "chunks"} => run'[q].todo # {}
             /\ run'[q].pc \in {"bridge", "save", "chunks"} =>
                   run'[q].todo \subseteq Listed(run'[q].got)
             /\ run'[q].pc \in {"save", "chunks"} => run'[q].got[Current(q)'] \in Text
  <2>1. run'[q] = run[q] /\ sources' = sources
    BY <1>1, <1>3
  <2>2. Current(q)' = Current(q)
    BY <2>1, Zenon DEF Current
  <2> QED
    BY <2>1, <2>2, Zenon DEF TypeOK, RunsOK
<1>4. RunsOK'
  BY <1>1, <1>2, <1>3 DEF RunsOK
<1> QED
  BY <1>1, <1>4

\* What mark_seen and mark_deleted_remote write.
LEMMA SavedState ==
    ASSUME TypeOK, NEW r \in Runner, SaveState(r)
    PROVE  LET c == run[r].conn
               i == Current(r)
               file == run[r].held
               hash == run[r].got[i]
           IN /\ state' \in [Conn -> StateFile]
              /\ c \in Conn /\ i \in run[r].todo /\ i \in Item
              /\ \A d \in Conn \ {c} : state'[d] = state[d]
              /\ \/ hash = Gone /\ file[i] = NoEntry /\ state'[c] = state[c]
                 \/ /\ hash # Gone \/ file[i] # NoEntry
                    /\ \A j \in Item \ {i} : state'[c][j] = file[j]
                    /\ hash # Gone =>
                         state'[c][i] = [hash |-> hash, status |-> Compared(run[r].prev[i], hash)]
                    /\ hash = Gone =>
                         state'[c][i] = [hash |-> file[i].hash, status |-> "deleted_remote"]
<1> DEFINE c == run[r].conn
           i == Current(r)
           file == run[r].held
           hash == run[r].got[i]
           seen == [hash |-> hash, status |-> Compared(run[r].prev[i], hash)]
           unseen == [hash |-> file[i].hash, status |-> "deleted_remote"]
<1>1. run[r].pc = "write" /\ run[r].todo # {} /\ file \in StateFile /\ state \in [Conn -> StateFile]
  BY DEF SaveState, At, TypeOK, RunsOK
<1>2. c \in Conn /\ i \in run[r].todo /\ i \in Item /\ hash \in Hashes
  BY <1>1, GoingOn DEF Fetched
<1>3. state' = [state EXCEPT ![c] = IF hash # Gone THEN [file EXCEPT ![i] = seen]
                                    ELSE IF file[i] = NoEntry THEN state[c]
                                         ELSE [file EXCEPT ![i] = unseen]]
  BY Zenon DEF SaveState, ConnOf
<1>4. seen \in Entry
  BY <1>2 DEF Compared, Entry
<1>5. unseen \in Entry
  BY <1>1, <1>2 DEF StateFile, Entry
<1> HIDE DEF c, i, file, hash, seen, unseen
<1>6. [file EXCEPT ![i] = seen] \in StateFile /\ [file EXCEPT ![i] = unseen] \in StateFile
  BY <1>1, <1>2, <1>4, <1>5 DEF StateFile
<1>7. state' \in [Conn -> StateFile] /\ \A d \in Conn \ {c} : state'[d] = state[d]
  BY <1>1, <1>2, <1>3, <1>6
<1>8. CASE hash # Gone
  <2>1. state'[c] = [file EXCEPT ![i] = seen]
    BY <1>1, <1>2, <1>3, <1>8
  <2>2. state'[c][i] = seen /\ \A j \in Item \ {i} : state'[c][j] = file[j]
    BY <1>1, <1>2, <2>1 DEF StateFile
  <2> QED
    BY <1>2, <1>7, <1>8, <2>2, Zenon DEF c, i, file, hash, seen, unseen
<1>9. CASE hash = Gone /\ file[i] # NoEntry
  <2>1. state'[c] = [file EXCEPT ![i] = unseen]
    BY <1>1, <1>2, <1>3, <1>9
  <2>2. state'[c][i] = unseen /\ \A j \in Item \ {i} : state'[c][j] = file[j]
    BY <1>1, <1>2, <2>1 DEF StateFile
  <2> QED
    BY <1>2, <1>7, <1>9, <2>2, Zenon DEF c, i, file, hash, seen, unseen
<1>10. CASE hash = Gone /\ file[i] = NoEntry
  <2>1. state'[c] = state[c]
    BY <1>1, <1>2, <1>3, <1>10
  <2> QED
    BY <1>2, <1>7, <1>10, <2>1, Zenon DEF c, i, file, hash
<1> QED
  BY <1>8, <1>9, <1>10, Zenon

LEMMA StepTypes ==
    ASSUME TypeOK, NEW r \in Runner, Syncs(r)
    PROVE  TypeOK'
<1>0. sources \in Seq(DataSource) /\ Len(sources) \in Nat
  BY DEF TypeOK
<1>1. CASE FetchAll(r)
  <2>1. /\ run'[r] \in Going /\ run'[r].pc = "mark" /\ DOMAIN run' = Runner
        /\ \A q \in Runner \ {r} : run'[q] = run[q]
    BY <1>1, FetchMoves
  <2>2. RunsOK'
    BY <1>1, <2>1 DEF TypeOK, RunsOK, FetchAll, Current
  <2> QED
    BY <1>1, <2>1, <2>2 DEF TypeOK, FetchAll
<1>2. CASE LoadState(r)
  <2>1. /\ state[run[r].conn] \in StateFile /\ run[r].todo # {}
        /\ Moves(r, "write", run[r].todo, state[run[r].conn], run[r].parsed)
    BY <1>2, GoingOn, LoadMoves DEF LoadState, Busy, At, TypeOK
  <2>2. RunsOK' /\ DOMAIN run' = Runner
    BY <1>0, <1>2, <2>1, RunsGoOn DEF LoadState
  <2> QED
    BY <1>2, <2>2 DEF LoadState, TypeOK
<1>3. CASE SaveState(r)
  <2>1. Moves(r, "mark", Left(r), NoEntry, run[r].parsed)
    BY <1>3, SaveStateMoves
  <2>2. RunsOK' /\ DOMAIN run' = Runner
    BY <1>0, <1>3, <2>1, RunsGoOn DEF SaveState
  <2>3. state' \in [Conn -> StateFile]
    BY <1>3, SavedState
  <2> QED
    BY <1>3, <2>2, <2>3 DEF SaveState, TypeOK
<1>4. CASE CallBridge(r)
  <2>1. Moves(r, "bridge", IF AnyNews(run[r].prev, run[r].got)
                             THEN Listed(run[r].got) ELSE {}, NoEntry, {})
    BY <1>4, CallMoves
  <2>2. (IF AnyNews(run[r].prev, run[r].got) THEN Listed(run[r].got) ELSE {})
           \subseteq Listed(run[r].got)
    OBVIOUS
  <2>3. RunsOK' /\ DOMAIN run' = Runner
    BY <1>0, <1>4, <2>1, <2>2, RunsGoOn DEF CallBridge
  <2> QED
    BY <1>4, <2>3 DEF CallBridge, TypeOK
<1>5. CASE SkipItem(r)
  <2>1. /\ Left(r) \subseteq Listed(run[r].got)
        /\ Moves(r, "bridge", Left(r), NoEntry, run[r].parsed)
    BY <1>5, SkipMoves DEF SkipItem, Busy, At, TypeOK, RunsOK, Left
  <2>2. RunsOK' /\ DOMAIN run' = Runner
    BY <1>0, <1>5, <2>1, RunsGoOn DEF SkipItem
  <2> QED
    BY <1>5, <2>2 DEF SkipItem, TypeOK
<1>6. CASE FindSource(r)
  <2>1. /\ run[r].todo # {} /\ run[r].todo \subseteq Listed(run[r].got)
        /\ run[r].got[Current(r)] \in Text
        /\ Found(run[r].conn, Current(r)) \in 0..Len(sources)
    <3>1. run[r].got \in Fetched /\ run[r].todo # {} /\ Current(r) \in run[r].todo
      BY <1>6, GoingOn DEF FindSource, Busy, At
    <3>2. run[r].todo \subseteq Listed(run[r].got) /\ run[r].got[Current(r)] # Empty
      BY <1>6 DEF FindSource, Busy, At, TypeOK, RunsOK
    <3>3. run[r].got[Current(r)] \in Text
      BY <3>1, <3>2 DEF Listed, Fetched, Hashes
    <3> QED
      BY <3>1, <3>2, <3>3, FoundIsOfItem
  <2>2. sources' \in Seq(DataSource) /\ Len(sources') = Len(sources)
    BY <1>0, <1>6, FindEdits DEF Edits
  <2>3. Moves(r, "save", run[r].todo, Found(run[r].conn, Current(r)), run[r].parsed)
    BY <1>6, FindMoves
  <2>4. run[r].got[First(run[r].todo, run[r].got)] \in Text
    BY <2>1, Zenon DEF Current
  <2>5. RunsOK' /\ DOMAIN run' = Runner
    BY <1>0, <2>1, <2>2, <2>3, <2>4, RunsGoOn
  <2> QED
    BY <1>6, <2>2, <2>5 DEF FindSource, TypeOK
<1>7. CASE AddSource(r)
  <2>1. /\ run[r].todo # {} /\ run[r].todo \subseteq Listed(run[r].got)
        /\ run[r].got[Current(r)] \in Text
    BY <1>7 DEF AddSource, At, TypeOK, RunsOK
  <2>2. sources' \in Seq(DataSource) /\ Len(sources') = Len(sources) + 1
        /\ Len(sources) + 1 # 0 /\ Len(sources) + 1 >= Len(sources)
    <3>1. sources' \in Seq(DataSource) /\ Len(sources') = Len(sources) + 1
      BY <1>7, <2>1, AddEdits
    <3>2. Len(sources) + 1 # 0 /\ Len(sources) + 1 >= Len(sources)
      BY <1>0
    <3> QED
      BY <3>1, <3>2
  <2>3. Moves(r, "chunks", run[r].todo, Len(sources) + 1, run[r].parsed)
    BY <1>7, AddMoves
  <2>4. run[r].got[First(run[r].todo, run[r].got)] \in Text
    BY <2>1, Zenon DEF Current
  <2>5. RunsOK' /\ DOMAIN run' = Runner
    BY <1>0, <2>1, <2>2, <2>3, <2>4, RunsGoOn
  <2> QED
    BY <1>7, <2>2, <2>5 DEF AddSource, TypeOK
<1>8. CASE SaveSource(r)
  <2>1. /\ run[r].todo # {} /\ run[r].todo \subseteq Listed(run[r].got)
        /\ run[r].got[Current(r)] \in Text /\ run[r].held \in 0..Len(sources)
        /\ run[r].held # 0
    BY <1>8 DEF SaveSource, At, TypeOK, RunsOK
  <2>2. sources' \in Seq(DataSource) /\ Len(sources') = Len(sources)
    BY <1>8, <2>1, SaveEdits DEF Edits
  <2>3. Moves(r, "chunks", run[r].todo, run[r].held, run[r].parsed)
    BY <1>8, SaveSourceMoves
  <2>4. run[r].got[First(run[r].todo, run[r].got)] \in Text
    BY <2>1, Zenon DEF Current
  <2>5. RunsOK' /\ DOMAIN run' = Runner
    BY <1>0, <2>1, <2>2, <2>3, <2>4, RunsGoOn
  <2> QED
    BY <1>8, <2>2, <2>5 DEF SaveSource, TypeOK
<1>9. CASE SaveChunks(r)
  <2>1. /\ Left(r) \subseteq Listed(run[r].got) /\ run[r].held \in DOMAIN sources
        /\ run[r].got[Current(r)] \in Text
    <3>1. /\ run[r].held \in 0..Len(sources) /\ run[r].held # 0
          /\ run[r].got[Current(r)] \in Text /\ run[r].todo \subseteq Listed(run[r].got)
      BY <1>9 DEF SaveChunks, At, TypeOK, RunsOK
    <3> QED
      BY <1>0, <3>1 DEF Left
  <2>2. sources' \in Seq(DataSource) /\ Len(sources') = Len(sources)
    BY <1>0, <1>9, <2>1, ChunksEdits DEF Edits
  <2>3. Moves(r, "bridge", Left(r), NoEntry, run[r].parsed \cup {run[r].held})
    BY <1>9, ChunksMoves
  <2>4. RunsOK' /\ DOMAIN run' = Runner
    BY <1>0, <2>1, <2>2, <2>3, RunsGoOn
  <2> QED
    BY <1>9, <2>2, <2>4 DEF SaveChunks, TypeOK
<1>10. CASE ItemFails(r)
  <2>1. /\ Left(r) \subseteq Listed(run[r].got)
        /\ Moves(r, "bridge", Left(r), NoEntry, run[r].parsed)
    BY <1>10, FailMoves DEF ItemFails, Busy, At, TypeOK, RunsOK, Left
  <2>2. RunsOK' /\ DOMAIN run' = Runner
    BY <1>0, <1>10, <2>1, RunsGoOn DEF ItemFails
  <2> QED
    BY <1>10, <2>2 DEF ItemFails, TypeOK
<1>11. CASE IndexChunks(r)
  <2>1. sources' \in Seq(DataSource) /\ Len(sources') = Len(sources)
    BY <1>0, <1>11, IndexEdits
  <2>2. Moves(r, "indexed", {}, NoEntry, run[r].parsed)
    BY <1>11, IndexMoves
  <2>3. RunsOK' /\ DOMAIN run' = Runner
    BY <1>0, <2>1, <2>2, RunsGoOn
  <2> QED
    BY <1>11, <2>1, <2>3 DEF IndexChunks, TypeOK
<1>12. CASE Reconcile(r)
  <2>1. Moves(r, "archive", Vanished(run[r].prev, run[r].got), NoEntry, run[r].parsed)
    BY <1>12, ReconcileMoves
  <2>2. RunsOK' /\ DOMAIN run' = Runner
    BY <1>0, <1>12, <2>1, RunsGoOn DEF Reconcile
  <2> QED
    BY <1>12, <2>2 DEF Reconcile, TypeOK
<1>13. CASE Archive(r)
  <2>1. sources' \in Seq(DataSource) /\ Len(sources') = Len(sources)
    BY <1>0, <1>13, ArchiveEdits DEF Edits
  <2>2. Moves(r, "archive", Left(r), NoEntry, run[r].parsed)
    BY <1>13, ArchiveMoves
  <2>3. RunsOK' /\ DOMAIN run' = Runner
    BY <1>0, <2>1, <2>2, RunsGoOn
  <2> QED
    BY <1>13, <2>1, <2>3 DEF Archive, TypeOK
<1>14. CASE FinishSync(r)
  <2>1. run[r].conn \in Conn /\ run[r].got \in Fetched /\ DOMAIN run = Runner
    BY <1>14, GoingOn DEF FinishSync, At, TypeOK
  <2>2. synced' \in [Conn -> Fetched]
    BY <1>14, <2>1 DEF FinishSync, ConnOf, TypeOK
  <2>3. RunsOK' /\ DOMAIN run' = Runner
    BY <1>14, EndsIdle DEF FinishSync
  <2> QED
    BY <1>14, <2>2, <2>3 DEF FinishSync, TypeOK
<1>15. CASE SyncFails(r)
  <2>1. RunsOK' /\ DOMAIN run' = Runner
    BY <1>15, EndsIdle DEF SyncFails
  <2> QED
    BY <1>15, <2>1 DEF SyncFails, TypeOK
<1>16. CASE ArchiveFails(r)
  <2>1. Moves(r, "archive", {}, NoEntry, run[r].parsed)
    BY <1>16, ArchiveFailsMoves
  <2>2. RunsOK' /\ DOMAIN run' = Runner
    BY <1>0, <1>16, <2>1, RunsGoOn DEF ArchiveFails
  <2> QED
    BY <1>16, <2>2 DEF ArchiveFails, TypeOK
<1> QED
  BY <1>1, <1>2, <1>3, <1>4, <1>5, <1>6, <1>7, <1>8, <1>9, <1>10, <1>11, <1>12, <1>13, <1>14,
     <1>15, <1>16 DEF Syncs

LEMMA TypeStep ==
    ASSUME TypeOK, [Next]_vars
    PROVE  TypeOK'
<1>1. ASSUME NEW r \in Runner, Syncs(r) PROVE TypeOK'
  BY <1>1, StepTypes
<1>2. ASSUME NEW r \in Runner, NEW c \in Conn, StartSync(r, c) PROVE TypeOK'
  <2>1. DOMAIN run = Runner /\ state[c] \in StateFile
    BY DEF TypeOK
  <2>2. /\ run'[r] = [pc |-> "fetch", conn |-> c, prev |-> state[c]] /\ DOMAIN run' = Runner
        /\ \A q \in Runner \ {r} : run'[q] = run[q]
    BY <1>2, <2>1 DEF StartSync
  <2>3. run'[r] \in Starting /\ run'[r].pc = "fetch"
    BY <2>1, <2>2 DEF Starting
  <2>4. RunsOK'
    BY <1>2, <2>2, <2>3 DEF StartSync, TypeOK, RunsOK, Current
  <2> QED
    BY <1>2, <2>2, <2>4 DEF StartSync, TypeOK
<1>3. ASSUME NEW c \in Conn, NEW i \in Item, NEW text \in Text \cup {Gone}, Change(c, i, text)
      PROVE  TypeOK'
  <2>1. remote' \in [Conn -> [Item -> Text \cup {Gone}]]
    BY <1>3 DEF Change, TypeOK
  <2>2. UNCHANGED <<state, sources, run, synced>>
    BY <1>3 DEF Change
  <2> QED
    BY <2>1, <2>2 DEF TypeOK, RunsOK, Current
<1>4. ASSUME Crash PROVE TypeOK'
  <2>1. \A r \in Runner : run'[r] = Idle
    BY <1>4 DEF Crash
  <2>2. RunsOK'
    BY <2>1 DEF RunsOK, Idle
  <2> QED
    BY <1>4, <2>2 DEF Crash, TypeOK
<1>5. ASSUME UNCHANGED vars PROVE TypeOK'
  BY <1>5 DEF vars, TypeOK, RunsOK, Current
<1> QED
  BY <1>1, <1>2, <1>3, <1>4, <1>5 DEF Next
-----------------------------------------------------------------------------
(* One thread at a time                                                    *)
(*                                                                         *)
(* Nothing in the code keeps two syncs of a connector apart, and nothing   *)
(* below holds if two may run: the file a sync loaded may be old when it   *)
(* is saved, and both may add a source for an item.                        *)

OneRunner == \A r, q \in Runner : r = q

Listing == {"mark", "write"}
Bridging == {"bridge", "save", "chunks"}
After == {"indexed", "archive"}

\* Entries of the sync-state file are never lost: what a sync has loaded is still
\* what the file says, and what it went through is on file.
EntriesStay ==
    \A r \in Runner :
      LET c == run[r].conn
      IN /\ run[r].pc = "write" => run[r].held = state[c]
         /\ run[r].pc \in Listing =>
              /\ run[r].todo \subseteq Listed(run[r].got) \cup Vanished(run[r].prev, run[r].got)
              /\ \A i \in Listed(run[r].got) \ run[r].todo : state[c][i] # NoEntry
         /\ run[r].pc \in Bridging \cup After =>
              \A i \in Listed(run[r].got) : state[c][i] # NoEntry

\* The source a sync is about to write is the one of the item, and the only one.
HoldsItsSource ==
    \A r \in Runner :
      LET k == run[r].held
          mine(j) == sources[j].conn = run[r].conn /\ sources[j].item = Current(r)
      IN /\ run[r].pc = "save" =>
              IF k = 0 THEN \A j \in DOMAIN sources : ~mine(j)
              ELSE k \in DOMAIN sources /\ mine(k)
         /\ run[r].pc = "chunks" =>
              k \in DOMAIN sources /\ mine(k) /\ sources[k].hash = run[r].got[Current(r)]

\* Its old chunks are gone before it takes the new content.
OldChunksAreGone ==
    Spared({"delete"}) =>
        \A r \in Runner :
            run[r].pc = "save" /\ run[r].held # 0 => sources[run[r].held].chunks = {}

OneInv ==
    /\ TypeOK
    /\ EntriesStay
    /\ HoldsItsSource
    /\ OldChunksAreGone
    /\ OneSource
    /\ ChunksAreCurrent

-----------------------------------------------------------------------------
(* Each step of a sync keeps OneInv                                        *)

KeepsOne == EntriesStay' /\ HoldsItsSource' /\ OldChunksAreGone' /\ OneSource' /\ ChunksAreCurrent'

LEMMA OneFetch ==
    ASSUME OneRunner, OneInv, NEW r \in Runner, FetchAll(r)
    PROVE  KeepsOne
<1>1. /\ run'[r].pc = "mark" /\ run'[r].conn = run[r].conn /\ run'[r].prev = run[r].prev
      /\ run'[r].todo = Listed(run'[r].got) \cup Vanished(run[r].prev, run'[r].got)
      /\ \A q \in Runner : q = r
  BY FetchMoves DEF OneInv, OneRunner
<1>2. UNCHANGED <<state, sources>> /\ (Spared({"delete"})' => Spared({"delete"}))
  BY DEF FetchAll, Gets, NoFault, Fails, Spared
<1>3. EntriesStay'
  BY <1>1 DEF EntriesStay, Listing, Bridging, After
<1> QED
  BY <1>1, <1>2, <1>3
     DEF OneInv, KeepsOne, HoldsItsSource, OldChunksAreGone, OneSource, ChunksAreCurrent

LEMMA OneLoad ==
    ASSUME OneRunner, OneInv, NEW r \in Runner, LoadState(r)
    PROVE  KeepsOne
<1>1. /\ run'[r].pc = "write" /\ run'[r].conn = run[r].conn /\ run'[r].prev = run[r].prev
      /\ run'[r].todo = run[r].todo /\ run'[r].got = run[r].got
      /\ run'[r].held = state[run[r].conn]
      /\ \A q \in Runner : q = r
  BY LoadMoves DEF OneInv, OneRunner, Moves
<1>2. run[r].pc = "mark" /\ UNCHANGED <<state, sources, faults>>
  BY DEF LoadState, Busy, At
<1>3. EntriesStay'
  BY <1>1, <1>2 DEF OneInv, EntriesStay, Listing, Bridging, After
<1> QED
  BY <1>1, <1>2, <1>3
     DEF OneInv, KeepsOne, HoldsItsSource, OldChunksAreGone, OneSource, ChunksAreCurrent, Spared

LEMMA OneSaveState ==
    ASSUME OneRunner, OneInv, NEW r \in Runner, SaveState(r)
    PROVE  KeepsOne
<1>1. /\ run'[r].pc = "mark" /\ run'[r].conn = run[r].conn /\ run'[r].prev = run[r].prev
      /\ run'[r].todo = Left(r) /\ run'[r].got = run[r].got
      /\ \A q \in Runner : q = r
  BY SaveStateMoves DEF OneInv, OneRunner, Moves
<1>2. run[r].pc = "write" /\ UNCHANGED <<sources, faults>>
  BY DEF SaveState, At
<1>3. /\ run[r].held = state[run[r].conn]
      /\ run[r].todo \subseteq Listed(run[r].got) \cup Vanished(run[r].prev, run[r].got)
      /\ \A i \in Listed(run[r].got) \ run[r].todo : state[run[r].conn][i] # NoEntry
  BY <1>2 DEF OneInv, EntriesStay, Listing
<1>4. /\ \A c \in Conn, i \in Item : state[c][i] # NoEntry => state'[c][i] # NoEntry
      /\ Current(r) \in Listed(run[r].got) => state'[run[r].conn][Current(r)] # NoEntry
  <2>1. TypeOK
    BY DEF OneInv
  <2>2. \A t, s : t # Gone => [hash |-> t, status |-> s] # NoEntry
    BY DEF NoEntry
  <2>3. \A t : [hash |-> t, status |-> "deleted_remote"] # NoEntry
    BY DEF NoEntry
  <2> DEFINE c == run[r].conn
             i == Current(r)
             hash == run[r].got[i]
  <2>4. /\ c \in Conn /\ i \in Item
        /\ \A d \in Conn \ {c} : state'[d] = state[d]
        /\ \/ hash = Gone /\ state[c][i] = NoEntry /\ state'[c] = state[c]
           \/ /\ \A j \in Item \ {i} : state'[c][j] = state[c][j]
              /\ hash # Gone =>
                   state'[c][i] = [hash |-> hash, status |-> Compared(run[r].prev[i], hash)]
              /\ hash = Gone =>
                   state'[c][i] = [hash |-> state[c][i].hash, status |-> "deleted_remote"]
    BY <1>3, <2>1, SavedState, ZenonT(40)
  <2>5. i \in Listed(run[r].got) => hash # Gone
    BY DEF Listed
  <2> HIDE DEF c, i, hash
  <2>6. /\ hash # Gone => state'[c][i] # NoEntry
        /\ state[c][i] # NoEntry => state'[c][i] # NoEntry
        /\ \A j \in Item \ {i} : state'[c][j] = state[c][j]
    BY <2>2, <2>3, <2>4
  <2>7. \A d \in Conn, j \in Item : state[d][j] # NoEntry => state'[d][j] # NoEntry
    BY <2>4, <2>6
  <2> QED
    BY <2>5, <2>6, <2>7, Zenon DEF c, i
<1>5. EntriesStay'
  <2>1. run[r].conn \in Conn
    BY <1>2, GoingOn DEF OneInv
  <2> QED
    BY <1>1, <1>3, <1>4, <2>1 DEF EntriesStay, Listing, Bridging, After, Left, Listed
<1>6. OneSource'
  BY <1>2, <1>4, SourceFields DEF OneInv, OneSource
<1> QED
  BY <1>1, <1>2, <1>5, <1>6
     DEF OneInv, KeepsOne, HoldsItsSource, OldChunksAreGone, ChunksAreCurrent, Spared

LEMMA OneCall ==
    ASSUME OneRunner, OneInv, NEW r \in Runner, CallBridge(r)
    PROVE  KeepsOne
<1>1. /\ run'[r].pc = "bridge" /\ run'[r].conn = run[r].conn /\ run'[r].got = run[r].got
      /\ \A q \in Runner : q = r
  BY CallMoves DEF OneInv, OneRunner, Moves
<1>2. run[r].pc = "mark" /\ run[r].todo = {} /\ UNCHANGED <<state, sources, faults>>
  BY DEF CallBridge, At
<1>3. EntriesStay'
  BY <1>1, <1>2 DEF OneInv, EntriesStay, Listing, Bridging, After
<1> QED
  BY <1>1, <1>2, <1>3
     DEF OneInv, KeepsOne, HoldsItsSource, OldChunksAreGone, OneSource, ChunksAreCurrent, Spared

LEMMA OneSkip ==
    ASSUME OneRunner, OneInv, NEW r \in Runner, SkipItem(r)
    PROVE  KeepsOne
<1>1. /\ run'[r].pc = "bridge" /\ run'[r].conn = run[r].conn /\ run'[r].got = run[r].got
      /\ \A q \in Runner : q = r
  BY SkipMoves DEF OneInv, OneRunner, Moves
<1>2. run[r].pc = "bridge" /\ UNCHANGED <<state, sources, faults>>
  BY DEF SkipItem, Busy, At
<1>3. EntriesStay'
  BY <1>1, <1>2 DEF OneInv, EntriesStay, Listing, Bridging, After
<1> QED
  BY <1>1, <1>2, <1>3
     DEF OneInv, KeepsOne, HoldsItsSource, OldChunksAreGone, OneSource, ChunksAreCurrent, Spared

LEMMA OneFind ==
    ASSUME OneRunner, OneInv, NEW r \in Runner, FindSource(r)
    PROVE  KeepsOne
<1> DEFINE k == Found(run[r].conn, Current(r))
<1>1. /\ run'[r].pc = "save" /\ run'[r].conn = run[r].conn /\ run'[r].got = run[r].got
      /\ run'[r].todo = run[r].todo /\ run'[r].held = k
      /\ \A q \in Runner : q = r
  BY FindMoves DEF OneInv, OneRunner, Moves
<1>2. run[r].pc = "bridge" /\ UNCHANGED state /\ faults \subseteq faults'
  BY DEF FindSource, Busy, At, NoFault, Fails
<1>3. /\ DOMAIN sources' = DOMAIN sources
      /\ \A j \in DOMAIN sources :
           /\ sources'[j].conn = sources[j].conn /\ sources'[j].item = sources[j].item
           /\ sources'[j].hash = sources[j].hash
           /\ sources'[j].chunks \subseteq sources[j].chunks
      /\ k = 0 \/ "delete" \in faults' \/ sources'[k].chunks = {}
  <2>1. TypeOK
    BY DEF OneInv
  <2> QED
    BY <2>1, FindEdits, SourceFields DEF Edits
<1>4. Current(r)' = Current(r)
  BY <1>1, Zenon DEF Current
<1>5. EntriesStay'
  BY <1>1, <1>2 DEF OneInv, EntriesStay, Listing, Bridging, After
<1>6. HoldsItsSource'
  BY <1>1, <1>3, <1>4, FoundIsOfItem DEF OneInv, HoldsItsSource
<1>7. OldChunksAreGone'
  BY <1>1, <1>3 DEF OldChunksAreGone, Spared
<1>8. OneSource' /\ ChunksAreCurrent'
  BY <1>2, <1>3 DEF OneInv, OneSource, ChunksAreCurrent, Spared
<1> QED
  BY <1>5, <1>6, <1>7, <1>8 DEF KeepsOne

LEMMA OneAdd ==
    ASSUME OneRunner, OneInv, NEW r \in Runner, AddSource(r)
    PROVE  KeepsOne
<1>1. /\ run'[r].pc = "chunks" /\ run'[r].conn = run[r].conn /\ run'[r].got = run[r].got
      /\ run'[r].todo = run[r].todo /\ run'[r].held = Len(sources) + 1
      /\ \A q \in Runner : q = r
  BY AddMoves DEF OneInv, OneRunner, Moves
<1>2. /\ run[r].pc = "save" /\ run[r].held = 0 /\ run[r].todo \subseteq Listed(run[r].got)
      /\ run[r].todo # {} /\ run[r].got[Current(r)] \in Text /\ UNCHANGED <<state, faults>>
  BY DEF OneInv, TypeOK, RunsOK, AddSource, At
<1>3. Current(r) \in Listed(run[r].got) /\ Len(sources) \in Nat
  BY <1>2, GoingOn DEF OneInv, TypeOK
<1>4. /\ DOMAIN sources' = 1..(Len(sources) + 1) /\ DOMAIN sources = 1..Len(sources)
      /\ \A j \in DOMAIN sources : sources'[j] = sources[j]
      /\ sources'[Len(sources) + 1].conn = run[r].conn
      /\ sources'[Len(sources) + 1].item = Current(r)
      /\ sources'[Len(sources) + 1].hash = run[r].got[Current(r)]
      /\ sources'[Len(sources) + 1].chunks = {}
  <2>1. TypeOK
    BY DEF OneInv
  <2>2. /\ DOMAIN sources' = 1..(Len(sources) + 1) /\ DOMAIN sources = 1..Len(sources)
        /\ \A j \in DOMAIN sources : sources'[j] = sources[j]
        /\ sources'[Len(sources) + 1] =
             [conn |-> run[r].conn, item |-> Current(r), hash |-> run[r].got[Current(r)],
              status |-> "parsed", chunks |-> {}, indexed |-> {}]
    BY <1>2, <2>1, AddEdits, Zenon
  <2> QED
    BY <2>2
<1>5. \A j \in DOMAIN sources' : j \in DOMAIN sources \/ j = Len(sources) + 1
  BY <1>3, <1>4
<1>6. Len(sources) + 1 \in DOMAIN sources'
  BY <1>3, <1>4
<1>7. Current(r)' = Current(r)
  BY <1>1, Zenon DEF Current
<1>8. EntriesStay' /\ state[run[r].conn][Current(r)] # NoEntry
  BY <1>1, <1>2, <1>3, ZenonT(40) DEF OneInv, EntriesStay, Listing, Bridging, After
<1>9. HoldsItsSource'
  BY <1>1, <1>4, <1>6, <1>7 DEF HoldsItsSource
<1>10. OldChunksAreGone'
  BY <1>1 DEF OldChunksAreGone
<1>11. \A j \in DOMAIN sources : ~ (sources[j].conn = run[r].conn /\ sources[j].item = Current(r))
  BY <1>2 DEF OneInv, HoldsItsSource
<1>12. OneSource'
  BY <1>2, <1>4, <1>5, <1>8, <1>11 DEF OneInv, OneSource
<1>13. ChunksAreCurrent'
  BY <1>2, <1>4, <1>5 DEF OneInv, ChunksAreCurrent, Spared
<1> QED
  BY <1>8, <1>9, <1>10, <1>12, <1>13 DEF KeepsOne

LEMMA OneSaveSource ==
    ASSUME OneRunner, OneInv, NEW r \in Runner, SaveSource(r)
    PROVE  KeepsOne
<1> DEFINE k == run[r].held
<1>1. /\ run'[r].pc = "chunks" /\ run'[r].conn = run[r].conn /\ run'[r].got = run[r].got
      /\ run'[r].todo = run[r].todo /\ run'[r].held = k
      /\ \A q \in Runner : q = r
  BY SaveSourceMoves DEF OneInv, OneRunner, Moves
<1>2. /\ run[r].pc = "save" /\ run[r].held # 0 /\ run[r].got[Current(r)] \in Text
      /\ UNCHANGED <<state, faults>>
  BY DEF OneInv, TypeOK, RunsOK, SaveSource, At
<1>3. /\ DOMAIN sources' = DOMAIN sources /\ k \in DOMAIN sources
      /\ \A j \in DOMAIN sources :
           /\ sources'[j].conn = sources[j].conn /\ sources'[j].item = sources[j].item
           /\ sources'[j].chunks = sources[j].chunks
           /\ j # k => sources'[j].hash = sources[j].hash
      /\ sources'[k].hash = run[r].got[Current(r)]
  BY <1>2, SaveEdits DEF OneInv, Edits
<1>4. Current(r)' = Current(r)
  BY <1>1, Zenon DEF Current
<1>5. EntriesStay'
  BY <1>1, <1>2 DEF OneInv, EntriesStay, Listing, Bridging, After
<1>6. HoldsItsSource'
  BY <1>1, <1>2, <1>3, <1>4 DEF OneInv, HoldsItsSource
<1>7. OldChunksAreGone'
  BY <1>1 DEF OldChunksAreGone
<1>8. OneSource'
  BY <1>2, <1>3 DEF OneInv, OneSource
<1>9. ChunksAreCurrent'
  BY <1>2, <1>3 DEF OneInv, OldChunksAreGone, ChunksAreCurrent, Spared
<1> QED
  BY <1>5, <1>6, <1>7, <1>8, <1>9 DEF KeepsOne

LEMMA OneSaveChunks ==
    ASSUME OneRunner, OneInv, NEW r \in Runner, SaveChunks(r)
    PROVE  KeepsOne
<1> DEFINE k == run[r].held
<1>1. /\ run'[r].pc = "bridge" /\ run'[r].conn = run[r].conn /\ run'[r].got = run[r].got
      /\ \A q \in Runner : q = r
  BY ChunksMoves DEF OneInv, OneRunner, Moves
<1>2. /\ run[r].pc = "chunks" /\ run[r].got[Current(r)] \in Text
      /\ UNCHANGED state /\ faults \subseteq faults'
  BY DEF OneInv, TypeOK, RunsOK, SaveChunks, At, NoFault, Fails
<1>3. k \in DOMAIN sources /\ sources[k].hash = run[r].got[Current(r)]
  BY <1>2 DEF OneInv, HoldsItsSource
<1>4. /\ DOMAIN sources' = DOMAIN sources
      /\ \A j \in DOMAIN sources :
           /\ sources'[j].conn = sources[j].conn /\ sources'[j].item = sources[j].item
           /\ sources'[j].hash = sources[j].hash
           /\ sources'[j].chunks \subseteq sources[j].chunks \cup {sources[j].hash}
  BY <1>2, <1>3, ChunksEdits DEF OneInv, Edits
<1>5. EntriesStay'
  BY <1>1, <1>2 DEF OneInv, EntriesStay, Listing, Bridging, After
<1>6. HoldsItsSource' /\ OldChunksAreGone'
  BY <1>1 DEF HoldsItsSource, OldChunksAreGone
<1>7. OneSource'
  BY <1>2, <1>4 DEF OneInv, OneSource
<1>8. ChunksAreCurrent'
  BY <1>2, <1>4 DEF OneInv, ChunksAreCurrent, Spared
<1> QED
  BY <1>5, <1>6, <1>7, <1>8 DEF KeepsOne

LEMMA OneFail ==
    ASSUME OneRunner, OneInv, NEW r \in Runner, ItemFails(r)
    PROVE  KeepsOne
<1>1. /\ run'[r].pc = "bridge" /\ run'[r].conn = run[r].conn /\ run'[r].got = run[r].got
      /\ \A q \in Runner : q = r
  BY FailMoves DEF OneInv, OneRunner, Moves
<1>2. run[r].pc \in {"save", "bridge"} /\ UNCHANGED <<state, sources>> /\ faults \subseteq faults'
  BY DEF ItemFails, Busy, At, Fails
<1>3. EntriesStay'
  BY <1>1, <1>2 DEF OneInv, EntriesStay, Listing, Bridging, After
<1> QED
  BY <1>1, <1>2, <1>3
     DEF OneInv, KeepsOne, HoldsItsSource, OldChunksAreGone, OneSource, ChunksAreCurrent, Spared

LEMMA OneIndex ==
    ASSUME OneRunner, OneInv, NEW r \in Runner, IndexChunks(r)
    PROVE  KeepsOne
<1>1. /\ run'[r].pc = "indexed" /\ run'[r].conn = run[r].conn /\ run'[r].got = run[r].got
      /\ \A q \in Runner : q = r
  BY IndexMoves DEF OneInv, OneRunner, Moves
<1>2. run[r].pc = "bridge" /\ UNCHANGED state /\ faults \subseteq faults'
  BY DEF IndexChunks, At, Fails, NoFault
<1>3. /\ DOMAIN sources' = DOMAIN sources
      /\ \A j \in DOMAIN sources :
           /\ sources'[j].conn = sources[j].conn /\ sources'[j].item = sources[j].item
           /\ sources'[j].hash = sources[j].hash /\ sources'[j].chunks = sources[j].chunks
  BY IndexEdits DEF OneInv
<1>4. EntriesStay'
  BY <1>1, <1>2 DEF OneInv, EntriesStay, Listing, Bridging, After
<1> QED
  BY <1>1, <1>2, <1>3, <1>4
     DEF OneInv, KeepsOne, HoldsItsSource, OldChunksAreGone, OneSource, ChunksAreCurrent, Spared

LEMMA OneReconcile ==
    ASSUME OneRunner, OneInv, NEW r \in Runner, Reconcile(r)
    PROVE  KeepsOne
<1>1. /\ run'[r].pc = "archive" /\ run'[r].conn = run[r].conn /\ run'[r].got = run[r].got
      /\ \A q \in Runner : q = r
  BY ReconcileMoves DEF OneInv, OneRunner, Moves
<1>2. run[r].pc = "indexed" /\ UNCHANGED <<state, sources, faults>>
  BY DEF Reconcile, At
<1>3. EntriesStay'
  BY <1>1, <1>2 DEF OneInv, EntriesStay, Listing, Bridging, After
<1> QED
  BY <1>1, <1>2, <1>3
     DEF OneInv, KeepsOne, HoldsItsSource, OldChunksAreGone, OneSource, ChunksAreCurrent, Spared

LEMMA OneArchive ==
    ASSUME OneRunner, OneInv, NEW r \in Runner, Archive(r)
    PROVE  KeepsOne
<1>1. /\ run'[r].pc = "archive" /\ run'[r].conn = run[r].conn /\ run'[r].got = run[r].got
      /\ \A q \in Runner : q = r
  BY ArchiveMoves DEF OneInv, OneRunner, Moves
<1>2. run[r].pc = "archive" /\ UNCHANGED <<state, faults>>
  BY DEF Archive, Busy, At
<1>3. /\ DOMAIN sources' = DOMAIN sources
      /\ \A j \in DOMAIN sources :
           /\ sources'[j].conn = sources[j].conn /\ sources'[j].item = sources[j].item
           /\ sources'[j].hash = sources[j].hash /\ sources'[j].chunks = sources[j].chunks
  BY ArchiveEdits DEF OneInv, Edits
<1>4. EntriesStay'
  BY <1>1, <1>2 DEF OneInv, EntriesStay, Listing, Bridging, After
<1> QED
  BY <1>1, <1>2, <1>3, <1>4
     DEF OneInv, KeepsOne, HoldsItsSource, OldChunksAreGone, OneSource, ChunksAreCurrent, Spared

LEMMA OneArchiveFails ==
    ASSUME OneRunner, OneInv, NEW r \in Runner, ArchiveFails(r)
    PROVE  KeepsOne
<1>1. /\ run'[r].pc = "archive" /\ run'[r].conn = run[r].conn /\ run'[r].got = run[r].got
      /\ \A q \in Runner : q = r
  BY ArchiveFailsMoves DEF OneInv, OneRunner, Moves
<1>2. run[r].pc = "archive" /\ UNCHANGED <<state, sources>> /\ faults \subseteq faults'
  BY DEF ArchiveFails, Busy, At, Fails
<1>3. EntriesStay'
  BY <1>1, <1>2 DEF OneInv, EntriesStay, Listing, Bridging, After
<1> QED
  BY <1>1, <1>2, <1>3
     DEF OneInv, KeepsOne, HoldsItsSource, OldChunksAreGone, OneSource, ChunksAreCurrent, Spared

\* A thread that is idle, or about to fetch, promises nothing yet.
LEMMA OneRests ==
    ASSUME OneInv, UNCHANGED <<state, sources>>, faults \subseteq faults',
           \A q \in Runner : run'[q].pc \in {"idle", "fetch"}
    PROVE  KeepsOne
BY DEF OneInv, KeepsOne, EntriesStay, HoldsItsSource, OldChunksAreGone, OneSource,
       ChunksAreCurrent, Spared, Listing, Bridging, After

LEMMA OneStart == Init => OneInv
<1>1. Init => TypeOK
  BY TypeStart
<1>2. Init => sources = <<>> /\ \A r \in Runner : run[r].pc = "idle"
  BY DEF Init, Idle
<1> QED
  BY <1>1, <1>2 DEF OneInv, EntriesStay, HoldsItsSource, OldChunksAreGone, OneSource,
       ChunksAreCurrent, Listing, Bridging, After

LEMMA OneStep ==
    ASSUME OneRunner, OneInv, [Next]_vars
    PROVE  OneInv'
<1>1. TypeOK'
  BY TypeStep DEF OneInv
<1>2. ASSUME NEW r \in Runner, Syncs(r) PROVE KeepsOne
  <2>1. CASE FinishSync(r)
    <3>1. \A q \in Runner : run'[q].pc = "idle"
      BY <2>1 DEF FinishSync, OneRunner, OneInv, TypeOK, Idle
    <3> QED
      BY <2>1, <3>1, OneRests DEF FinishSync
  <2>2. CASE SyncFails(r)
    <3>1. \A q \in Runner : run'[q].pc = "idle"
      BY <2>2 DEF SyncFails, OneRunner, OneInv, TypeOK, Idle
    <3> QED
      BY <2>2, <3>1, OneRests DEF SyncFails, Fails
  <2> QED
    BY <1>2, <2>1, <2>2, OneFetch, OneLoad, OneSaveState, OneCall, OneSkip, OneFind, OneAdd,
       OneSaveSource, OneSaveChunks, OneFail, OneIndex, OneReconcile, OneArchive,
       OneArchiveFails DEF Syncs
<1>3. ASSUME NEW r \in Runner, NEW c \in Conn, StartSync(r, c) PROVE KeepsOne
  <2>1. \A q \in Runner : run'[q].pc = "fetch"
    BY <1>3 DEF StartSync, OneRunner, OneInv, TypeOK
  <2> QED
    BY <1>3, <2>1, OneRests DEF StartSync
<1>4. ASSUME NEW c \in Conn, NEW i \in Item, NEW text \in Text \cup {Gone}, Change(c, i, text)
      PROVE  KeepsOne
  <2>1. UNCHANGED <<state, sources, run>> /\ faults \subseteq faults'
    BY <1>4 DEF Change, NoFault, Fails
  <2> QED
    BY <2>1 DEF OneInv, KeepsOne, EntriesStay, HoldsItsSource, OldChunksAreGone, OneSource,
       ChunksAreCurrent, Spared, Current
<1>5. ASSUME Crash PROVE KeepsOne
  <2>1. \A q \in Runner : run'[q].pc = "idle"
    BY <1>5 DEF Crash, Idle
  <2> QED
    BY <1>5, <2>1, OneRests DEF Crash, Fails
<1>6. ASSUME UNCHANGED vars PROVE KeepsOne
  BY <1>6 DEF vars, OneInv, KeepsOne, EntriesStay, HoldsItsSource, OldChunksAreGone, OneSource,
       ChunksAreCurrent, Spared, Current
<1> QED
  BY <1>1, <1>2, <1>3, <1>4, <1>5, <1>6 DEF Next, OneInv, KeepsOne

\* An item has one data source, and the sync state knows the item, whatever fails
\* and wherever the process dies, while one sync runs at a time
\* (persist_connector_content, mark_seen).
THEOREM OneSourceHolds == OneRunner => (Spec => []OneSource)
<1> SUFFICES ASSUME OneRunner PROVE Spec => []OneSource
  OBVIOUS
<1>1. OneInv => OneSource
  BY DEF OneInv
<1>2. OneInv /\ [Next]_vars => OneInv'
  BY OneStep
<1> QED
  BY <1>1, <1>2, OneStart, PTL DEF Spec

\* The chunks of a source are those of the content it has, unless deleting the old
\* ones failed, while one sync runs at a time (persist_connector_content).
THEOREM ChunksAreCurrentHolds == OneRunner => (Spec => []ChunksAreCurrent)
<1> SUFFICES ASSUME OneRunner PROVE Spec => []ChunksAreCurrent
  OBVIOUS
<1>1. OneInv => ChunksAreCurrent
  BY DEF OneInv
<1>2. OneInv /\ [Next]_vars => OneInv'
  BY OneStep
<1> QED
  BY <1>1, <1>2, OneStart, PTL DEF Spec

-----------------------------------------------------------------------------
(* What was synced is held                                                 *)

\* Item i of connector c has a source with content t, if that is content at all.
HasSource(c, i, t) ==
    t = Empty \/ \E k \in DOMAIN sources : /\ sources[k].conn = c /\ sources[k].item = i
                                           /\ sources[k].hash = t

\* Runner r is writing source k, or has parsed it and not indexed it.
Writes(r, k) == run[r].pc \in {"save", "chunks"} /\ k = run[r].held
Parsed(r, k) == run[r].pc \in Bridging /\ k \in run[r].parsed

\* A source has the chunks of its content, and they are in the index or will be.
SourcesAreWhole ==
    \A k \in DOMAIN sources :
        \/ \E r \in Runner : Writes(r, k)
        \/ /\ sources[k].hash \in sources[k].chunks
           /\ \/ sources[k].hash \in sources[k].indexed
              \/ \E r \in Runner : Parsed(r, k)

\* What was parsed is of this sync, and the loop is past it.
ParsedIsDone ==
    \A r \in Runner : run[r].pc \in Bridging => \A k \in run[r].parsed :
        /\ k \in DOMAIN sources /\ sources[k].conn = run[r].conn
        /\ sources[k].item \notin run[r].todo
        /\ run[r].got[sources[k].item] = sources[k].hash

\* Between syncs, the content a sync-state file names has a source, and the file
\* knows what the last sync listed.
EntriesAreHeld ==
    \A c \in Conn : Quiet(c) => \A i \in Item :
        /\ state[c][i] # NoEntry => HasSource(c, i, state[c][i].hash)
        /\ synced[c][i] # Gone => state[c][i] # NoEntry /\ state[c][i].hash = synced[c][i]

\* So does what a sync knows of earlier ones, until the bridge is called.
KnownIsHeld ==
    \A r \in Runner :
      /\ run[r].pc = "fetch" => run[r].prev = state[run[r].conn]
      /\ run[r].pc \in {"fetch"} \cup Listing => \A i \in Item :
           run[r].prev[i] # NoEntry => HasSource(run[r].conn, i, run[r].prev[i].hash)

\* The file has the content of all that was listed and gone through, and of the
\* other items what it had.
SeenIsOnFile ==
    \A r \in Runner : run[r].pc \in Listing \cup Bridging \cup After =>
      LET c == run[r].conn
      IN \A i \in Item :
           /\ run[r].got[i] = Gone =>
                /\ state[c][i].hash = run[r].prev[i].hash
                /\ state[c][i] # NoEntry => run[r].prev[i] # NoEntry
           /\ run[r].got[i] # Gone /\ ~(run[r].pc \in Listing /\ i \in run[r].todo) =>
                state[c][i].hash = run[r].got[i]

\* What the bridge went through has a source with the content listed, and what it
\* does not go through still has one.
SeenIsHeld ==
    \A r \in Runner : run[r].pc \in Bridging \cup After =>
      \A i \in Item :
        /\ run[r].got[i] = Gone /\ run[r].prev[i] # NoEntry =>
             HasSource(run[r].conn, i, run[r].prev[i].hash)
        /\ run[r].got[i] # Gone /\ ~(run[r].pc \in Bridging /\ i \in run[r].todo) =>
             HasSource(run[r].conn, i, run[r].got[i])

AllIsHeld ==
    /\ SourcesAreWhole /\ ParsedIsDone /\ EntriesAreHeld
    /\ KnownIsHeld /\ SeenIsOnFile /\ SeenIsHeld

SyncInv == Spared({"state", "save", "index", "crash"}) => AllIsHeld

\* Every source keeps its item and content.
SourcesStay ==
    \A k \in DOMAIN sources :
        /\ k \in DOMAIN sources'
        /\ sources'[k].conn = sources[k].conn /\ sources'[k].item = sources[k].item
        /\ sources'[k].hash = sources[k].hash

LEMMA HeldStays ==
    ASSUME SourcesStay
    PROVE  \A c, i, t : HasSource(c, i, t) => HasSource(c, i, t)'
BY DEF SourcesStay, HasSource

\* A runner that goes on with its sync leaves the others' connectors alone.
LEMMA OthersHeld ==
    ASSUME OneRunner, AllIsHeld, NEW r \in Runner,
           run[r].pc # "idle", run'[r].pc # "idle", run'[r].conn = run[r].conn,
           \A c \in Conn \ {run[r].conn} : state'[c] = state[c],
           \A c, i, t : c # run[r].conn /\ HasSource(c, i, t) => HasSource(c, i, t)',
           UNCHANGED synced
    PROVE  EntriesAreHeld'
<1>1. \A c \in Conn : Quiet(c)' => c # run[r].conn /\ Quiet(c)
  BY DEF Quiet, At, ConnOf, OneRunner
<1> QED
  BY <1>1 DEF AllIsHeld, EntriesAreHeld

LEMMA HeldFetch ==
    ASSUME OneRunner, OneInv, AllIsHeld, NEW r \in Runner, FetchAll(r)
    PROVE  AllIsHeld'
<1>1. /\ run'[r].pc = "mark" /\ run'[r].conn = run[r].conn /\ run'[r].prev = run[r].prev
      /\ run'[r].todo = Listed(run'[r].got) \cup Vanished(run[r].prev, run'[r].got)
      /\ \A q \in Runner : q = r
  BY FetchMoves DEF OneInv, OneRunner
<1>2. run[r].pc = "fetch" /\ UNCHANGED <<state, sources, synced>>
  BY DEF FetchAll, At
<1>3. SourcesAreWhole'
  BY <1>1, <1>2 DEF AllIsHeld, SourcesAreWhole, Writes, Parsed, Bridging
<1>4. ParsedIsDone'
  BY <1>1 DEF ParsedIsDone, Bridging
<1>5. \A c, i, t : HasSource(c, i, t) => HasSource(c, i, t)'
  BY <1>2 DEF HasSource
<1>6. EntriesAreHeld'
  BY <1>1, <1>2, <1>5, OthersHeld
<1>7. KnownIsHeld'
  BY <1>1, <1>2, <1>5 DEF AllIsHeld, KnownIsHeld, Listing
<1>8. run[r].prev = state[run[r].conn]
  BY <1>2 DEF AllIsHeld, KnownIsHeld
<1>9. SeenIsOnFile'
  BY <1>1, <1>2, <1>8 DEF SeenIsOnFile, Listing, Bridging, After, Listed
<1>10. SeenIsHeld'
  BY <1>1 DEF SeenIsHeld, Bridging, After
<1> QED
  BY <1>3, <1>4, <1>6, <1>7, <1>9, <1>10 DEF AllIsHeld

LEMMA HeldLoad ==
    ASSUME OneRunner, OneInv, AllIsHeld, NEW r \in Runner, LoadState(r)
    PROVE  AllIsHeld'
<1>1. /\ run'[r].pc = "write" /\ run'[r].conn = run[r].conn /\ run'[r].prev = run[r].prev
      /\ run'[r].todo = run[r].todo /\ run'[r].got = run[r].got
      /\ \A q \in Runner : q = r
  BY LoadMoves DEF OneInv, OneRunner, Moves
<1>2. run[r].pc = "mark" /\ UNCHANGED <<state, sources, synced>>
  BY DEF LoadState, Busy, At
<1>3. SourcesAreWhole'
  BY <1>1, <1>2 DEF AllIsHeld, SourcesAreWhole, Writes, Parsed, Bridging
<1>4. ParsedIsDone'
  BY <1>1 DEF ParsedIsDone, Bridging
<1>5. \A c, i, t : HasSource(c, i, t) => HasSource(c, i, t)'
  BY <1>2 DEF HasSource
<1>6. EntriesAreHeld'
  BY <1>1, <1>2, <1>5, OthersHeld
<1>7. KnownIsHeld'
  BY <1>1, <1>2, <1>5 DEF AllIsHeld, KnownIsHeld, Listing
<1>8. SeenIsOnFile'
  BY <1>1, <1>2 DEF AllIsHeld, SeenIsOnFile, Listing, Bridging, After
<1>9. SeenIsHeld'
  BY <1>1 DEF SeenIsHeld, Bridging, After
<1> QED
  BY <1>3, <1>4, <1>6, <1>7, <1>8, <1>9 DEF AllIsHeld

LEMMA HeldSaveState ==
    ASSUME OneRunner, OneInv, AllIsHeld, NEW r \in Runner, SaveState(r)
    PROVE  AllIsHeld'
<1> DEFINE c == run[r].conn
           i == Current(r)
           hash == run[r].got[i]
<1>1. /\ run'[r].pc = "mark" /\ run'[r].conn = run[r].conn /\ run'[r].prev = run[r].prev
      /\ run'[r].todo = Left(r) /\ run'[r].got = run[r].got
      /\ \A q \in Runner : q = r
  BY SaveStateMoves DEF OneInv, OneRunner, Moves
<1>2. run[r].pc = "write" /\ UNCHANGED <<sources, synced>>
  BY DEF SaveState, At
<1>3. run[r].held = state[c]
  BY <1>2 DEF OneInv, EntriesStay
<1>4. /\ c \in Conn /\ i \in Item /\ i \in run[r].todo
      /\ \A d \in Conn \ {c} : state'[d] = state[d]
      /\ \/ hash = Gone /\ state[c][i] = NoEntry /\ state'[c] = state[c]
         \/ /\ hash # Gone \/ state[c][i] # NoEntry
            /\ \A j \in Item \ {i} : state'[c][j] = state[c][j]
            /\ hash # Gone =>
                 state'[c][i] = [hash |-> hash, status |-> Compared(run[r].prev[i], hash)]
            /\ hash = Gone =>
                 state'[c][i] = [hash |-> state[c][i].hash, status |-> "deleted_remote"]
  BY <1>3, SavedState, ZenonT(40) DEF OneInv
<1>5. SourcesAreWhole'
  BY <1>1, <1>2 DEF AllIsHeld, SourcesAreWhole, Writes, Parsed, Bridging
<1>6. ParsedIsDone'
  BY <1>1 DEF ParsedIsDone, Bridging
<1>7. \A d, j, t : HasSource(d, j, t) => HasSource(d, j, t)'
  BY <1>2 DEF HasSource
<1>8. EntriesAreHeld'
  BY <1>1, <1>2, <1>4, <1>7, OthersHeld
<1>9. KnownIsHeld'
  BY <1>1, <1>2, <1>7 DEF AllIsHeld, KnownIsHeld, Listing
<1>10. SeenIsOnFile'
  <2>1. \A j \in Item :
          /\ run[r].got[j] = Gone =>
               /\ state[c][j].hash = run[r].prev[j].hash
               /\ state[c][j] # NoEntry => run[r].prev[j] # NoEntry
          /\ run[r].got[j] # Gone /\ j \notin run[r].todo =>
               state[c][j].hash = run[r].got[j]
    BY <1>2 DEF AllIsHeld, SeenIsOnFile, Listing
  <2> HIDE DEF c, i, hash
  <2>2. /\ \A j \in Item \ {i} : state'[c][j] = state[c][j]
        /\ hash # Gone => state'[c][i].hash = hash
        /\ hash = Gone => /\ state'[c][i].hash = state[c][i].hash
                          /\ state'[c][i] # NoEntry => state[c][i] # NoEntry
    BY <1>4
  <2>3. \A j \in Item :
          /\ run[r].got[j] = Gone =>
               /\ state'[c][j].hash = run[r].prev[j].hash
               /\ state'[c][j] # NoEntry => run[r].prev[j] # NoEntry
          /\ run[r].got[j] # Gone /\ j \notin Left(r) =>
               state'[c][j].hash = run[r].got[j]
    BY <2>1, <2>2 DEF Left, i, hash
  <2> QED
    BY <1>1, <2>3 DEF SeenIsOnFile, Listing, Bridging, After, c
<1>11. SeenIsHeld'
  BY <1>1 DEF SeenIsHeld, Bridging, After
<1> QED
  BY <1>5, <1>6, <1>8, <1>9, <1>10, <1>11 DEF AllIsHeld

LEMMA HeldCall ==
    ASSUME OneRunner, OneInv, AllIsHeld, NEW r \in Runner, CallBridge(r)
    PROVE  AllIsHeld'
<1>1. /\ run'[r].pc = "bridge" /\ run'[r].conn = run[r].conn /\ run'[r].prev = run[r].prev
      /\ run'[r].got = run[r].got /\ run'[r].parsed = {}
      /\ run'[r].todo = IF AnyNews(run[r].prev, run[r].got) THEN Listed(run[r].got) ELSE {}
      /\ \A q \in Runner : q = r
  BY CallMoves DEF OneInv, OneRunner, Moves
<1>2. run[r].pc = "mark" /\ run[r].todo = {} /\ UNCHANGED <<state, sources, synced>>
  BY DEF CallBridge, At
<1>3. SourcesAreWhole'
  BY <1>1, <1>2 DEF AllIsHeld, SourcesAreWhole, Writes, Parsed, Bridging
<1>4. ParsedIsDone'
  BY <1>1 DEF ParsedIsDone
<1>5. \A c, i, t : HasSource(c, i, t) => HasSource(c, i, t)'
  BY <1>2 DEF HasSource
<1>6. EntriesAreHeld'
  BY <1>1, <1>2, <1>5, OthersHeld
<1>7. KnownIsHeld'
  BY <1>1 DEF KnownIsHeld, Listing
<1>8. SeenIsOnFile'
  BY <1>1, <1>2 DEF AllIsHeld, SeenIsOnFile, Listing, Bridging, After
<1>9. \A i \in Item : run[r].prev[i] # NoEntry => HasSource(run[r].conn, i, run[r].prev[i].hash)
  BY <1>2 DEF AllIsHeld, KnownIsHeld, Listing
<1>10. ASSUME ~AnyNews(run[r].prev, run[r].got)
       PROVE  \A i \in Listed(run[r].got) :
                run[r].prev[i] # NoEntry /\ run[r].prev[i].hash = run[r].got[i]
  BY <1>10 DEF AnyNews, Compared
<1>11. SeenIsHeld'
  BY <1>1, <1>5, <1>9, <1>10 DEF SeenIsHeld, Bridging, After, Listed
<1> QED
  BY <1>3, <1>4, <1>6, <1>7, <1>8, <1>11 DEF AllIsHeld

LEMMA HeldSkip ==
    ASSUME OneRunner, OneInv, AllIsHeld, NEW r \in Runner, SkipItem(r)
    PROVE  AllIsHeld'
<1> DEFINE i == Current(r)
<1>1. /\ run'[r].pc = "bridge" /\ run'[r].conn = run[r].conn /\ run'[r].prev = run[r].prev
      /\ run'[r].got = run[r].got /\ run'[r].parsed = run[r].parsed
      /\ run'[r].todo = run[r].todo \ {i}
      /\ \A q \in Runner : q = r
  BY SkipMoves DEF OneInv, OneRunner, Moves, Left
<1>2. run[r].pc = "bridge" /\ UNCHANGED <<state, sources, synced>>
  BY DEF SkipItem, Busy, At
<1>3. SourcesAreWhole'
  BY <1>1, <1>2 DEF AllIsHeld, SourcesAreWhole, Writes, Parsed, Bridging
<1>4. ParsedIsDone'
  BY <1>1, <1>2 DEF AllIsHeld, ParsedIsDone, Bridging
<1>5. \A c, j, t : HasSource(c, j, t) => HasSource(c, j, t)'
  BY <1>2 DEF HasSource
<1>6. EntriesAreHeld'
  BY <1>1, <1>2, <1>5, OthersHeld
<1>7. KnownIsHeld'
  BY <1>1 DEF KnownIsHeld, Listing
<1>8. SeenIsOnFile'
  BY <1>1, <1>2 DEF AllIsHeld, SeenIsOnFile, Listing, Bridging, After
<1>9. HasSource(run[r].conn, i, run[r].got[i])
  <2>1. \/ run[r].got[i] = Empty
        \/ /\ Found(run[r].conn, i) # 0
           /\ sources[Found(run[r].conn, i)].hash = run[r].got[i]
    BY Zenon DEF SkipItem, ConnOf
  <2> QED
    BY <2>1, FoundIsOfItem DEF OneInv, HasSource
<1>10. SeenIsHeld'
  BY <1>1, <1>2, <1>5, <1>9 DEF AllIsHeld, SeenIsHeld, Bridging, After
<1> QED
  BY <1>3, <1>4, <1>6, <1>7, <1>8, <1>10 DEF AllIsHeld

LEMMA HeldFind ==
    ASSUME OneRunner, OneInv, AllIsHeld, NEW r \in Runner, FindSource(r)
    PROVE  AllIsHeld'
<1> DEFINE k == Found(run[r].conn, Current(r))
<1>1. /\ run'[r].pc = "save" /\ run'[r].conn = run[r].conn /\ run'[r].prev = run[r].prev
      /\ run'[r].got = run[r].got /\ run'[r].parsed = run[r].parsed
      /\ run'[r].todo = run[r].todo /\ run'[r].held = k
      /\ \A q \in Runner : q = r
  BY FindMoves DEF OneInv, OneRunner, Moves
<1>2. run[r].pc = "bridge" /\ UNCHANGED <<state, synced>>
  BY DEF FindSource, Busy, At
<1>3. /\ DOMAIN sources' = DOMAIN sources
      /\ \A j \in DOMAIN sources :
           /\ sources'[j].conn = sources[j].conn /\ sources'[j].item = sources[j].item
           /\ sources'[j].hash = sources[j].hash /\ sources'[j].indexed = sources[j].indexed
           /\ j # k => sources'[j].chunks = sources[j].chunks
  BY FindEdits DEF OneInv, Edits
<1>4. SourcesAreWhole'
  BY <1>1, <1>2, <1>3 DEF AllIsHeld, SourcesAreWhole, Writes, Parsed, Bridging
<1>5. ParsedIsDone'
  BY <1>1, <1>2, <1>3 DEF AllIsHeld, ParsedIsDone, Bridging
<1>6. \A c, i, t : HasSource(c, i, t) => HasSource(c, i, t)'
  BY <1>3, HeldStays DEF SourcesStay
<1>7. EntriesAreHeld'
  BY <1>1, <1>2, <1>6, OthersHeld
<1>8. KnownIsHeld'
  BY <1>1 DEF KnownIsHeld, Listing
<1>9. SeenIsOnFile'
  BY <1>1, <1>2 DEF AllIsHeld, SeenIsOnFile, Listing, Bridging, After
<1>10. SeenIsHeld'
  BY <1>1, <1>2, <1>6 DEF AllIsHeld, SeenIsHeld, Bridging, After
<1> QED
  BY <1>4, <1>5, <1>7, <1>8, <1>9, <1>10 DEF AllIsHeld

LEMMA HeldAdd ==
    ASSUME OneRunner, OneInv, AllIsHeld, NEW r \in Runner, AddSource(r)
    PROVE  AllIsHeld'
<1>1. /\ run'[r].pc = "chunks" /\ run'[r].conn = run[r].conn /\ run'[r].prev = run[r].prev
      /\ run'[r].got = run[r].got /\ run'[r].parsed = run[r].parsed
      /\ run'[r].todo = run[r].todo /\ run'[r].held = Len(sources) + 1
      /\ \A q \in Runner : q = r
  BY AddMoves DEF OneInv, OneRunner, Moves
<1>2. /\ run[r].pc = "save" /\ run[r].held = 0 /\ run[r].got[Current(r)] \in Text
      /\ UNCHANGED <<state, synced>> /\ Len(sources) \in Nat
  BY DEF OneInv, TypeOK, RunsOK, AddSource, At
<1>3. /\ DOMAIN sources' = 1..(Len(sources) + 1) /\ DOMAIN sources = 1..Len(sources)
      /\ \A j \in DOMAIN sources : sources'[j] = sources[j]
  BY <1>2, AddEdits, Zenon DEF OneInv
<1>4. /\ \A j \in DOMAIN sources' : j \in DOMAIN sources \/ j = Len(sources) + 1
      /\ \A j \in DOMAIN sources : j \in DOMAIN sources' /\ j # 0 /\ j # Len(sources) + 1
  BY <1>2, <1>3
<1>5. SourcesAreWhole'
  BY <1>1, <1>2, <1>3, <1>4 DEF AllIsHeld, SourcesAreWhole, Writes, Parsed, Bridging
<1>6. ParsedIsDone'
  BY <1>1, <1>2, <1>3, <1>4 DEF AllIsHeld, ParsedIsDone, Bridging
<1>7. \A c, i, t : HasSource(c, i, t) => HasSource(c, i, t)'
  BY <1>3, <1>4, HeldStays DEF SourcesStay
<1>8. EntriesAreHeld'
  BY <1>1, <1>2, <1>7, OthersHeld
<1>9. KnownIsHeld'
  BY <1>1 DEF KnownIsHeld, Listing
<1>10. SeenIsOnFile'
  BY <1>1, <1>2 DEF AllIsHeld, SeenIsOnFile, Listing, Bridging, After
<1>11. SeenIsHeld'
  BY <1>1, <1>2, <1>7 DEF AllIsHeld, SeenIsHeld, Bridging, After
<1> QED
  BY <1>5, <1>6, <1>8, <1>9, <1>10, <1>11 DEF AllIsHeld

LEMMA HeldSaveSource ==
    ASSUME OneRunner, OneInv, AllIsHeld, NEW r \in Runner, SaveSource(r)
    PROVE  AllIsHeld'
<1> DEFINE k == run[r].held
           i == Current(r)
<1>1. /\ run'[r].pc = "chunks" /\ run'[r].conn = run[r].conn /\ run'[r].prev = run[r].prev
      /\ run'[r].got = run[r].got /\ run'[r].parsed = run[r].parsed
      /\ run'[r].todo = run[r].todo /\ run'[r].held = k
      /\ \A q \in Runner : q = r
  BY SaveSourceMoves DEF OneInv, OneRunner, Moves
<1>2. /\ run[r].pc = "save" /\ k # 0 /\ run[r].got[i] \in Text /\ i \in run[r].todo
      /\ run[r].todo \subseteq Listed(run[r].got) /\ UNCHANGED <<state, synced>>
  <2>1. /\ run[r].pc = "save" /\ k # 0 /\ run[r].got[i] \in Text /\ run[r].todo # {}
        /\ run[r].todo \subseteq Listed(run[r].got) /\ UNCHANGED <<state, synced>>
    BY DEF OneInv, TypeOK, RunsOK, SaveSource, At
  <2> QED
    BY <2>1, GoingOn DEF OneInv
<1>3. k \in DOMAIN sources /\ sources[k].conn = run[r].conn /\ sources[k].item = i
  BY <1>2 DEF OneInv, HoldsItsSource
<1>4. /\ DOMAIN sources' = DOMAIN sources
      /\ \A j \in DOMAIN sources :
           /\ sources'[j].conn = sources[j].conn /\ sources'[j].item = sources[j].item
           /\ sources'[j].chunks = sources[j].chunks /\ sources'[j].indexed = sources[j].indexed
           /\ j # k => sources'[j].hash = sources[j].hash
  BY <1>2, SaveEdits DEF OneInv, Edits
<1>5. SourcesAreWhole'
  BY <1>1, <1>2, <1>4 DEF AllIsHeld, SourcesAreWhole, Writes, Parsed, Bridging
<1>6. ParsedIsDone'
  BY <1>1, <1>2, <1>3, <1>4 DEF AllIsHeld, ParsedIsDone, Bridging
<1>7. \A c, j, t : (c # run[r].conn \/ j # i) /\ HasSource(c, j, t) => HasSource(c, j, t)'
  BY <1>3, <1>4 DEF HasSource
<1>8. EntriesAreHeld'
  BY <1>1, <1>2, <1>7, OthersHeld
<1>9. KnownIsHeld'
  BY <1>1 DEF KnownIsHeld, Listing
<1>10. SeenIsOnFile'
  BY <1>1, <1>2 DEF AllIsHeld, SeenIsOnFile, Listing, Bridging, After
<1>11. SeenIsHeld'
  <2>1. run[r].got[i] # Gone
    BY <1>2 DEF Listed
  <2> QED
    BY <1>1, <1>2, <1>7, <2>1 DEF AllIsHeld, SeenIsHeld, Bridging, After
<1> QED
  BY <1>5, <1>6, <1>8, <1>9, <1>10, <1>11 DEF AllIsHeld

LEMMA HeldSaveChunks ==
    ASSUME OneRunner, OneInv, AllIsHeld, NEW r \in Runner, SaveChunks(r), "save" \notin faults'
    PROVE  AllIsHeld'
<1> DEFINE k == run[r].held
           i == Current(r)
<1>1. /\ run'[r].pc = "bridge" /\ run'[r].conn = run[r].conn /\ run'[r].prev = run[r].prev
      /\ run'[r].got = run[r].got /\ run'[r].parsed = run[r].parsed \cup {k}
      /\ run'[r].todo = run[r].todo \ {i}
      /\ \A q \in Runner : q = r
  BY ChunksMoves DEF OneInv, OneRunner, Moves, Left
<1>2. /\ run[r].pc = "chunks" /\ run[r].got[i] \in Text /\ UNCHANGED <<state, synced>>
  BY DEF OneInv, TypeOK, RunsOK, SaveChunks, At
<1>3. /\ k \in DOMAIN sources /\ sources[k].conn = run[r].conn /\ sources[k].item = i
      /\ sources[k].hash = run[r].got[i]
  BY <1>2 DEF OneInv, HoldsItsSource
<1>4. /\ DOMAIN sources' = DOMAIN sources
      /\ \A j \in DOMAIN sources :
           /\ sources'[j].conn = sources[j].conn /\ sources'[j].item = sources[j].item
           /\ sources'[j].hash = sources[j].hash /\ sources'[j].indexed = sources[j].indexed
           /\ j # k => sources'[j].chunks = sources[j].chunks
      /\ sources[k].hash \in sources'[k].chunks
  BY <1>2, <1>3, ChunksEdits DEF OneInv, Edits
<1>5. SourcesAreWhole'
  BY <1>1, <1>2, <1>4 DEF AllIsHeld, SourcesAreWhole, Writes, Parsed, Bridging
<1>6. ParsedIsDone'
  BY <1>1, <1>2, <1>3, <1>4 DEF AllIsHeld, ParsedIsDone, Bridging
<1>7. \A c, j, t : HasSource(c, j, t) => HasSource(c, j, t)'
  BY <1>4, HeldStays DEF SourcesStay
<1>8. EntriesAreHeld'
  BY <1>1, <1>2, <1>7, OthersHeld
<1>9. KnownIsHeld'
  BY <1>1 DEF KnownIsHeld, Listing
<1>10. SeenIsOnFile'
  BY <1>1, <1>2 DEF AllIsHeld, SeenIsOnFile, Listing, Bridging, After
<1>11. HasSource(run[r].conn, i, run[r].got[i])
  BY <1>3 DEF HasSource
<1>12. SeenIsHeld'
  BY <1>1, <1>2, <1>7, <1>11 DEF AllIsHeld, SeenIsHeld, Bridging, After
<1> QED
  BY <1>5, <1>6, <1>8, <1>9, <1>10, <1>12 DEF AllIsHeld

LEMMA HeldIndex ==
    ASSUME OneRunner, OneInv, AllIsHeld, NEW r \in Runner, IndexChunks(r), "index" \notin faults'
    PROVE  AllIsHeld'
<1>1. /\ run'[r].pc = "indexed" /\ run'[r].conn = run[r].conn /\ run'[r].prev = run[r].prev
      /\ run'[r].got = run[r].got /\ \A q \in Runner : q = r
  BY IndexMoves DEF OneInv, OneRunner, Moves
<1>2. run[r].pc = "bridge" /\ run[r].todo = {} /\ UNCHANGED <<state, synced>>
  BY DEF IndexChunks, At
<1>3. /\ DOMAIN sources' = DOMAIN sources
      /\ \A j \in DOMAIN sources :
           /\ sources'[j].conn = sources[j].conn /\ sources'[j].item = sources[j].item
           /\ sources'[j].hash = sources[j].hash /\ sources'[j].chunks = sources[j].chunks
           /\ sources[j].indexed \subseteq sources'[j].indexed
           /\ j \in run[r].parsed => run[r].got[sources[j].item] \in sources'[j].indexed
  BY IndexEdits DEF OneInv
<1>4. \A j \in run[r].parsed : run[r].got[sources[j].item] = sources[j].hash
  BY <1>2 DEF AllIsHeld, ParsedIsDone, Bridging
<1>5. \A j \in DOMAIN sources :
        /\ sources[j].hash \in sources[j].chunks
        /\ sources[j].hash \in sources[j].indexed \/ j \in run[r].parsed
  BY <1>1, <1>2 DEF AllIsHeld, SourcesAreWhole, Writes, Parsed
<1>6. \A j \in DOMAIN sources' :
        sources'[j].hash \in sources'[j].chunks /\ sources'[j].hash \in sources'[j].indexed
  BY <1>3, <1>4, <1>5
<1>7. SourcesAreWhole'
  BY <1>6 DEF SourcesAreWhole
<1>8. ParsedIsDone'
  BY <1>1 DEF ParsedIsDone, Bridging
<1>9. \A c, i, t : HasSource(c, i, t) => HasSource(c, i, t)'
  BY <1>3, HeldStays DEF SourcesStay
<1>10. EntriesAreHeld'
  BY <1>1, <1>2, <1>9, OthersHeld
<1>11. KnownIsHeld'
  BY <1>1 DEF KnownIsHeld, Listing
<1>12. SeenIsOnFile'
  BY <1>1, <1>2 DEF AllIsHeld, SeenIsOnFile, Listing, Bridging, After
<1>13. SeenIsHeld'
  BY <1>1, <1>2, <1>9 DEF AllIsHeld, SeenIsHeld, Bridging, After
<1> QED
  BY <1>7, <1>8, <1>10, <1>11, <1>12, <1>13 DEF AllIsHeld

LEMMA HeldReconcile ==
    ASSUME OneRunner, OneInv, AllIsHeld, NEW r \in Runner, Reconcile(r)
    PROVE  AllIsHeld'
<1>1. /\ run'[r].pc = "archive" /\ run'[r].conn = run[r].conn /\ run'[r].prev = run[r].prev
      /\ run'[r].got = run[r].got /\ \A q \in Runner : q = r
  BY ReconcileMoves DEF OneInv, OneRunner, Moves
<1>2. run[r].pc = "indexed" /\ UNCHANGED <<state, sources, synced>>
  BY DEF Reconcile, At
<1>3. SourcesAreWhole'
  BY <1>1, <1>2 DEF AllIsHeld, SourcesAreWhole, Writes, Parsed, Bridging
<1>4. ParsedIsDone'
  BY <1>1 DEF ParsedIsDone, Bridging
<1>5. \A c, i, t : HasSource(c, i, t) => HasSource(c, i, t)'
  BY <1>2 DEF HasSource
<1>6. EntriesAreHeld'
  BY <1>1, <1>2, <1>5, OthersHeld
<1>7. KnownIsHeld'
  BY <1>1 DEF KnownIsHeld, Listing
<1>8. SeenIsOnFile'
  BY <1>1, <1>2 DEF AllIsHeld, SeenIsOnFile, Listing, Bridging, After
<1>9. SeenIsHeld'
  BY <1>1, <1>2, <1>5 DEF AllIsHeld, SeenIsHeld, Bridging, After
<1> QED
  BY <1>3, <1>4, <1>6, <1>7, <1>8, <1>9 DEF AllIsHeld

LEMMA HeldArchive ==
    ASSUME OneRunner, OneInv, AllIsHeld, NEW r \in Runner, Archive(r)
    PROVE  AllIsHeld'
<1>1. /\ run'[r].pc = "archive" /\ run'[r].conn = run[r].conn /\ run'[r].prev = run[r].prev
      /\ run'[r].got = run[r].got /\ \A q \in Runner : q = r
  BY ArchiveMoves DEF OneInv, OneRunner, Moves
<1>2. run[r].pc = "archive" /\ UNCHANGED <<state, synced>>
  BY DEF Archive, Busy, At
<1>3. /\ DOMAIN sources' = DOMAIN sources
      /\ \A j \in DOMAIN sources :
           /\ sources'[j].conn = sources[j].conn /\ sources'[j].item = sources[j].item
           /\ sources'[j].hash = sources[j].hash /\ sources'[j].chunks = sources[j].chunks
           /\ sources'[j].indexed = sources[j].indexed
  BY ArchiveEdits DEF OneInv, Edits
<1>4. SourcesAreWhole'
  BY <1>1, <1>2, <1>3 DEF AllIsHeld, SourcesAreWhole, Writes, Parsed, Bridging
<1>5. ParsedIsDone'
  BY <1>1 DEF ParsedIsDone, Bridging
<1>6. \A c, i, t : HasSource(c, i, t) => HasSource(c, i, t)'
  BY <1>3, HeldStays DEF SourcesStay
<1>7. EntriesAreHeld'
  BY <1>1, <1>2, <1>6, OthersHeld
<1>8. KnownIsHeld'
  BY <1>1 DEF KnownIsHeld, Listing
<1>9. SeenIsOnFile'
  BY <1>1, <1>2 DEF AllIsHeld, SeenIsOnFile, Listing, Bridging, After
<1>10. SeenIsHeld'
  BY <1>1, <1>2, <1>6 DEF AllIsHeld, SeenIsHeld, Bridging, After
<1> QED
  BY <1>4, <1>5, <1>7, <1>8, <1>9, <1>10 DEF AllIsHeld

LEMMA HeldArchiveFails ==
    ASSUME OneRunner, OneInv, AllIsHeld, NEW r \in Runner, ArchiveFails(r)
    PROVE  AllIsHeld'
<1>1. /\ run'[r].pc = "archive" /\ run'[r].conn = run[r].conn /\ run'[r].prev = run[r].prev
      /\ run'[r].got = run[r].got /\ \A q \in Runner : q = r
  BY ArchiveFailsMoves DEF OneInv, OneRunner, Moves
<1>2. run[r].pc = "archive" /\ UNCHANGED <<state, sources, synced>>
  BY DEF ArchiveFails, Busy, At
<1>3. SourcesAreWhole'
  BY <1>1, <1>2 DEF AllIsHeld, SourcesAreWhole, Writes, Parsed, Bridging
<1>4. ParsedIsDone'
  BY <1>1 DEF ParsedIsDone, Bridging
<1>5. \A c, i, t : HasSource(c, i, t) => HasSource(c, i, t)'
  BY <1>2 DEF HasSource
<1>6. EntriesAreHeld'
  BY <1>1, <1>2, <1>5, OthersHeld
<1>7. KnownIsHeld'
  BY <1>1 DEF KnownIsHeld, Listing
<1>8. SeenIsOnFile'
  BY <1>1, <1>2 DEF AllIsHeld, SeenIsOnFile, Listing, Bridging, After
<1>9. SeenIsHeld'
  BY <1>1, <1>2, <1>5 DEF AllIsHeld, SeenIsHeld, Bridging, After
<1> QED
  BY <1>3, <1>4, <1>6, <1>7, <1>8, <1>9 DEF AllIsHeld

\* A sync that ends leaves all it saw on file and in a source.
LEMMA HeldFinish ==
    ASSUME OneRunner, OneInv, AllIsHeld, NEW r \in Runner, FinishSync(r)
    PROVE  AllIsHeld'
<1> DEFINE c == run[r].conn
<1>1. run'[r].pc = "idle" /\ \A q \in Runner : q = r
  BY DEF FinishSync, OneInv, TypeOK, OneRunner, Idle
<1>2. run[r].pc = "archive" /\ UNCHANGED <<state, sources>>
  BY DEF FinishSync, At
<1>3. c \in Conn /\ synced'[c] = run[r].got /\ \A d \in Conn \ {c} : synced'[d] = synced[d]
  <2>1. c \in Conn /\ DOMAIN synced = Conn
    BY <1>2, GoingOn DEF OneInv, TypeOK
  <2> QED
    BY <2>1 DEF FinishSync, ConnOf
<1>4. SourcesAreWhole'
  BY <1>1, <1>2 DEF AllIsHeld, SourcesAreWhole, Writes, Parsed, Bridging
<1>5. ParsedIsDone' /\ KnownIsHeld' /\ SeenIsOnFile' /\ SeenIsHeld'
  BY <1>1 DEF ParsedIsDone, KnownIsHeld, SeenIsOnFile, SeenIsHeld, Listing, Bridging, After
<1>6. \A d, i, t : HasSource(d, i, t) => HasSource(d, i, t)'
  BY <1>2 DEF HasSource
<1>7. \A d \in Conn \ {c} : Quiet(d)
  BY <1>1 DEF Quiet, ConnOf
<1>8. \A i \in Item :
        /\ state[c][i] # NoEntry => HasSource(c, i, state[c][i].hash)
        /\ run[r].got[i] # Gone => state[c][i] # NoEntry /\ state[c][i].hash = run[r].got[i]
  <2>1. \A i \in Item :
           /\ run[r].got[i] = Gone =>
                /\ state[c][i].hash = run[r].prev[i].hash
                /\ state[c][i] # NoEntry => run[r].prev[i] # NoEntry
           /\ run[r].got[i] # Gone => state[c][i].hash = run[r].got[i]
    BY <1>2 DEF AllIsHeld, SeenIsOnFile, Listing, After
  <2>2. \A i \in Item :
        /\ run[r].got[i] = Gone /\ run[r].prev[i] # NoEntry => HasSource(c, i, run[r].prev[i].hash)
        /\ run[r].got[i] # Gone => HasSource(c, i, run[r].got[i])
    BY <1>2 DEF AllIsHeld, SeenIsHeld, Bridging, After
  <2>3. \A i \in Listed(run[r].got) : state[c][i] # NoEntry
    BY <1>2 DEF OneInv, EntriesStay, After
  <2> QED
    BY <2>1, <2>2, <2>3 DEF Listed
<1>9. EntriesAreHeld'
  <2>1. ASSUME NEW d \in Conn, NEW i \in Item
        PROVE  /\ state[d][i] # NoEntry => HasSource(d, i, state[d][i].hash)
               /\ synced'[d][i] # Gone => state[d][i] # NoEntry /\ state[d][i].hash = synced'[d][i]
    <3>1. CASE d = c
      BY <1>3, <1>8, <3>1
    <3>2. CASE d # c
      BY <1>3, <1>7, <3>2 DEF AllIsHeld, EntriesAreHeld
    <3> QED
      BY <3>1, <3>2
  <2> QED
    BY <1>2, <1>6, <2>1 DEF EntriesAreHeld
<1> QED
  BY <1>4, <1>5, <1>9 DEF AllIsHeld

LEMMA HeldStart ==
    ASSUME OneRunner, OneInv, AllIsHeld, NEW r \in Runner, NEW c \in Conn, StartSync(r, c)
    PROVE  AllIsHeld'
<1>1. /\ run'[r].pc = "fetch" /\ run'[r].conn = c /\ run'[r].prev = state[c]
      /\ \A q \in Runner : q = r
  BY DEF StartSync, OneInv, TypeOK, OneRunner
<1>2. run[r].pc = "idle" /\ UNCHANGED <<state, sources, synced>>
  BY DEF StartSync, At
<1>3. SourcesAreWhole'
  BY <1>1, <1>2 DEF AllIsHeld, SourcesAreWhole, Writes, Parsed, Bridging
<1>4. ParsedIsDone' /\ SeenIsOnFile' /\ SeenIsHeld'
  BY <1>1 DEF ParsedIsDone, SeenIsOnFile, SeenIsHeld, Listing, Bridging, After
<1>5. \A d, i, t : HasSource(d, i, t) => HasSource(d, i, t)'
  BY <1>2 DEF HasSource
<1>6. \A d \in Conn : Quiet(d)
  BY <1>1, <1>2 DEF Quiet, At
<1>7. EntriesAreHeld'
  BY <1>2, <1>5, <1>6 DEF AllIsHeld, EntriesAreHeld
<1>8. KnownIsHeld'
  BY <1>1, <1>2, <1>5, <1>6 DEF AllIsHeld, EntriesAreHeld, KnownIsHeld, Listing
<1> QED
  BY <1>3, <1>4, <1>7, <1>8 DEF AllIsHeld

LEMMA HeldRests ==
    ASSUME AllIsHeld, UNCHANGED <<state, sources, run, synced>>
    PROVE  AllIsHeld'
BY DEF AllIsHeld, SourcesAreWhole, ParsedIsDone, EntriesAreHeld, KnownIsHeld, SeenIsOnFile,
       SeenIsHeld, HasSource, Writes, Parsed, Quiet, At, ConnOf

LEMMA HeldInit == Init => SyncInv
<1>1. Init => /\ sources = <<>> /\ \A r \in Runner : run[r].pc = "idle"
              /\ \A c \in Conn, i \in Item : state[c][i] = NoEntry /\ synced[c][i] = Gone
  BY DEF Init, Idle, Nothing
<1> QED
  BY <1>1 DEF SyncInv, AllIsHeld, SourcesAreWhole, ParsedIsDone, EntriesAreHeld, KnownIsHeld,
              SeenIsOnFile, SeenIsHeld, Listing, Bridging, After

\* What has gone wrong is not forgotten.
LEMMA FaultsStay == ASSUME [Next]_vars PROVE faults \subseteq faults'
BY ZenonT(60) DEF Next, Syncs, FetchAll, Gets, LoadState, SaveState, SyncFails, CallBridge,
       SkipItem, FindSource, AddSource, SaveSource, SaveChunks, ItemFails, IndexChunks, Reconcile,
       Archive, ArchiveFails, FinishSync, StartSync, Change, Crash, Fails, NoFault, vars

LEMMA HeldStep ==
    ASSUME OneRunner, OneInv, SyncInv, [Next]_vars
    PROVE  SyncInv'
<1> SUFFICES ASSUME Spared({"state", "save", "index", "crash"})'
             PROVE  AllIsHeld'
  BY DEF SyncInv
<1>1. faults \subseteq faults'
  BY FaultsStay
<1>2. /\ "state" \notin faults' /\ "save" \notin faults' /\ "index" \notin faults'
      /\ "crash" \notin faults' /\ AllIsHeld
  BY <1>1 DEF Spared, SyncInv
<1>3. ASSUME NEW r \in Runner, Syncs(r) PROVE AllIsHeld'
  <2>1. ~ItemFails(r) /\ ~SyncFails(r)
    BY <1>2 DEF ItemFails, SyncFails, Fails
  <2> QED
    BY <1>2, <1>3, <2>1, HeldFetch, HeldLoad, HeldSaveState, HeldCall, HeldSkip, HeldFind,
       HeldAdd, HeldSaveSource, HeldSaveChunks, HeldIndex, HeldReconcile, HeldArchive,
       HeldArchiveFails, HeldFinish DEF Syncs
<1>4. ASSUME NEW r \in Runner, NEW c \in Conn, StartSync(r, c) PROVE AllIsHeld'
  BY <1>2, <1>4, HeldStart
<1>5. ASSUME NEW c \in Conn, NEW i \in Item, NEW text \in Text \cup {Gone}, Change(c, i, text)
      PROVE  AllIsHeld'
  BY <1>2, <1>5, HeldRests DEF Change
<1>6. ~Crash
  BY <1>2 DEF Crash, Fails
<1>7. ASSUME UNCHANGED vars PROVE AllIsHeld'
  BY <1>2, <1>7, HeldRests DEF vars
<1> QED
  BY <1>3, <1>4, <1>5, <1>6, <1>7 DEF Next

LEMMA HeldIsInEvidence ==
    ASSUME OneInv, SyncInv
    PROVE  SyncedIsHeld
<1> SUFFICES ASSUME Spared({"state", "save", "index", "crash"}), NEW c \in Conn, Quiet(c),
                    NEW i \in Listed(synced[c]), synced[c][i] # Empty
             PROVE  InEvidence(c, i, synced[c][i])
  BY DEF SyncedIsHeld
<1>1. AllIsHeld
  BY DEF SyncInv
<1>2. i \in Item /\ HasSource(c, i, synced[c][i])
  BY <1>1 DEF AllIsHeld, EntriesAreHeld, Listed
<1>3. PICK k \in DOMAIN sources :
        sources[k].conn = c /\ sources[k].item = i /\ sources[k].hash = synced[c][i]
  BY <1>2 DEF HasSource
<1>4. \A r \in Runner : ~Writes(r, k)
  <2>1. k # 0
    BY DEF OneInv, TypeOK
  <2> QED
    BY <1>3, <2>1 DEF Writes, OneInv, HoldsItsSource, Quiet, At, ConnOf
<1>5. \A r \in Runner : ~Parsed(r, k)
  BY <1>1, <1>3 DEF Parsed, AllIsHeld, ParsedIsDone, Quiet, At, ConnOf, Bridging
<1>6. sources[k].hash \in sources[k].chunks /\ sources[k].hash \in sources[k].indexed
  BY <1>1, <1>4, <1>5 DEF AllIsHeld, SourcesAreWhole
<1> QED
  BY <1>3, <1>6 DEF InEvidence

\* Between syncs, what the last finished sync listed is in evidence, unless the
\* process died, a sync ended with an exception or something could not be saved or
\* indexed, while one sync runs at a time (run_sync: "Unchanged items are skipped").
THEOREM SyncedIsHeldHolds == OneRunner => (Spec => []SyncedIsHeld)
<1> SUFFICES ASSUME OneRunner PROVE Spec => []SyncedIsHeld
  OBVIOUS
<1>1. Init => OneInv /\ SyncInv
  BY OneStart, HeldInit
<1>2. OneInv /\ SyncInv /\ [Next]_vars => (OneInv /\ SyncInv)'
  BY OneStep, HeldStep
<1>3. OneInv /\ SyncInv => SyncedIsHeld
  BY HeldIsInEvidence
<1> QED
  BY <1>1, <1>2, <1>3, PTL DEF Spec

-----------------------------------------------------------------------------
(* What is archived is what is gone                                        *)
(*                                                                         *)
(* find_by_metadata looks for an external id whatever its connector, so    *)
(* what follows holds for the sources of one connector.                    *)

OneConnector == \A c, d \in Conn : c = d

Deleted(entry) == entry.status = "deleted_remote"
Busier == Listing \cup Bridging \cup After

\* A step of the bridge leaves the marks alone, and the status of all sources but those
\* of listed items, which are not archived by it.
BridgesOn(r) ==
    /\ run[r].pc \in Bridging /\ run'[r].pc \in Bridging \cup {"indexed"}
    /\ run'[r].conn = run[r].conn /\ run'[r].prev = run[r].prev /\ run'[r].got = run[r].got
    /\ UNCHANGED <<remote, state>>
    /\ \A k \in DOMAIN sources' :
         \/ /\ k \in DOMAIN sources /\ sources'[k].conn = sources[k].conn
            /\ sources'[k].item = sources[k].item /\ sources'[k].status = sources[k].status
         \/ /\ sources'[k].status # "archived"
            /\ sources'[k].item \in Item /\ run[r].got[sources'[k].item] # Gone

LEMMA BridgeSteps ==
    ASSUME OneInv, NEW r \in Runner,
           \/ SkipItem(r) \/ FindSource(r) \/ AddSource(r) \/ SaveSource(r)
           \/ SaveChunks(r) \/ ItemFails(r) \/ IndexChunks(r)
    PROVE  BridgesOn(r)
<1>0. TypeOK
  BY DEF OneInv
<1>1. CASE SkipItem(r)
  <2>1. Moves(r, "bridge", Left(r), NoEntry, run[r].parsed) /\ run[r].pc = "bridge"
    BY <1>0, <1>1, SkipMoves DEF SkipItem, Busy, At
  <2> QED
    BY <1>1, <2>1 DEF SkipItem, Moves, Bridging, BridgesOn
<1>2. CASE FindSource(r)
  <2>1. /\ Moves(r, "save", run[r].todo, Found(run[r].conn, Current(r)), run[r].parsed)
        /\ run[r].pc = "bridge" /\ UNCHANGED <<remote, state>>
    BY <1>0, <1>2, FindMoves DEF FindSource, Busy, At
  <2>2. \A k \in DOMAIN sources' :
          /\ k \in DOMAIN sources /\ sources'[k].conn = sources[k].conn
          /\ sources'[k].item = sources[k].item /\ sources'[k].status = sources[k].status
    BY <1>0, <1>2, FindEdits DEF Edits
  <2> QED
    BY <2>1, <2>2 DEF Moves, Bridging, BridgesOn
<1>3. CASE AddSource(r)
  <2>1. /\ Moves(r, "chunks", run[r].todo, Len(sources) + 1, run[r].parsed)
        /\ run[r].pc = "save" /\ UNCHANGED <<remote, state>>
    BY <1>0, <1>3, AddMoves DEF AddSource, At
  <2>2. /\ run[r].got[Current(r)] \in Text /\ Current(r) \in Item /\ Len(sources) \in Nat
        /\ run[r].got[Current(r)] # Gone
    <3>1. /\ run[r].got[Current(r)] \in Text /\ run[r].todo # {} /\ Len(sources) \in Nat
      BY <1>0, <2>1 DEF TypeOK, RunsOK
    <3> QED
      BY <1>0, <2>1, <3>1, GoingOn, NoEntryIsEntry
  <2>3. /\ DOMAIN sources' = 1..(Len(sources) + 1) /\ DOMAIN sources = 1..Len(sources)
        /\ \A k \in DOMAIN sources : sources'[k] = sources[k]
        /\ sources'[Len(sources) + 1] =
             [conn |-> run[r].conn, item |-> Current(r), hash |-> run[r].got[Current(r)],
              status |-> "parsed", chunks |-> {}, indexed |-> {}]
    BY <1>0, <1>3, <2>2, AddEdits, Zenon
  <2>4. /\ sources'[Len(sources) + 1].item = Current(r)
        /\ sources'[Len(sources) + 1].status # "archived"
    BY <2>3
  <2>5. \A k \in DOMAIN sources' : k \in DOMAIN sources \/ k = Len(sources) + 1
    BY <2>2, <2>3
  <2> QED
    BY <2>1, <2>2, <2>3, <2>4, <2>5 DEF Moves, Bridging, BridgesOn
<1>4. CASE SaveSource(r)
  <2>1. /\ Moves(r, "chunks", run[r].todo, run[r].held, run[r].parsed)
        /\ run[r].pc = "save" /\ UNCHANGED <<remote, state>> /\ run[r].held # 0
    BY <1>0, <1>4, SaveSourceMoves DEF SaveSource, At
  <2>2. /\ run[r].got[Current(r)] \in Text /\ Current(r) \in Item
        /\ run[r].got[Current(r)] # Gone
    <3>1. run[r].got[Current(r)] \in Text /\ run[r].todo # {}
      BY <1>0, <2>1 DEF TypeOK, RunsOK
    <3> QED
      BY <1>0, <2>1, <3>1, GoingOn, NoEntryIsEntry
  <2>3. run[r].held \in DOMAIN sources /\ sources[run[r].held].item = Current(r)
    BY <2>1 DEF OneInv, HoldsItsSource
  <2>4. /\ DOMAIN sources' = DOMAIN sources
        /\ sources'[run[r].held].item = sources[run[r].held].item
        /\ sources'[run[r].held].status = "parsed"
        /\ \A k \in DOMAIN sources \ {run[r].held} : sources'[k] = sources[k]
    BY <1>0, <1>4, <2>2, SaveEdits DEF Edits
  <2> QED
    BY <2>1, <2>2, <2>3, <2>4 DEF Moves, Bridging, BridgesOn
<1>5. CASE SaveChunks(r)
  <2>1. /\ Moves(r, "bridge", Left(r), NoEntry, run[r].parsed \cup {run[r].held})
        /\ run[r].pc = "chunks" /\ UNCHANGED <<remote, state>>
    BY <1>0, <1>5, ChunksMoves DEF SaveChunks, At
  <2>2. run[r].held \in DOMAIN sources /\ run[r].got[Current(r)] \in Text
    BY <1>0, <2>1 DEF OneInv, HoldsItsSource, TypeOK, RunsOK
  <2>3. \A k \in DOMAIN sources' :
          /\ k \in DOMAIN sources /\ sources'[k].conn = sources[k].conn
          /\ sources'[k].item = sources[k].item /\ sources'[k].status = sources[k].status
    BY <1>0, <1>5, <2>2, ChunksEdits DEF Edits
  <2> QED
    BY <2>1, <2>3 DEF Moves, Bridging, BridgesOn
<1>6. CASE ItemFails(r)
  <2>1. /\ Moves(r, "bridge", Left(r), NoEntry, run[r].parsed)
        /\ run[r].pc \in {"save", "bridge"}
    BY <1>0, <1>6, FailMoves DEF ItemFails, Busy, At
  <2> QED
    BY <1>6, <2>1 DEF ItemFails, Moves, Bridging, BridgesOn
<1>7. CASE IndexChunks(r)
  <2>1. /\ Moves(r, "indexed", {}, NoEntry, run[r].parsed)
        /\ run[r].pc = "bridge" /\ UNCHANGED <<remote, state>>
    BY <1>0, <1>7, IndexMoves DEF IndexChunks, At
  <2>2. \A k \in DOMAIN sources' :
          /\ k \in DOMAIN sources /\ sources'[k].conn = sources[k].conn
          /\ sources'[k].item = sources[k].item /\ sources'[k].status = sources[k].status
    BY <1>0, <1>7, IndexEdits
  <2> QED
    BY <2>1, <2>2 DEF Moves, Bridging, BridgesOn
<1> QED
  BY <1>1, <1>2, <1>3, <1>4, <1>5, <1>6, <1>7

\* A mark on file is one of an item that vanished, and an item that vanished is marked.
LEMMA MarkWritten ==
    ASSUME OneInv, NEW r \in Runner, SaveState(r)
    PROVE  LET c == run[r].conn
               i == Current(r)
           IN /\ c \in Conn /\ i \in Item /\ i \in run[r].todo
              /\ \A d \in Conn \ {c} : state'[d] = state[d]
              /\ \A j \in Item \ {i} : state'[c][j] = state[c][j]
              /\ run[r].got[i] # Gone => state'[c][i] # NoEntry /\ ~Deleted(state'[c][i])
              /\ run[r].got[i] = Gone =>
                   /\ i \in Vanished(run[r].prev, run[r].got)
                   /\ IF state[c][i] = NoEntry THEN state'[c][i] = NoEntry
                      ELSE state'[c][i] # NoEntry /\ Deleted(state'[c][i])
<1> DEFINE c == run[r].conn
           i == Current(r)
           hash == run[r].got[i]
<1>1. run[r].pc = "write"
  BY DEF SaveState, At
<1>2. /\ run[r].held = state[c]
      /\ run[r].todo \subseteq Listed(run[r].got) \cup Vanished(run[r].prev, run[r].got)
  BY <1>1 DEF OneInv, EntriesStay, Listing
<1>3. /\ c \in Conn /\ i \in Item /\ i \in run[r].todo
      /\ \A d \in Conn \ {c} : state'[d] = state[d]
      /\ \/ hash = Gone /\ state[c][i] = NoEntry /\ state'[c] = state[c]
         \/ /\ hash # Gone \/ state[c][i] # NoEntry
            /\ \A j \in Item \ {i} : state'[c][j] = state[c][j]
            /\ hash # Gone =>
                 state'[c][i] = [hash |-> hash, status |-> Compared(run[r].prev[i], hash)]
            /\ hash = Gone =>
                 state'[c][i] = [hash |-> state[c][i].hash, status |-> "deleted_remote"]
  BY <1>2, SavedState, ZenonT(40) DEF OneInv
<1>4. hash = Gone => i \in Vanished(run[r].prev, run[r].got)
  BY <1>2, <1>3 DEF Listed
<1>5. \A t, s : t # Gone => [hash |-> t, status |-> s] # NoEntry
  BY DEF NoEntry
<1>6. \A t : [hash |-> t, status |-> "deleted_remote"] # NoEntry
  BY DEF NoEntry
<1>7. \A p, t : Compared(p, t) # "deleted_remote"
  BY DEF Compared
<1> HIDE DEF c, i, hash
<1>8. CASE hash = Gone
  BY <1>3, <1>4, <1>6, <1>8 DEF Deleted, c, i, hash
<1>9. CASE hash # Gone
  <2>1. /\ state'[c][i] = [hash |-> hash, status |-> Compared(run[r].prev[i], hash)]
        /\ \A j \in Item \ {i} : state'[c][j] = state[c][j]
    BY <1>3, <1>9
  <2>2. state'[c][i] # NoEntry /\ ~Deleted(state'[c][i])
    BY <1>5, <1>7, <1>9, <2>1 DEF Deleted
  <2> QED
    BY <1>3, <1>9, <2>1, <2>2 DEF c, i, hash
<1> QED
  BY <1>8, <1>9

-----------------------------------------------------------------------------
(* A source is archived only if its item counts as deleted                 *)

\* What is marked deleted is gone, and stays gone for the sync that saw it so.
DeletedIsGone ==
    /\ \A c \in Conn, i \in Item : Deleted(state[c][i]) => remote[c][i] = Gone
    /\ \A r \in Runner : run[r].pc \in Busier => \A i \in Item :
         /\ run[r].got[i] = Gone /\ state[run[r].conn][i] # NoEntry
              => remote[run[r].conn][i] = Gone
         /\ Deleted(run[r].prev[i]) => run[r].got[i] = Gone

\* The entries marked deleted are those that were, and those of the items that
\* vanished, as far as the sync has come.
MarksTheVanished ==
    \A r \in Runner :
      LET c == run[r].conn
          gone == Vanished(run[r].prev, run[r].got)
      IN /\ run[r].pc = "fetch" => run[r].prev = state[c]
         /\ run[r].pc \in Listing => \A i \in Item :
              /\ run[r].prev[i] # NoEntry => state[c][i] # NoEntry
              /\ Deleted(state[c][i]) <=> Deleted(run[r].prev[i]) \/ i \in gone \ run[r].todo
         /\ run[r].pc \in Bridging \cup After => \A i \in Item :
              Deleted(state[c][i]) <=> Deleted(run[r].prev[i]) \/ i \in gone
         /\ run[r].pc = "archive" => run[r].todo \subseteq gone

\* At every step of a sync, the item of an archived source is marked.
ArchivedAreMarked ==
    \A k \in DOMAIN sources :
        sources[k].status = "archived" => Deleted(state[sources[k].conn][sources[k].item])

AllIsGone == DeletedIsGone /\ MarksTheVanished /\ ArchivedAreMarked

GoneInv == Spared({"list", "return"}) => AllIsGone

LEMMA GoneFetch ==
    ASSUME OneRunner, OneInv, AllIsGone, NEW r \in Runner, FetchAll(r), "list" \notin faults'
    PROVE  AllIsGone'
<1> DEFINE c == run[r].conn
<1>1. /\ run'[r].pc = "mark" /\ run'[r].conn = c /\ run'[r].prev = run[r].prev
      /\ run'[r].todo = Listed(run'[r].got) \cup Vanished(run[r].prev, run'[r].got)
      /\ Gets(c, run'[r].got) /\ c \in Conn
      /\ \A q \in Runner : q = r
  BY FetchMoves DEF OneInv, OneRunner, Starting
<1>2. run[r].pc = "fetch" /\ UNCHANGED <<remote, state, sources>>
  BY DEF FetchAll, At
<1>3. run[r].prev = state[c]
  BY <1>2 DEF AllIsGone, MarksTheVanished
<1>4. \A i \in Item : run'[r].got[i] = Gone <=> remote[c][i] = Gone
  <2>1. CASE run'[r].got = remote[c]
    BY <2>1
  <2>2. CASE \E E \in SUBSET Listed(remote[c]) \ {{}} :
               run'[r].got = [i \in Item |-> IF i \in E THEN Empty ELSE remote[c][i]]
    BY <2>2, NoEntryIsEntry DEF Listed
  <2> QED
    BY <1>1, <2>1, <2>2 DEF Gets, Fails
<1>5. DeletedIsGone'
  BY <1>1, <1>2, <1>3, <1>4 DEF AllIsGone, DeletedIsGone
<1>6. MarksTheVanished'
  BY <1>1, <1>2, <1>3 DEF MarksTheVanished, Listing, Bridging, After
<1>7. ArchivedAreMarked'
  BY <1>2 DEF AllIsGone, ArchivedAreMarked
<1> QED
  BY <1>5, <1>6, <1>7 DEF AllIsGone

LEMMA GoneLoad ==
    ASSUME OneRunner, OneInv, AllIsGone, NEW r \in Runner, LoadState(r)
    PROVE  AllIsGone'
<1>1. /\ run'[r].pc = "write" /\ run'[r].conn = run[r].conn /\ run'[r].prev = run[r].prev
      /\ run'[r].todo = run[r].todo /\ run'[r].got = run[r].got
      /\ \A q \in Runner : q = r
  BY LoadMoves DEF OneInv, OneRunner, Moves
<1>2. run[r].pc = "mark" /\ UNCHANGED <<remote, state, sources>>
  BY DEF LoadState, Busy, At
<1>3. DeletedIsGone'
  BY <1>1, <1>2 DEF AllIsGone, DeletedIsGone, Busier, Listing
<1>4. MarksTheVanished'
  BY <1>1, <1>2 DEF AllIsGone, MarksTheVanished, Listing, Bridging, After
<1> QED
  BY <1>2, <1>3, <1>4 DEF AllIsGone, ArchivedAreMarked

LEMMA GoneSaveState ==
    ASSUME OneRunner, OneInv, AllIsGone, NEW r \in Runner, SaveState(r)
    PROVE  AllIsGone'
<1> DEFINE c == run[r].conn
           i == Current(r)
           hash == run[r].got[i]
           gone == Vanished(run[r].prev, run[r].got)
<1>1. /\ run'[r].pc = "mark" /\ run'[r].conn = c /\ run'[r].prev = run[r].prev
      /\ run'[r].todo = run[r].todo \ {i} /\ run'[r].got = run[r].got
      /\ \A q \in Runner : q = r
  BY SaveStateMoves DEF OneInv, OneRunner, Moves, Left
<1>2. run[r].pc = "write" /\ UNCHANGED <<remote, sources>>
  BY DEF SaveState, At
<1>3. /\ c \in Conn /\ i \in Item /\ i \in run[r].todo
      /\ \A d \in Conn \ {c} : state'[d] = state[d]
      /\ \A j \in Item \ {i} : state'[c][j] = state[c][j]
      /\ hash # Gone => state'[c][i] # NoEntry /\ ~Deleted(state'[c][i])
      /\ hash = Gone =>
           /\ i \in gone
           /\ IF state[c][i] = NoEntry THEN state'[c][i] = NoEntry
              ELSE state'[c][i] # NoEntry /\ Deleted(state'[c][i])
  BY MarkWritten
<1>4. i \in gone => run[r].prev[i] # NoEntry /\ hash = Gone /\ ~Deleted(run[r].prev[i])
  BY DEF Vanished, Deleted
<1>5. \A j \in Item :
        /\ run[r].prev[j] # NoEntry => state[c][j] # NoEntry
        /\ Deleted(state[c][j]) <=> Deleted(run[r].prev[j]) \/ j \in gone \ run[r].todo
  BY <1>2 DEF AllIsGone, MarksTheVanished, Listing
<1>6. /\ \A d \in Conn, j \in Item : Deleted(state[d][j]) => remote[d][j] = Gone
      /\ \A j \in Item :
           /\ run[r].got[j] = Gone /\ state[c][j] # NoEntry => remote[c][j] = Gone
           /\ Deleted(run[r].prev[j]) => run[r].got[j] = Gone
  BY <1>2 DEF AllIsGone, DeletedIsGone, Busier, Listing
<1>7. /\ state'[c][i] # NoEntry /\ (Deleted(state'[c][i]) <=> hash = Gone)
      /\ hash = Gone => state[c][i] # NoEntry /\ remote[c][i] = Gone
      /\ Deleted(run[r].prev[i]) => hash = Gone
  <2> HIDE DEF c, i, gone
  <2> QED
    BY <1>3, <1>4, <1>5, <1>6
<1>8. DeletedIsGone'
  <2> HIDE DEF i, gone
  <2>1. \A j \in Item : Deleted(state'[c][j]) => remote[c][j] = Gone
    BY <1>3, <1>6, <1>7
  <2>2. \A d \in Conn, j \in Item : Deleted(state'[d][j]) => remote[d][j] = Gone
    BY <1>3, <1>6, <2>1
  <2>3. \A j \in Item : run[r].got[j] = Gone /\ state'[c][j] # NoEntry => remote[c][j] = Gone
    BY <1>6, <1>7, <1>3
  <2> QED
    BY <1>1, <1>2, <1>6, <2>2, <2>3 DEF DeletedIsGone
<1>9. MarksTheVanished'
  <2> HIDE DEF i
  <2>1. \A j \in Item :
           /\ run[r].prev[j] # NoEntry => state'[c][j] # NoEntry
           /\ Deleted(state'[c][j]) <=> Deleted(run[r].prev[j]) \/ j \in gone \ (run[r].todo \ {i})
    BY <1>3, <1>4, <1>5, <1>7
  <2> QED
    BY <1>1, <2>1 DEF MarksTheVanished, Listing, Bridging, After
<1>10. ArchivedAreMarked'
  <2>1. \A j \in Item : Deleted(state[c][j]) => Deleted(state'[c][j])
    <3> HIDE DEF c, i, gone
    <3> QED
      BY <1>3, <1>5, <1>7
  <2>2. \A d \in Conn, j \in Item : Deleted(state[d][j]) => Deleted(state'[d][j])
    BY <1>3, <2>1
  <2>3. \A k \in DOMAIN sources : sources[k].conn \in Conn /\ sources[k].item \in Item
    BY SourceFields DEF OneInv
  <2> QED
    BY <1>2, <2>2, <2>3 DEF AllIsGone, ArchivedAreMarked
<1> QED
  BY <1>8, <1>9, <1>10 DEF AllIsGone

LEMMA GoneCall ==
    ASSUME OneRunner, OneInv, AllIsGone, NEW r \in Runner, CallBridge(r)
    PROVE  AllIsGone'
<1>1. /\ run'[r].pc = "bridge" /\ run'[r].conn = run[r].conn /\ run'[r].prev = run[r].prev
      /\ run'[r].got = run[r].got /\ \A q \in Runner : q = r
  BY CallMoves DEF OneInv, OneRunner, Moves
<1>2. run[r].pc = "mark" /\ run[r].todo = {} /\ UNCHANGED <<remote, state, sources>>
  BY DEF CallBridge, At
<1>3. DeletedIsGone'
  BY <1>1, <1>2 DEF AllIsGone, DeletedIsGone, Busier, Listing
<1>4. MarksTheVanished'
  BY <1>1, <1>2 DEF AllIsGone, MarksTheVanished, Listing, Bridging, After
<1> QED
  BY <1>2, <1>3, <1>4 DEF AllIsGone, ArchivedAreMarked

LEMMA GoneBridge ==
    ASSUME OneRunner, AllIsGone, NEW r \in Runner, BridgesOn(r)
    PROVE  AllIsGone'
<1>1. \A q \in Runner : q = r
  BY DEF OneRunner
<1>2. DeletedIsGone'
  BY <1>1 DEF AllIsGone, DeletedIsGone, Busier, Bridging, After, BridgesOn
<1>3. MarksTheVanished'
  BY <1>1 DEF AllIsGone, MarksTheVanished, Listing, Bridging, After, BridgesOn
<1>4. ArchivedAreMarked'
  BY DEF AllIsGone, ArchivedAreMarked, BridgesOn
<1> QED
  BY <1>2, <1>3, <1>4 DEF AllIsGone

LEMMA GoneReconcile ==
    ASSUME OneRunner, OneInv, AllIsGone, NEW r \in Runner, Reconcile(r)
    PROVE  AllIsGone'
<1>1. /\ Moves(r, "archive", Vanished(run[r].prev, run[r].got), NoEntry, run[r].parsed)
      /\ run[r].pc = "indexed" /\ UNCHANGED <<remote, state, sources>>
      /\ \A q \in Runner : q = r
  BY ReconcileMoves DEF Reconcile, At, OneInv, OneRunner
<1>2. DeletedIsGone'
  BY <1>1 DEF AllIsGone, DeletedIsGone, Busier, After, Moves
<1>3. MarksTheVanished'
  BY <1>1 DEF AllIsGone, MarksTheVanished, Listing, Bridging, After, Moves
<1> QED
  BY <1>1, <1>2, <1>3 DEF AllIsGone, ArchivedAreMarked

LEMMA GoneArchive ==
    ASSUME OneRunner, OneConnector, OneInv, AllIsGone, NEW r \in Runner, Archive(r)
    PROVE  AllIsGone'
<1> DEFINE c == run[r].conn
           i == Current(r)
           k == FoundById(i)
<1>1. /\ Moves(r, "archive", run[r].todo \ {i}, NoEntry, run[r].parsed)
      /\ run[r].pc = "archive" /\ run[r].todo # {} /\ UNCHANGED <<remote, state>>
      /\ \A q \in Runner : q = r
  BY ArchiveMoves DEF Archive, Busy, At, Left, OneInv, OneRunner
<1>2. /\ i \in run[r].todo /\ run[r].todo \subseteq Vanished(run[r].prev, run[r].got)
      /\ i \in Item /\ c \in Conn
  BY <1>1, GoingOn DEF AllIsGone, MarksTheVanished, OneInv
<1>3. DeletedIsGone'
  BY <1>1 DEF AllIsGone, DeletedIsGone, Busier, After, Moves
<1>4. MarksTheVanished'
  BY <1>1 DEF AllIsGone, MarksTheVanished, Listing, Bridging, After, Moves
<1>5. Deleted(state[c][i])
  BY <1>1, <1>2 DEF AllIsGone, MarksTheVanished, After
<1>6. k # 0 => k \in DOMAIN sources /\ sources[k].item = i
  BY FoundByIdIsOfItem DEF OneInv
<1>7. /\ DOMAIN sources' = DOMAIN sources
      /\ \A j \in DOMAIN sources :
           /\ sources'[j].conn = sources[j].conn /\ sources'[j].item = sources[j].item
           /\ j # k => sources'[j].status = sources[j].status
  BY ArchiveEdits DEF Edits, OneInv
<1>8. \A j \in DOMAIN sources : sources[j].conn = c /\ j # 0
  BY <1>2, SourceFields DEF OneConnector, OneInv, TypeOK
<1>9. ArchivedAreMarked'
  <2>1. \A j \in DOMAIN sources' :
          sources'[j].status = "archived" => Deleted(state[sources'[j].conn][sources'[j].item])
    <3> HIDE DEF c, i, k
    <3> QED
      BY <1>5, <1>6, <1>7, <1>8 DEF AllIsGone, ArchivedAreMarked
  <2> QED
    BY <1>1, <2>1 DEF ArchivedAreMarked
<1> QED
  BY <1>3, <1>4, <1>9 DEF AllIsGone

LEMMA GoneArchiveFails ==
    ASSUME OneRunner, OneInv, AllIsGone, NEW r \in Runner, ArchiveFails(r)
    PROVE  AllIsGone'
<1>1. /\ Moves(r, "archive", {}, NoEntry, run[r].parsed)
      /\ run[r].pc = "archive" /\ UNCHANGED <<remote, state, sources>>
      /\ \A q \in Runner : q = r
  BY ArchiveFailsMoves DEF ArchiveFails, Busy, At, OneInv, OneRunner
<1>2. DeletedIsGone'
  BY <1>1 DEF AllIsGone, DeletedIsGone, Busier, After, Moves
<1>3. MarksTheVanished'
  BY <1>1 DEF AllIsGone, MarksTheVanished, Listing, Bridging, After, Moves
<1> QED
  BY <1>1, <1>2, <1>3 DEF AllIsGone, ArchivedAreMarked

\* A sync that has ended, or is to start from what is on file, promises nothing more.
Rests ==
    /\ UNCHANGED <<remote, state, sources>>
    /\ \A q \in Runner : \/ run'[q].pc = "idle"
                         \/ run'[q].pc = "fetch" /\ run'[q].prev = state[run'[q].conn]

LEMMA GoneRests == ASSUME AllIsGone, Rests PROVE AllIsGone'
BY DEF Rests, AllIsGone, DeletedIsGone, MarksTheVanished, ArchivedAreMarked, Busier, Listing,
       Bridging, After

LEMMA GoneChange ==
    ASSUME OneInv, AllIsGone, NEW c \in Conn, NEW i \in Item, NEW text \in Text \cup {Gone},
           Change(c, i, text), "return" \notin faults'
    PROVE  AllIsGone'
<1>1. ~(remote[c][i] = Gone /\ state[c][i] # NoEntry) /\ UNCHANGED <<state, sources, run>>
  BY DEF Change, Fails
<1>2. \A d \in Conn, j \in Item :
        remote'[d][j] = remote[d][j] \/ (d = c /\ j = i /\ remote'[d][j] = text)
  BY DEF Change, OneInv, TypeOK
<1>3. ~Deleted(NoEntry)
  BY DEF Deleted, NoEntry
<1>4. \A d \in Conn, j \in Item : state[d][j] # NoEntry /\ remote[d][j] = Gone =>
        remote'[d][j] = Gone
  BY <1>1, <1>2
<1>5. \A r \in Runner : run[r].pc \in Busier => run[r].conn \in Conn
  BY GoingOn DEF OneInv, Busier, Listing, Bridging, After
<1>6. DeletedIsGone'
  BY <1>1, <1>3, <1>4, <1>5 DEF AllIsGone, DeletedIsGone
<1>7. MarksTheVanished' /\ ArchivedAreMarked'
  BY <1>1 DEF AllIsGone, MarksTheVanished, ArchivedAreMarked
<1> QED
  BY <1>6, <1>7 DEF AllIsGone

\* The steps that start or end a sync.
LEMMA EndsRest ==
    ASSUME OneRunner, OneInv,
           \/ \E r \in Runner : FinishSync(r) \/ SyncFails(r) \/ \E c \in Conn : StartSync(r, c)
           \/ Crash
    PROVE  Rests
<1>1. DOMAIN run = Runner /\ Idle.pc = "idle"
  BY DEF OneInv, TypeOK, Idle
<1>2. ASSUME NEW r \in Runner, FinishSync(r) \/ SyncFails(r) PROVE Rests
  <2>1. \A q \in Runner : run'[q].pc = "idle"
    BY <1>1, <1>2 DEF FinishSync, SyncFails, OneRunner
  <2> QED
    BY <1>2, <2>1 DEF FinishSync, SyncFails, Fails, Rests
<1>3. ASSUME NEW r \in Runner, NEW c \in Conn, StartSync(r, c) PROVE Rests
  <2>1. \A q \in Runner :
          run'[q].pc = "fetch" /\ run'[q].conn = c /\ run'[q].prev = state[c]
    BY <1>1, <1>3 DEF StartSync, OneRunner
  <2> QED
    BY <1>3, <2>1 DEF StartSync, Rests
<1>4. ASSUME Crash PROVE Rests
  <2>1. \A q \in Runner : run'[q].pc = "idle"
    BY <1>1, <1>4 DEF Crash
  <2> QED
    BY <1>4, <2>1 DEF Crash, Fails, Rests
<1> QED
  BY <1>2, <1>3, <1>4

LEMMA GoneInit == Init => GoneInv
<1>1. Init => /\ sources = <<>> /\ \A r \in Runner : run[r].pc = "idle"
              /\ \A c \in Conn, i \in Item : ~Deleted(state[c][i])
  BY DEF Init, Idle, Deleted, NoEntry
<1> QED
  BY <1>1 DEF GoneInv, AllIsGone, DeletedIsGone, MarksTheVanished, ArchivedAreMarked,
              Busier, Listing, Bridging, After

LEMMA GoneStep ==
    ASSUME OneRunner, OneConnector, OneInv, GoneInv, [Next]_vars
    PROVE  GoneInv'
<1> SUFFICES ASSUME Spared({"list", "return"})'
             PROVE  AllIsGone'
  BY DEF GoneInv
<1>1. faults \subseteq faults'
  BY FaultsStay
<1>2. "list" \notin faults' /\ "return" \notin faults' /\ AllIsGone
  BY <1>1 DEF Spared, GoneInv
<1>3. ASSUME NEW r \in Runner, Syncs(r), ~FinishSync(r), ~SyncFails(r) PROVE AllIsGone'
  BY <1>2, <1>3, BridgeSteps, GoneBridge, GoneFetch, GoneLoad, GoneSaveState, GoneCall,
     GoneReconcile, GoneArchive, GoneArchiveFails DEF Syncs
<1>4. ASSUME NEW c \in Conn, NEW i \in Item, NEW text \in Text \cup {Gone}, Change(c, i, text)
      PROVE  AllIsGone'
  BY <1>2, <1>4, GoneChange
<1>5. ASSUME UNCHANGED vars PROVE AllIsGone'
  BY <1>2, <1>5 DEF vars, AllIsGone, DeletedIsGone, MarksTheVanished, ArchivedAreMarked
<1>6. Rests => AllIsGone'
  BY <1>2, GoneRests
<1> QED
  BY <1>3, <1>4, <1>5, <1>6, EndsRest DEF Next

-----------------------------------------------------------------------------
(* The sources of what counts as deleted are archived                      *)

\* An entry marked deleted was so before the sync, and is seen gone again unless the
\* item is listed and still to be marked, or it is the entry of an item that vanished.
MarkedWereGone ==
    \A r \in Runner :
      LET c == run[r].conn
          gone == Vanished(run[r].prev, run[r].got)
      IN /\ run[r].pc = "fetch" => run[r].prev = state[c]
         /\ run[r].pc \in Listing => \A i \in Item : Deleted(state[c][i]) =>
              \/ i \in gone \ run[r].todo
              \/ Deleted(run[r].prev[i]) /\ (run[r].got[i] = Gone \/ i \in run[r].todo)
         /\ run[r].pc \in Bridging \cup After => \A i \in Item : Deleted(state[c][i]) =>
              run[r].got[i] = Gone /\ (Deleted(run[r].prev[i]) \/ i \in gone)

\* Archived are the sources of what was marked before and is not listed again, and
\* those of the items that vanished, as far as the sync has come.
ArchivesTheVanished ==
    \A r \in Runner, k \in DOMAIN sources :
      LET i == sources[k].item
          archived == sources[k].status = "archived"
          was == Deleted(run[r].prev[i])
          gone == Vanished(run[r].prev, run[r].got)
      IN /\ run[r].pc \in {"fetch"} \cup Listing => (was => archived)
         /\ run[r].pc \in Bridging \cup {"indexed"} =>
              (was /\ run[r].got[i] = Gone => archived)
         /\ run[r].pc = "archive" =>
              ((was /\ run[r].got[i] = Gone) \/ i \in gone \ run[r].todo => archived)

\* Between syncs nothing is left to be archived.
MarkedAreArchived ==
    (\A r \in Runner : run[r].pc = "idle") =>
        \A k \in DOMAIN sources :
            Deleted(state[sources[k].conn][sources[k].item]) => sources[k].status = "archived"

AllIsArchived == MarkedWereGone /\ ArchivesTheVanished /\ MarkedAreArchived

ArchInv == Spared({"state", "archive", "crash"}) => AllIsArchived

LEMMA ArchFetch ==
    ASSUME OneRunner, OneInv, AllIsArchived, NEW r \in Runner, FetchAll(r)
    PROVE  AllIsArchived'
<1> DEFINE c == run[r].conn
<1>1. /\ run'[r].pc = "mark" /\ run'[r].conn = c /\ run'[r].prev = run[r].prev
      /\ run'[r].todo = Listed(run'[r].got) \cup Vanished(run[r].prev, run'[r].got)
      /\ \A q \in Runner : q = r
  BY FetchMoves DEF OneInv, OneRunner
<1>2. run[r].pc = "fetch" /\ UNCHANGED <<state, sources>>
  BY DEF FetchAll, At
<1>3. run[r].prev = state[c]
  BY <1>2 DEF AllIsArchived, MarkedWereGone
<1>4. \A i \in Item : run'[r].got[i] = Gone \/ i \in run'[r].todo
  BY <1>1 DEF Listed
<1>5. MarkedWereGone'
  BY <1>1, <1>2, <1>3, <1>4 DEF MarkedWereGone, Listing, Bridging, After
<1>6. ArchivesTheVanished'
  BY <1>1, <1>2 DEF AllIsArchived, ArchivesTheVanished, Listing, Bridging
<1>7. MarkedAreArchived'
  BY <1>1 DEF MarkedAreArchived
<1> QED
  BY <1>5, <1>6, <1>7 DEF AllIsArchived

LEMMA ArchLoad ==
    ASSUME OneRunner, OneInv, AllIsArchived, NEW r \in Runner, LoadState(r)
    PROVE  AllIsArchived'
<1>1. /\ run'[r].pc = "write" /\ run'[r].conn = run[r].conn /\ run'[r].prev = run[r].prev
      /\ run'[r].todo = run[r].todo /\ run'[r].got = run[r].got
      /\ \A q \in Runner : q = r
  BY LoadMoves DEF OneInv, OneRunner, Moves
<1>2. run[r].pc = "mark" /\ UNCHANGED <<state, sources>>
  BY DEF LoadState, Busy, At
<1>3. MarkedWereGone'
  BY <1>1, <1>2 DEF AllIsArchived, MarkedWereGone, Listing, Bridging, After
<1>4. ArchivesTheVanished'
  BY <1>1, <1>2 DEF AllIsArchived, ArchivesTheVanished, Listing, Bridging
<1>5. MarkedAreArchived'
  BY <1>1 DEF MarkedAreArchived
<1> QED
  BY <1>3, <1>4, <1>5 DEF AllIsArchived

LEMMA ArchSaveState ==
    ASSUME OneRunner, OneInv, AllIsArchived, NEW r \in Runner, SaveState(r)
    PROVE  AllIsArchived'
<1> DEFINE c == run[r].conn
           i == Current(r)
           gone == Vanished(run[r].prev, run[r].got)
<1>1. /\ run'[r].pc = "mark" /\ run'[r].conn = c /\ run'[r].prev = run[r].prev
      /\ run'[r].todo = run[r].todo \ {i} /\ run'[r].got = run[r].got
      /\ \A q \in Runner : q = r
  BY SaveStateMoves DEF OneInv, OneRunner, Moves, Left
<1>2. run[r].pc = "write" /\ UNCHANGED sources
  BY DEF SaveState, At
<1>3. /\ \A j \in Item \ {i} : state'[c][j] = state[c][j]
      /\ Deleted(state'[c][i]) => i \in gone
  BY MarkWritten
<1>4. \A j \in Item : Deleted(state[c][j]) =>
        \/ j \in gone \ run[r].todo
        \/ Deleted(run[r].prev[j]) /\ (run[r].got[j] = Gone \/ j \in run[r].todo)
  BY <1>2 DEF AllIsArchived, MarkedWereGone, Listing
<1>5. MarkedWereGone'
  <2> HIDE DEF i
  <2>1. \A j \in Item : Deleted(state'[c][j]) =>
          \/ j \in gone \ (run[r].todo \ {i})
          \/ /\ Deleted(run[r].prev[j])
             /\ run[r].got[j] = Gone \/ j \in run[r].todo \ {i}
    BY <1>3, <1>4
  <2> QED
    BY <1>1, <2>1 DEF MarkedWereGone, Listing, Bridging, After
<1>6. ArchivesTheVanished'
  BY <1>1, <1>2 DEF AllIsArchived, ArchivesTheVanished, Listing, Bridging
<1>7. MarkedAreArchived'
  BY <1>1 DEF MarkedAreArchived
<1> QED
  BY <1>5, <1>6, <1>7 DEF AllIsArchived

LEMMA ArchCall ==
    ASSUME OneRunner, OneInv, AllIsArchived, NEW r \in Runner, CallBridge(r)
    PROVE  AllIsArchived'
<1>1. /\ run'[r].pc = "bridge" /\ run'[r].conn = run[r].conn /\ run'[r].prev = run[r].prev
      /\ run'[r].got = run[r].got /\ \A q \in Runner : q = r
  BY CallMoves DEF OneInv, OneRunner, Moves
<1>2. run[r].pc = "mark" /\ run[r].todo = {} /\ UNCHANGED <<state, sources>>
  BY DEF CallBridge, At
<1>3. \A i \in Vanished(run[r].prev, run[r].got) : run[r].got[i] = Gone
  BY DEF Vanished
<1>4. MarkedWereGone'
  BY <1>1, <1>2, <1>3 DEF AllIsArchived, MarkedWereGone, Listing, Bridging, After
<1>5. ArchivesTheVanished'
  BY <1>1, <1>2 DEF AllIsArchived, ArchivesTheVanished, Listing, Bridging
<1>6. MarkedAreArchived'
  BY <1>1 DEF MarkedAreArchived
<1> QED
  BY <1>4, <1>5, <1>6 DEF AllIsArchived

LEMMA ArchBridge ==
    ASSUME OneRunner, AllIsArchived, NEW r \in Runner, BridgesOn(r)
    PROVE  AllIsArchived'
<1>1. \A q \in Runner : q = r
  BY DEF OneRunner
<1>2. MarkedWereGone'
  BY <1>1 DEF AllIsArchived, MarkedWereGone, Listing, Bridging, After, BridgesOn
<1>3. ArchivesTheVanished'
  BY <1>1 DEF AllIsArchived, ArchivesTheVanished, Listing, Bridging, BridgesOn
<1>4. MarkedAreArchived'
  BY DEF MarkedAreArchived, Bridging, BridgesOn
<1> QED
  BY <1>2, <1>3, <1>4 DEF AllIsArchived

LEMMA ArchReconcile ==
    ASSUME OneRunner, OneInv, AllIsArchived, NEW r \in Runner, Reconcile(r)
    PROVE  AllIsArchived'
<1>1. /\ Moves(r, "archive", Vanished(run[r].prev, run[r].got), NoEntry, run[r].parsed)
      /\ run[r].pc = "indexed" /\ UNCHANGED <<state, sources>>
      /\ \A q \in Runner : q = r
  BY ReconcileMoves DEF Reconcile, At, OneInv, OneRunner
<1>2. MarkedWereGone'
  BY <1>1 DEF AllIsArchived, MarkedWereGone, Listing, Bridging, After, Moves
<1>3. ArchivesTheVanished'
  BY <1>1 DEF AllIsArchived, ArchivesTheVanished, Listing, Bridging, Moves
<1>4. MarkedAreArchived'
  BY <1>1 DEF MarkedAreArchived, Moves
<1> QED
  BY <1>2, <1>3, <1>4 DEF AllIsArchived

\* The source found by the external id is the only one of the item.
LEMMA ArchArchive ==
    ASSUME OneRunner, OneConnector, OneInv, AllIsArchived, NEW r \in Runner, Archive(r)
    PROVE  AllIsArchived'
<1> DEFINE i == Current(r)
           k == FoundById(i)
           gone == Vanished(run[r].prev, run[r].got)
<1>1. /\ Moves(r, "archive", run[r].todo \ {i}, NoEntry, run[r].parsed)
      /\ run[r].pc = "archive" /\ UNCHANGED state
      /\ \A q \in Runner : q = r
  BY ArchiveMoves DEF Archive, Busy, At, Left, OneInv, OneRunner
<1>2. MarkedWereGone'
  BY <1>1 DEF AllIsArchived, MarkedWereGone, Listing, Bridging, After, Moves
<1>3. \A j \in DOMAIN sources : sources[j].item = i <=> j = k
  <2>1. /\ k # 0 => k \in DOMAIN sources /\ sources[k].item = i
        /\ k = 0 => \A j \in DOMAIN sources : sources[j].item # i
    BY FoundByIdIsOfItem DEF OneInv
  <2>2. \A j \in DOMAIN sources : j # 0 /\ sources[j].conn \in Conn
    BY SourceFields DEF TypeOK, OneInv
  <2> HIDE DEF i, k
  <2> QED
    BY <2>1, <2>2 DEF OneInv, OneSource, OneConnector
<1>4. /\ DOMAIN sources' = DOMAIN sources
      /\ \A j \in DOMAIN sources :
           /\ sources'[j].item = sources[j].item
           /\ j # k => sources'[j].status = sources[j].status
           /\ j = k => sources'[j].status = "archived"
  <2>1. 0 \notin DOMAIN sources
    BY DEF TypeOK, OneInv
  <2> QED
    BY <2>1, ArchiveEdits DEF Edits, OneInv
<1>5. \A j \in DOMAIN sources :
        (\/ Deleted(run[r].prev[sources[j].item]) /\ run[r].got[sources[j].item] = Gone
         \/ sources[j].item \in gone \ run[r].todo) => sources[j].status = "archived"
  BY <1>1 DEF AllIsArchived, ArchivesTheVanished
<1>6. \A j \in DOMAIN sources' :
        (\/ Deleted(run[r].prev[sources'[j].item]) /\ run[r].got[sources'[j].item] = Gone
         \/ sources'[j].item \in gone \ (run[r].todo \ {i})) => sources'[j].status = "archived"
  <2> HIDE DEF i, k, gone
  <2> QED
    BY <1>3, <1>4, <1>5
<1>7. ArchivesTheVanished'
  BY <1>1, <1>6 DEF ArchivesTheVanished, Listing, Bridging, Moves
<1>8. MarkedAreArchived'
  BY <1>1 DEF MarkedAreArchived, Moves
<1> QED
  BY <1>2, <1>7, <1>8 DEF AllIsArchived

LEMMA ArchFinish ==
    ASSUME OneRunner, OneConnector, OneInv, AllIsArchived, NEW r \in Runner, FinishSync(r)
    PROVE  AllIsArchived'
<1>1. /\ run[r].pc = "archive" /\ run[r].todo = {} /\ UNCHANGED <<state, sources>>
      /\ \A q \in Runner : q = r /\ run'[q].pc = "idle"
  BY DEF FinishSync, At, OneInv, OneRunner, TypeOK, Idle
<1>2. MarkedWereGone' /\ ArchivesTheVanished'
  BY <1>1 DEF MarkedWereGone, ArchivesTheVanished, Listing, Bridging, After
<1>3. \A k \in DOMAIN sources : sources[k].conn = run[r].conn /\ sources[k].item \in Item
  BY <1>1, GoingOn, SourceFields DEF OneConnector, OneInv
<1>4. MarkedAreArchived'
  BY <1>1, <1>3 DEF AllIsArchived, MarkedWereGone, ArchivesTheVanished, MarkedAreArchived, After
<1> QED
  BY <1>2, <1>4 DEF AllIsArchived

LEMMA ArchStart ==
    ASSUME OneRunner, OneConnector, OneInv, AllIsArchived, NEW r \in Runner, NEW c \in Conn,
           StartSync(r, c)
    PROVE  AllIsArchived'
<1>1. /\ \A q \in Runner : q = r /\ run[q].pc = "idle"
      /\ run'[r].pc = "fetch" /\ run'[r].conn = c /\ run'[r].prev = state[c]
      /\ UNCHANGED <<state, sources>>
  BY DEF StartSync, At, OneRunner, OneInv, TypeOK
<1>2. \A k \in DOMAIN sources : sources[k].conn = c
  BY SourceFields DEF OneConnector, OneInv
<1>3. MarkedWereGone' /\ MarkedAreArchived'
  BY <1>1 DEF MarkedWereGone, MarkedAreArchived, Listing, Bridging, After
<1>4. ArchivesTheVanished'
  BY <1>1, <1>2 DEF AllIsArchived, ArchivesTheVanished, MarkedAreArchived, Listing, Bridging
<1> QED
  BY <1>3, <1>4 DEF AllIsArchived

LEMMA ArchInit == Init => ArchInv
<1>1. Init => sources = <<>> /\ \A r \in Runner : run[r].pc = "idle"
  BY DEF Init, Idle
<1> QED
  BY <1>1 DEF ArchInv, AllIsArchived, MarkedWereGone, ArchivesTheVanished, MarkedAreArchived,
              Listing, Bridging, After

LEMMA ArchStep ==
    ASSUME OneRunner, OneConnector, OneInv, ArchInv, [Next]_vars
    PROVE  ArchInv'
<1> SUFFICES ASSUME Spared({"state", "archive", "crash"})'
             PROVE  AllIsArchived'
  BY DEF ArchInv
<1>1. faults \subseteq faults'
  BY FaultsStay
<1>2. /\ "state" \notin faults' /\ "archive" \notin faults' /\ "crash" \notin faults'
      /\ AllIsArchived
  BY <1>1 DEF Spared, ArchInv
<1>3. ~Crash /\ \A r \in Runner : ~SyncFails(r) /\ ~ArchiveFails(r)
  BY <1>2 DEF Crash, SyncFails, ArchiveFails, Fails
<1>4. ASSUME NEW r \in Runner, Syncs(r) PROVE AllIsArchived'
  BY <1>2, <1>3, <1>4, BridgeSteps, ArchBridge, ArchFetch, ArchLoad, ArchSaveState, ArchCall,
     ArchReconcile, ArchArchive, ArchFinish DEF Syncs
<1>5. ASSUME NEW r \in Runner, NEW c \in Conn, StartSync(r, c) PROVE AllIsArchived'
  BY <1>2, <1>5, ArchStart
<1>6. ASSUME UNCHANGED <<state, sources, run>> PROVE AllIsArchived'
  BY <1>2, <1>6 DEF AllIsArchived, MarkedWereGone, ArchivesTheVanished, MarkedAreArchived
<1> QED
  BY <1>3, <1>4, <1>5, <1>6 DEF Next, Change, vars

\* Between syncs of one connector, one at a time: a source is archived only if its item
\* counts as deleted, unless a listing failed or an item came back; and the sources of all
\* items that count as deleted are archived, unless archiving failed, which no later sync
\* makes up for, or a sync ended before it came to that (sync_connector: "Mark associated
\* DataSources as archived").
THEOREM ArchivedIsDeletedHolds == OneRunner /\ OneConnector => (Spec => []ArchivedIsDeleted)
<1> SUFFICES ASSUME OneRunner, OneConnector PROVE Spec => []ArchivedIsDeleted
  OBVIOUS
<1>1. Init => OneInv /\ GoneInv /\ ArchInv
  BY OneStart, GoneInit, ArchInit
<1>2. OneInv /\ GoneInv /\ ArchInv /\ [Next]_vars => (OneInv /\ GoneInv /\ ArchInv)'
  BY OneStep, GoneStep, ArchStep
<1>3. OneInv /\ GoneInv /\ ArchInv => ArchivedIsDeleted
  <2> SUFFICES ASSUME OneInv, GoneInv, ArchInv, NEW k \in DOMAIN sources, Quiet(sources[k].conn)
               PROVE  /\ Spared({"list", "return"}) =>
                           (sources[k].status = "archived"
                              => Deleted(state[sources[k].conn][sources[k].item]))
                      /\ Spared({"state", "archive", "crash"}) =>
                           (Deleted(state[sources[k].conn][sources[k].item])
                              => sources[k].status = "archived")
    BY DEF ArchivedIsDeleted, Deleted
  <2>1. \A r \in Runner : run[r].pc = "idle"
    <3>1. ASSUME NEW r \in Runner, run[r].pc # "idle" PROVE run[r].conn \in Conn
      BY <3>1 DEF OneInv, TypeOK, RunsOK, Idle, Starting, Going
    <3>2. sources[k].conn \in Conn
      BY SourceFields DEF OneInv
    <3> QED
      BY <3>1, <3>2 DEF Quiet, At, ConnOf, OneConnector
  <2> QED
    BY <2>1 DEF GoneInv, AllIsGone, ArchivedAreMarked, ArchInv, AllIsArchived, MarkedAreArchived
<1> QED
  BY <1>1, <1>2, <1>3, PTL DEF Spec
-----------------------------------------------------------------------------
(* Imports by copying: one file, whatever is there                          *)

Absent == << >>

CR == INSTANCE ConnectorRules WITH None <- Absent

\* A file of a folder: its name is a sequence of words and counters.
ImportFile(Token, Body) ==
    [dir : STRING, name : Seq(Token), kind : STRING,
     protected : BOOLEAN, link : BOOLEAN, gone : BOOLEAN, body : Body]

\* The attempts that would succeed, as CopySafe has them.
Free(f, T) == {n \in 0..Cardinality(T) : CR!Numbered(f, n) \notin T}

\* No name is tried twice.
LEMMA TriedOnce ==
    ASSUME NEW Token, Nat \subseteq Token, NEW Body, NEW f \in ImportFile(Token, Body),
           NEW m \in Nat, NEW n \in Nat, CR!Numbered(f, m) = CR!Numbered(f, n)
    PROVE  m = n
<1> DEFINE nm == f.name
           N(k) == IF k = 0 THEN nm ELSE Append(nm, k)
<1>1. nm \in Seq(Token)
  BY DEF ImportFile
<1>2. \A k \in Nat : CR!Numbered(f, k).name = N(k)
  BY DEF CR!Numbered, CR!NormalizeTarget
<1>3. N(m) = N(n)
  BY <1>2
<1>4. \A k \in Nat \ {0} : /\ Append(nm, k) \in Seq(Token)
                           /\ Len(Append(nm, k)) = Len(nm) + 1
                           /\ Append(nm, k)[Len(nm) + 1] = k
  BY <1>1
<1>5. Len(nm) \in Nat
  BY <1>1
<1> HIDE DEF nm
<1>6. CASE m = 0 /\ n # 0
  <2>1. nm = Append(nm, n)
    BY <1>3, <1>6
  <2>2. Len(nm) = Len(nm) + 1
    BY <1>4, <1>6, <2>1
  <2> QED
    BY <1>5, <2>2
<1>8. CASE m # 0 /\ n = 0
  <2>1. nm = Append(nm, m)
    BY <1>3, <1>8
  <2>2. Len(nm) = Len(nm) + 1
    BY <1>4, <1>8, <2>1
  <2> QED
    BY <1>5, <2>2
<1>7. CASE m # 0 /\ n # 0
  <2>1. Append(nm, m) = Append(nm, n)
    BY <1>3, <1>7
  <2> QED
    BY <1>4, <1>7, <2>1
<1> QED
  BY <1>6, <1>7, <1>8

\* One of the names tried is free, after at most as many attempts as there are files, so that
\* the search for one ends.
LEMMA SearchEnds ==
    ASSUME NEW Token, Nat \subseteq Token, NEW Body, NEW f \in ImportFile(Token, Body),
           NEW T, IsFiniteSet(T)
    PROVE  /\ CR!Min(Free(f, T)) \in Free(f, T)
           /\ \A n \in Free(f, T) : CR!Min(Free(f, T)) <= n
<1> DEFINE free == Free(f, T)
<1>1. Cardinality(T) \in Nat
  BY FS_CardinalityType
<1>2. IsFiniteSet(0..Cardinality(T)) /\ Cardinality(0..Cardinality(T)) = Cardinality(T) + 1
  BY <1>1, FS_Interval
<1>3. ASSUME free = {} PROVE FALSE
  <2> DEFINE g == [n \in 0..Cardinality(T) |-> CR!Numbered(f, n)]
  <2>1. g \in [0..Cardinality(T) -> T]
    BY <1>3 DEF Free
  <2>2. Cardinality(T) < Cardinality(0..Cardinality(T))
    BY <1>1, <1>2
  <2>3. PICK x \in 0..Cardinality(T), y \in 0..Cardinality(T) : x # y /\ g[x] = g[y]
    <3> HIDE DEF g
    <3> QED
      BY <1>2, <2>1, <2>2, FS_PigeonHole
  <2>4. x \in Nat /\ y \in Nat /\ CR!Numbered(f, x) = CR!Numbered(f, y)
    BY <1>1, <2>3
  <2> QED
    BY <2>3, <2>4, TriedOnce
<1>4. free \in SUBSET Nat
  BY <1>1 DEF Free
<1>5. Min(free) = CR!Min(free)
  BY DEF Min, CR!Min
<1> HIDE DEF free
<1>6. Min(free) \in free /\ \A n \in free : Min(free) <= n
  BY <1>3, <1>4, Least
<1> QED
  BY <1>5, <1>6 DEF free

\* Importing a file leaves every earlier copy as it is, however many there are and whatever
\* their names: the file is skipped, or its body is put at a place that was free, under its
\* name or its name with a counter ("never overwriting an existing file silently" of
\* _copy_safe). What it leaves is such that the same holds of the next file: CopiesStand,
\* one step of it.
THEOREM CopiesAreNeverOverwritten ==
    ASSUME NEW Token, Nat \subseteq Token, NEW Body, NEW f \in ImportFile(Token, Body),
           NEW held, IsFiniteSet(DOMAIN held), NEW done, NEW skipped
    PROVE  LET next == CR!RunLocalFilesImport(
                         [held |-> held, imported |-> done, skipped |-> skipped], f)
           IN  /\ IsFiniteSet(DOMAIN next.held)
               /\ \A p \in DOMAIN held : p \in DOMAIN next.held /\ next.held[p] = held[p]
               /\ IF f.gone \/ ~CR!Included(f)
                  THEN next.held = held /\ next.imported = done /\ next.skipped = skipped \cup {f}
                  ELSE
                     /\ \E n \in 0..Cardinality(DOMAIN held) : LET p == CR!Numbered(f, n) IN
                           /\ \A m \in 0..(n - 1) : CR!Numbered(f, m) \in DOMAIN held
                           /\ DOMAIN next.held = DOMAIN held \cup {p}
                           /\ p \notin DOMAIN held
                           /\ next.held[p] = f.body
                     /\ next.imported = done \cup {f} /\ next.skipped = skipped
<1> DEFINE job == [held |-> held, imported |-> done, skipped |-> skipped]
           next == CR!RunLocalFilesImport(job, f)
<1>1. CASE ~f.gone /\ CR!Included(f)
  <2>1. Cardinality(DOMAIN held) \in Nat
    BY FS_CardinalityType
  <2>2. CR!Min(Free(f, DOMAIN held)) \in Free(f, DOMAIN held)
    BY SearchEnds
  <2>3. PICK n \in 0..Cardinality(DOMAIN held) : n = CR!Min(Free(f, DOMAIN held))
    BY <2>1, <2>2 DEF Free
  <2>4. \A m \in 0..(n - 1) : CR!Numbered(f, m) \in DOMAIN held
    <3>1. \A m \in Free(f, DOMAIN held) : n <= m
      BY <2>3, SearchEnds
    <3> QED
      BY <2>1, <3>1 DEF Free
  <2>5. PICK p : p = CR!Numbered(f, n)
    OBVIOUS
  <2>6. p \notin DOMAIN held
    BY <2>2, <2>3, <2>5 DEF Free
  <2>7. CR!CopySafe(held, f)
          = [q \in DOMAIN held \cup {p} |-> IF q = p THEN f.body ELSE held[q]]
    <3>1. p = CR!Numbered(f, CR!Min(Free(f, DOMAIN held)))
      BY <2>3, <2>5
    <3>2. CR!Cardinality(DOMAIN held) = Cardinality(DOMAIN held)
      BY DEF Cardinality, CR!Cardinality
    <3>3. CR!CopySafe(held, f)
            = LET path == CR!Numbered(f, CR!Min(Free(f, DOMAIN held)))
              IN  [q \in DOMAIN held \cup {path} |-> IF q = path THEN f.body ELSE held[q]]
      BY <3>2, Zenon DEF CR!CopySafe, Free
    <3> QED
      BY <3>1, <3>3, Zenon
  <2>8. next = [held |-> CR!CopySafe(held, f), imported |-> done \cup {f}, skipped |-> skipped]
    BY <1>1 DEF CR!RunLocalFilesImport
  <2>9. IsFiniteSet(DOMAIN held \cup {p})
    BY FS_AddElement
  <2> HIDE DEF next, job
  <2>10. DOMAIN next.held = DOMAIN held \cup {p} /\ next.held[p] = f.body
        /\ \A q \in DOMAIN held : next.held[q] = held[q]
    BY <2>6, <2>7, <2>8
  <2>11. next.imported = done \cup {f} /\ next.skipped = skipped
    BY <2>8
  <2> QED
    BY <1>1, <2>4, <2>5, <2>6, <2>9, <2>10, <2>11 DEF next, job
<1>2. CASE ~(~f.gone /\ CR!Included(f))
  <2>1. next = [job EXCEPT !.skipped = @ \cup {f}]
    BY <1>2 DEF CR!RunLocalFilesImport
  <2>2. next.held = held /\ next.imported = done /\ next.skipped = skipped \cup {f}
    BY <2>1
  <2> QED
    BY <1>2, <2>2
<1> QED
  BY <1>1, <1>2

-----------------------------------------------------------------------------
(* Fetching a batch, item by item                                           *)

Seconds == CR!RetryAfter
Window == [at : Nat, after : {Seconds}]
Fetch == [from : Nat, to : Nat, error : SUBSET STRING, held : BOOLEAN]
Batch == [now : Nat, limit : {Absent} \cup Window, done : Seq(Fetch)]
FetchedItem == [gap : Nat, answers : [1..4 -> SUBSET STRING]]

\* An error that names the rate limit keeps items off at time t.
Limits(done, t) == \E i \in DOMAIN done : "429" \in done[i].error /\ t < done[i].to + Seconds

\* An item was held off exactly if an error before it did.
HeldOff(done) ==
    \A j \in DOMAIN done : done[j].held <=> \E i \in 1..(j - 1) :
        "429" \in done[i].error /\ done[j].from < done[i].to + Seconds

\* The items held off are those an earlier error keeps off, and from now on the window says
\* which errors do.
BatchInv(s) ==
    /\ s \in Batch
    /\ HeldOff(s.done)
    /\ \A t \in Nat : t >= s.now =>
          (Limits(s.done, t) <=> s.limit # Absent /\ t < s.limit.at + Seconds)

\* Retries end: after at most four calls, and with the first answer that is not to be retried.
LEMMA RetriesEnd ==
    ASSUME NEW answers \in [1..4 -> SUBSET STRING]
    PROVE  LET r == CR!ExecuteWithRetry(answers) IN
           /\ r.calls \in 1..4 /\ r.error = answers[r.calls] /\ r.error \in SUBSET STRING
           /\ r.error = {} \/ ~CR!ShouldRetry(r.error, r.calls)
           /\ \A k \in 1..(r.calls - 1) : answers[k] # {} /\ CR!ShouldRetry(answers[k], k)
           /\ r.took \in Nat
<1> DEFINE Stops(k) == answers[k] = {} \/ ~CR!ShouldRetry(answers[k], k)
           stops == {k \in 1..(CR!MaxRetries + 1) : Stops(k)}
           r == CR!ExecuteWithRetry(answers)
           Wait(k) == IF k < CR!Min(stops) THEN CR!GetDelay(k) ELSE 0
<1>1. r = [calls |-> CR!Min(stops), error |-> answers[CR!Min(stops)],
           took |-> Wait(1) + Wait(2) + Wait(3)]
  BY Zenon DEF CR!ExecuteWithRetry
<1>2. 4 \in stops
  BY DEF CR!ShouldRetry, CR!MaxRetries
<1>3. stops \in SUBSET Nat
  BY DEF CR!MaxRetries
<1>4. CR!Min(stops) = Min(stops)
  BY DEF Min, CR!Min
<1>5. CR!GetDelay(1) \in Nat /\ CR!GetDelay(2) \in Nat /\ CR!GetDelay(3) \in Nat
  <2>1. ASSUME NEW k \in {1, 2, 3} PROVE CR!GetDelay(k) \in Nat
    <3>1. 2^(k - 1) \in Nat
      <4>1. 2^0 \in Nat /\ 2^1 \in Nat /\ 2^2 \in Nat
        OBVIOUS
      <4>2. k - 1 = 0 \/ k - 1 = 1 \/ k - 1 = 2
        OBVIOUS
      <4> QED
        BY <4>1, <4>2, Zenon
    <3>2. Min({2^(k - 1), 30}) \in {2^(k - 1), 30}
      BY <3>1, Least
    <3> QED
      BY <3>1, <3>2 DEF CR!GetDelay, CR!Min, Min
  <2> QED
    BY <2>1
<1> HIDE DEF stops
<1>6. CR!Min(stops) \in stops /\ \A n \in stops : CR!Min(stops) <= n
  BY <1>2, <1>3, <1>4, Least
<1>7. CR!Min(stops) \in 1..4 /\ Stops(CR!Min(stops))
  BY <1>6 DEF stops, CR!MaxRetries
<1>8. \A k \in 1..(CR!Min(stops) - 1) : ~Stops(k)
  BY <1>6, <1>7 DEF stops, CR!MaxRetries
<1>9. Wait(1) + Wait(2) + Wait(3) \in Nat
  BY <1>5
<1> HIDE DEF r, Wait, Stops
<1>10. /\ r.calls = CR!Min(stops) /\ r.error = answers[CR!Min(stops)]
       /\ r.took = Wait(1) + Wait(2) + Wait(3)
  BY <1>1
<1>11. answers[CR!Min(stops)] \in SUBSET STRING
  BY <1>7
<1> QED
  BY <1>7, <1>8, <1>9, <1>10, <1>11 DEF r, Stops

\* What a batch has done after one item more.
LEMMA OneMore ==
    ASSUME NEW d \in Seq(Fetch), NEW e \in Fetch
    PROVE  /\ Append(d, e) \in Seq(Fetch)
           /\ \A t \in Nat : Limits(Append(d, e), t) <=> \/ Limits(d, t)
                                                \/ ("429" \in e.error /\ t < e.to + Seconds)
           /\ HeldOff(d) /\ (e.held <=> Limits(d, e.from)) => HeldOff(Append(d, e))
<1>1. PICK n \in Nat : n = Len(d) /\ DOMAIN d = 1..n
  OBVIOUS
<1>2. PICK dd : dd = Append(d, e)
  OBVIOUS
<1>3. dd \in Seq(Fetch) /\ DOMAIN dd = 1..(n + 1) /\ dd[n + 1] = e
      /\ \A j \in 1..n : dd[j] = d[j]
  BY <1>1, <1>2
<1>4. \A t \in Nat : Limits(dd, t) <=> Limits(d, t) \/ ("429" \in e.error /\ t < e.to + Seconds)
  <2>1. ASSUME NEW t \in Nat, Limits(dd, t)
        PROVE  Limits(d, t) \/ ("429" \in e.error /\ t < e.to + Seconds)
    <3>1. PICK i \in 1..(n + 1) : "429" \in dd[i].error /\ t < dd[i].to + Seconds
      BY <1>3, <2>1, Zenon DEF Limits
    <3>2. CASE i \in 1..n
      <4>1. i \in DOMAIN d /\ dd[i] = d[i]
        BY <1>1, <1>3, <3>2
      <4> QED
        BY <3>1, <4>1 DEF Limits
    <3>3. CASE i = n + 1
      BY <1>3, <3>1, <3>3, Zenon
    <3> QED
      BY <1>1, <3>2, <3>3
  <2>2. ASSUME NEW t \in Nat, Limits(d, t)
        PROVE  Limits(dd, t)
    <3>1. PICK i \in 1..n : "429" \in d[i].error /\ t < d[i].to + Seconds
      BY <1>1, <2>2, Zenon DEF Limits
    <3>2. i \in DOMAIN dd /\ dd[i] = d[i]
      BY <1>1, <1>3
    <3> QED
      BY <3>1, <3>2, Zenon DEF Limits
  <2>3. ASSUME NEW t \in Nat, "429" \in e.error, t < e.to + Seconds
        PROVE  Limits(dd, t)
    <3>1. n + 1 \in DOMAIN dd
      BY <1>1, <1>3
    <3> QED
      BY <1>3, <2>3, <3>1, Zenon DEF Limits
  <2> QED
    BY <2>1, <2>2, <2>3, Zenon
<1>5. ASSUME HeldOff(d), e.held <=> Limits(d, e.from), NEW j \in DOMAIN dd
      PROVE  dd[j].held <=> \E i \in 1..(j - 1) :
               "429" \in dd[i].error /\ dd[j].from < dd[i].to + Seconds
  <2>1. CASE j \in 1..n
    <3>1. \A i \in 1..(j - 1) : dd[i] = d[i]
      BY <1>3, <2>1
    <3> QED
      BY <1>1, <1>3, <1>5, <2>1, <3>1 DEF HeldOff
  <2>2. CASE j = n + 1
    BY <1>1, <1>3, <1>5, <2>2 DEF Limits
  <2> QED
    BY <1>3, <2>1, <2>2
<1> QED
  BY <1>2, <1>3, <1>4, <1>5 DEF HeldOff

LEMMA OneMoreLimits ==
    ASSUME NEW d \in Seq(Fetch), NEW e \in Fetch, NEW dd, dd = Append(d, e), NEW t \in Nat
    PROVE  Limits(dd, t) <=> Limits(d, t) \/ ("429" \in e.error /\ t < e.to + Seconds)
BY OneMore

LEMMA OneMoreHeldOff ==
    ASSUME NEW d \in Seq(Fetch), NEW e \in Fetch, NEW dd, dd = Append(d, e),
           HeldOff(d), e.held <=> Limits(d, e.from)
    PROVE  HeldOff(dd)
BY OneMore

\* Whatever items a batch has, when they are asked for and whatever they are answered: an item
\* is held off exactly if an earlier rate-limit error of the batch was less than the default
\* window ago when its turn came, all its retries being part of the error (_process_batch,
\* check_rate_limited: "WindowsAreKept", one step of it for a batch of any length).
THEOREM WindowsAreKeptByEveryItem ==
    /\ BatchInv([now |-> 0, limit |-> Absent, done |-> << >>])
    /\ \A s \in Batch, item \in FetchedItem : BatchInv(s) => BatchInv(CR!ProcessItem(s, item))
<1>1. BatchInv([now |-> 0, limit |-> Absent, done |-> << >>])
  <2> PICK s : s = [now |-> 0, limit |-> Absent, done |-> << >>]
    OBVIOUS
  <2>1. s.now = 0 /\ s.limit = Absent /\ s.done = << >> /\ s \in Batch
    BY DEF Batch
  <2> QED
    BY <2>1 DEF BatchInv, Limits, HeldOff
<1>2. ASSUME NEW s \in Batch, NEW item \in FetchedItem, BatchInv(s)
      PROVE  BatchInv(CR!ProcessItem(s, item))
  <2>1. PICK now : now = s.now + item.gap
    OBVIOUS
  <2>2. PICK r : r = CR!ExecuteWithRetry(item.answers)
    OBVIOUS
  <2>3. PICK limit : limit = CR!CheckRateLimited(s.limit, now)
    OBVIOUS
  <2>4. now \in Nat /\ now >= s.now
    BY <2>1 DEF Batch, FetchedItem
  <2>5. r.took \in Nat /\ r.error \in SUBSET STRING
    <3>1. item.answers \in [1..4 -> SUBSET STRING]
      BY DEF FetchedItem
    <3> QED
      BY <2>2, <3>1, RetriesEnd
  <2>6. s.done \in Seq(Fetch) /\ s.limit \in {Absent} \cup Window
    BY DEF Batch
  <2>7. \A w \in Window : w # Absent /\ w.at \in Nat /\ w.after = Seconds
    <3>1. ASSUME NEW w \in Window PROVE w # Absent
      <4>1. "at" \in DOMAIN w
        BY DEF Window
      <4>2. DOMAIN Absent = {}
        BY DEF Absent
      <4> QED
        BY <4>1, <4>2, Zenon
    <3> QED
      BY <3>1 DEF Window
  <2>8. Seconds = 60
    BY DEF Seconds, CR!RetryAfter
  <2>9. Limits(s.done, now) <=> limit # Absent
    <3>1. Limits(s.done, now) <=> s.limit # Absent /\ now < s.limit.at + Seconds
      BY <1>2, <2>4 DEF BatchInv
    <3>2. limit = IF s.limit # Absent /\ now - s.limit.at >= s.limit.after THEN Absent
                  ELSE s.limit
      BY <2>3, Zenon DEF CR!CheckRateLimited
    <3> QED
      BY <2>4, <2>6, <2>7, <2>8, <3>1, <3>2
  <2>10. limit # Absent => limit = s.limit
    BY <2>3, Zenon DEF CR!CheckRateLimited
  <2>11. CASE limit # Absent
    <3>1. PICK e : e = [from |-> now, to |-> now, error |-> {}, held |-> TRUE]
      OBVIOUS
    <3>2. e \in Fetch /\ e.from = now /\ e.error = {} /\ e.held
      BY <2>4, <3>1 DEF Fetch
    <3>3. PICK u : u = CR!ProcessItem(s, item)
      OBVIOUS
    <3>4. u = [s EXCEPT !.now = now, !.limit = limit,
                        !.done = Append(@, [from |-> now, to |-> now, error |-> {}, held |-> TRUE])]
      <4>1. CR!CheckRateLimited(s.limit, s.now + item.gap) # Absent
        BY <2>1, <2>3, <2>11, Zenon
      <4> QED
        BY <2>1, <2>3, <3>3, <4>1, Zenon DEF CR!ProcessItem
    <3>5. u = [now |-> now, limit |-> limit, done |-> Append(s.done, e)]
      <4>1. s = [now |-> s.now, limit |-> s.limit, done |-> s.done]
        BY DEF Batch
      <4> QED
        BY <3>1, <3>4, <4>1
    <3>6. u.now = now /\ u.limit = limit /\ u.done = Append(s.done, e) /\ u \in Batch
      BY <2>4, <2>6, <2>10, <2>11, <3>2, <3>5, OneMore DEF Batch
    <3>7. \A t \in Nat : Limits(u.done, t) <=> Limits(s.done, t)
      <4>1. \A t \in Nat : Limits(u.done, t)
                <=> Limits(s.done, t) \/ ("429" \in e.error /\ t < e.to + Seconds)
        <5>1. e \in Fetch /\ u.done = Append(s.done, e)
          BY <3>2, <3>6
        <5> QED
          BY <2>6, <5>1, OneMoreLimits
      <4>2. "429" \notin e.error
        BY <3>2
      <4> QED
        BY <4>1, <4>2
    <3>8. HeldOff(u.done)
      <4>1. HeldOff(s.done)
        BY <1>2 DEF BatchInv
      <4> QED
        <5>1. e.held <=> Limits(s.done, e.from)
          BY <2>9, <2>11, <3>2
        <5>2. e \in Fetch /\ u.done = Append(s.done, e)
          BY <3>2, <3>6
        <5> QED
          BY <2>6, <4>1, <5>1, <5>2, OneMoreHeldOff
    <3>9. \A t \in Nat : t >= u.now =>
             (Limits(u.done, t) <=> u.limit # Absent /\ t < u.limit.at + Seconds)
      BY <1>2, <2>4, <2>10, <2>11, <3>6, <3>7 DEF BatchInv, Batch
    <3> QED
      BY <3>3, <3>6, <3>8, <3>9 DEF BatchInv
  <2>12. CASE limit = Absent
    <3>1. PICK end \in Nat : end = now + r.took
      BY <2>4, <2>5
    <3>2. PICK e : e = [from |-> now, to |-> end, error |-> r.error, held |-> FALSE]
      OBVIOUS
    <3>3. e \in Fetch /\ e.from = now /\ e.to = end /\ e.error = r.error /\ ~e.held
      BY <2>4, <2>5, <3>1, <3>2 DEF Fetch
    <3>4. PICK w : w = [at |-> end, after |-> 60]
      OBVIOUS
    <3>5. w \in Window /\ w # Absent /\ w.at = end
      BY <2>7, <2>8, <3>4 DEF Window
    <3>6. PICK u : u = CR!ProcessItem(s, item)
      OBVIOUS
    <3>7. u = [now |-> end, limit |-> IF "429" \in r.error THEN w ELSE limit,
               done |-> Append(s.done, e)]
      BY <2>1, <2>2, <2>3, <2>12, <3>1, <3>2, <3>4, <3>6
      DEF CR!ProcessItem, CR!Record429, CR!RetryAfter
    <3>8. /\ u.now = end /\ u.limit = IF "429" \in r.error THEN w ELSE Absent
          /\ u.done = Append(s.done, e) /\ u \in Batch
      BY <2>6, <2>12, <3>3, <3>5, <3>7, OneMore DEF Batch
    <3>9. \A t \in Nat : Limits(u.done, t)
             <=> Limits(s.done, t) \/ ("429" \in r.error /\ t < end + Seconds)
      <4>1. \A t \in Nat : Limits(u.done, t)
                <=> Limits(s.done, t) \/ ("429" \in e.error /\ t < e.to + Seconds)
        <5>1. e \in Fetch /\ u.done = Append(s.done, e)
          BY <3>3, <3>8
        <5> QED
          BY <2>6, <5>1, OneMoreLimits
      <4> QED
        BY <3>3, <4>1
    <3>10. \A t \in Nat : t >= now => ~Limits(s.done, t)
      <4>1. ~Limits(s.done, now)
        BY <2>9, <2>12
      <4>2. \A i \in DOMAIN s.done : s.done[i].to \in Nat
        <5>1. \A i \in DOMAIN s.done : s.done[i] \in Fetch
          BY <2>6
        <5> QED
          BY <5>1 DEF Fetch
      <4> QED
        BY <2>4, <2>8, <4>1, <4>2 DEF Limits
    <3>11. HeldOff(u.done)
      <4>1. HeldOff(s.done)
        BY <1>2 DEF BatchInv
      <4> QED
        <5>1. e.held <=> Limits(s.done, e.from)
          BY <2>9, <2>12, <3>3
        <5>2. e \in Fetch /\ u.done = Append(s.done, e)
          BY <3>3, <3>8
        <5> QED
          BY <2>6, <4>1, <5>1, <5>2, OneMoreHeldOff
    <3>12. \A t \in Nat : t >= u.now =>
              (Limits(u.done, t) <=> u.limit # Absent /\ t < u.limit.at + Seconds)
      BY <2>4, <2>5, <3>1, <3>5, <3>8, <3>9, <3>10
    <3> QED
      BY <3>6, <3>8, <3>11, <3>12 DEF BatchInv
  <2> QED
    BY <2>11, <2>12
<1> QED
  BY <1>1, <1>2

-----------------------------------------------------------------------------
(* An item that is imported again and again                                  *)

\* What the duplicate store, the versions and the bridge have of an item.
Tracked(Hash) ==
    [known : {Absent} \cup Hash, number : Nat,
     versions : Seq([hash : Hash, superseded : BOOLEAN]), collected : Seq(Hash)]

\* The versions are the contents that were collected, none like the one before, all but the
\* last superseded; the store knows the last.
VersionsInv(item) ==
    /\ item.number = Len(item.versions) /\ item.number = Len(item.collected)
    /\ \A n \in 1..item.number :
          /\ item.versions[n].hash = item.collected[n]
          /\ item.versions[n].superseded <=> n # item.number
          /\ n # item.number => item.collected[n] # item.collected[n + 1]
    /\ item.known = IF item.number = 0 THEN Absent ELSE item.collected[item.number]

\* Whatever contents an item had and has: content that is not what was collected last is
\* collected and gets a version of its own, which supersedes the one before, also when it was
\* collected long ago; the same content is left where it is (fetch_item_fn, check_duplicate,
\* create_version: "ChangesAreVersions", one step of it for any number of imports).
THEOREM EveryChangeIsAVersion ==
    ASSUME NEW Hash, Absent \notin Hash
    PROVE  /\ CR!Unknown \in Tracked(Hash) /\ VersionsInv(CR!Unknown)
           /\ \A item \in Tracked(Hash), hash \in Hash : VersionsInv(item) =>
                LET next == CR!Track(item, hash)
                    n == item.number IN
                /\ next \in Tracked(Hash) /\ VersionsInv(next)
                /\ next.collected = IF n # 0 /\ item.collected[n] = hash THEN item.collected
                                    ELSE Append(item.collected, hash)
<1> DEFINE Version == [hash : Hash, superseded : BOOLEAN]
<1>1. CR!Unknown \in Tracked(Hash) /\ VersionsInv(CR!Unknown)
  <2> PICK u : u = CR!Unknown
    OBVIOUS
  <2>1. u = [known |-> Absent, number |-> 0, versions |-> << >>, collected |-> << >>]
    BY Zenon DEF CR!Unknown
  <2>2. u \in Tracked(Hash)
    BY <2>1 DEF Tracked
  <2>3. u.known = Absent /\ u.number = 0 /\ Len(u.versions) = 0 /\ Len(u.collected) = 0
    BY <2>1
  <2> QED
    BY <2>2, <2>3 DEF VersionsInv
<1>2. ASSUME NEW item \in Tracked(Hash), NEW hash \in Hash, VersionsInv(item),
             NEW next, next = CR!Track(item, hash)
      PROVE  /\ next \in Tracked(Hash) /\ VersionsInv(next)
             /\ next.collected = IF item.number # 0 /\ item.collected[item.number] = hash
                                 THEN item.collected ELSE Append(item.collected, hash)
  <2>1. PICK n \in Nat : n = item.number
    BY DEF Tracked
  <2>2. /\ item.versions \in Seq(Version) /\ Len(item.versions) = n
        /\ item.collected \in Seq(Hash) /\ Len(item.collected) = n
    BY <1>2, <2>1 DEF Tracked, VersionsInv
  <2>3. \A m \in 1..n : /\ item.versions[m].hash = item.collected[m]
                        /\ item.versions[m].superseded <=> m # n
                        /\ m # n => item.collected[m] # item.collected[m + 1]
    BY <1>2, <2>1 DEF VersionsInv
  <2>4. item.known = IF n = 0 THEN Absent ELSE item.collected[n]
    BY <1>2, <2>1 DEF VersionsInv
  <2>5. CASE hash = item.known
    <3>1. next = item
      BY <1>2, <2>5, Zenon DEF CR!Track
    <3>2. n # 0 /\ item.collected[n] = hash
      BY <2>4, <2>5
    <3> QED
      BY <1>2, <2>1, <3>1, <3>2
  <2>6. CASE hash # item.known
    <3>1. PICK old : old = [i \in DOMAIN item.versions |->
                              IF i = Len(item.versions)
                              THEN [item.versions[i] EXCEPT !.superseded = TRUE]
                              ELSE item.versions[i]]
      OBVIOUS
    <3>2. PICK new : new = [hash |-> hash, superseded |-> FALSE]
      OBVIOUS
    <3>3. new \in Version /\ new.hash = hash /\ new.superseded = FALSE
      BY <3>2
    <3>4. next = [known |-> hash, number |-> n + 1, versions |-> Append(old, new),
                  collected |-> Append(item.collected, hash)]
      BY <1>2, <2>1, <2>6, <3>1, <3>2, Zenon DEF CR!Track, CR!Versioned
    <3>5. /\ old \in Seq(Version) /\ Len(old) = n
          /\ \A i \in 1..n : old[i].hash = item.collected[i] /\ old[i].superseded = TRUE
      <4>1. DOMAIN item.versions = 1..n /\ \A i \in 1..n : item.versions[i] \in Version
        <5> HIDE DEF Version
        <5> QED
          BY <2>2
      <4>2. ASSUME NEW i \in 1..n
            PROVE  /\ old[i] \in Version
                   /\ old[i].hash = item.collected[i] /\ old[i].superseded = TRUE
        <5>1. CASE i = n
          <6>1. old[i] = [item.versions[i] EXCEPT !.superseded = TRUE]
            BY <2>2, <3>1, <4>1, <5>1
          <6> QED
            BY <2>3, <4>1, <6>1
        <5>2. CASE i # n
          <6>1. old[i] = item.versions[i]
            BY <2>2, <3>1, <4>1, <5>2
          <6> QED
            BY <2>3, <4>1, <5>2, <6>1
        <5> QED
          BY <5>1, <5>2
      <4>3. old = [i \in 1..n |-> old[i]]
        BY <3>1, <4>1
      <4>4. old \in [1..n -> Version]
        <5> HIDE DEF Version
        <5> QED
          BY <4>2, <4>3
      <4>5. old \in Seq(Version) /\ Len(old) = n
        <5> HIDE DEF Version
        <5> QED
          BY <4>4
      <4> QED
        BY <4>2, <4>5
    <3>6. PICK vs : vs = Append(old, new)
      OBVIOUS
    <3>7. PICK cs : cs = Append(item.collected, hash)
      OBVIOUS
    <3>8. /\ vs \in Seq(Version) /\ Len(vs) = n + 1 /\ vs[n + 1] = new
          /\ \A i \in 1..n : vs[i] = old[i]
      <4> HIDE DEF Version
      <4> QED
        BY <3>3, <3>5, <3>6
    <3>9. /\ cs \in Seq(Hash) /\ Len(cs) = n + 1 /\ cs[n + 1] = hash
          /\ \A i \in 1..n : cs[i] = item.collected[i]
      BY <2>2, <3>7
    <3>10. /\ next.known = hash /\ next.number = n + 1 /\ next.versions = vs
           /\ next.collected = cs /\ next \in Tracked(Hash)
      BY <3>4, <3>6, <3>7, <3>8, <3>9 DEF Tracked
    <3>11. n # 0 => item.collected[n] # hash
      BY <2>4, <2>6
    <3>12. \A i \in 1..(n + 1) : /\ vs[i].hash = cs[i]
                                 /\ vs[i].superseded <=> i # n + 1
                                 /\ i # n + 1 => cs[i] # cs[i + 1]
      <4>1. ASSUME NEW i \in 1..n
            PROVE  vs[i].hash = cs[i] /\ vs[i].superseded /\ cs[i] # cs[i + 1]
        <5>1. CASE i = n
          BY <3>5, <3>8, <3>9, <3>11, <5>1
        <5>2. CASE i # n
          <6>1. i + 1 \in 1..n
            BY <5>2
          <6> QED
            BY <2>3, <3>5, <3>8, <3>9, <5>2, <6>1
        <5> QED
          BY <5>1, <5>2
      <4>2. vs[n + 1].hash = cs[n + 1] /\ ~vs[n + 1].superseded
        BY <3>3, <3>8, <3>9
      <4> QED
        BY <4>1, <4>2
    <3>13. VersionsInv(next)
      BY <3>8, <3>9, <3>10, <3>12 DEF VersionsInv
    <3> QED
      BY <2>1, <3>7, <3>10, <3>11, <3>13
  <2> QED
    BY <2>5, <2>6
<1> QED
  BY <1>1, <1>2
=============================================================================
