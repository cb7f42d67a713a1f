------------------------- MODULE BatchImportProofs -------------------------
(***************************************************************************)
(* Proofs about BatchImport for any number of threads, jobs, items,         *)
(* requests and restarts, where one batch size is in use and no import     *)
(* names item_ids (OneSize).                                               *)
(***************************************************************************)
EXTENDS BatchImport, FiniteSetTheorems, TLAPS

OneSize == Sizes = {DefaultSize} /\ Wanted = {Item}

Status == {"new", "queued", "running", "completed",
           "completed_with_warnings", "failed", "cancelled", "paused"}

Copy == [status : Status, cancel : BOOLEAN, processed : Nat, failed : Nat,
         at : [processed : Nat, batch : Nat]]

Busy == [pc : {"listing", "ready", "loop", "batch", "bridge", "asked"},
         leg : {"import", "resume", "cancel", "pause"}, job : Job,
         items : SUBSET Item, ask : Nat, copy : Copy, offset : Nat, last : Nat, batch : Nat,
         todo : SUBSET Item,
         count : Nat, bad : Nat, collected : SUBSET Item]

TypeInv ==
    /\ disk \in [Job -> Copy \cup {NoFile}]
    /\ thread \in [Thread -> Busy \cup {Idle}]
    /\ tried \in [Job -> SUBSET Item]
    /\ asked \in [Job -> SUBSET Item]
    /\ size = DefaultSize

\* What a request works on: the whole list, in batches of the one size.
Whole(h) ==
    /\ h.pc = "listing" => h.ask = DefaultSize
    /\ h.pc \in {"listing", "ready", "loop", "batch"} => h.items = Item
    /\ h.pc \in {"loop", "batch"} => h.batch >= 1

\* The items of a batch, which starts no earlier than the checkpoint, are
\* taken in order: the count of those taken never passes the last of them.
InOrder(h) ==
    h.pc = "batch" =>
        /\ h.offset <= (h.batch - 1) * DefaultSize
        /\ h.count <= DefaultSize
        /\ (h.batch - 1) * DefaultSize + h.count <= N
        /\ \A i \in h.todo :
             /\ (h.batch - 1) * DefaultSize + h.count < i
             /\ i <= (h.batch - 1) * DefaultSize + DefaultSize

GoodThread(seen, h) == Whole(h) /\ InOrder(h) /\ SoundThread(seen, h)

ImportInv ==
    /\ TypeInv
    /\ \A j \in Job : disk[j] # NoFile => Sound(tried[j], disk[j])
    /\ \A t \in Thread :
         thread[t] # Idle => GoodThread(tried[thread[t].job], thread[t])

-----------------------------------------------------------------------------
(* Arithmetic of batches.                                                  *)

\* The batches of a list cover it.
LEMMA BatchesCover ==
    ASSUME NEW d \in Nat \ {0}, NEW n \in Nat
    PROVE  LET b == (n + d - 1) \div d
           IN b \in Nat /\ b * d >= n /\ (b = 0 => n = 0)
  <1>1. (n + d - 1) \div d \in Nat OBVIOUS
  <1>2. ((n + d - 1) \div d) * d >= n OBVIOUS
  <1> QED BY <1>1, <1>2

\* Going from one batch to the next adds one batch size.
LEMMA BatchStep ==
    ASSUME NEW d \in Nat, NEW b \in Nat, b >= 1
    PROVE  /\ (b - 1) * d \in Nat
           /\ b * d = (b - 1) * d + d
           /\ (b + 1 - 1) * d = b * d
  OBVIOUS

\* Later batches end later.
LEMMA BatchOrder ==
    ASSUME NEW d \in Nat, NEW a \in Nat, NEW b \in Nat, a <= b
    PROVE  a * d <= b * d
  OBVIOUS

\* A batch that starts before the end of batch b is one of the first b.
LEMMA BatchWithin ==
    ASSUME NEW d \in Nat, NEW a \in Nat, NEW b \in Nat, a * d < b * d
    PROVE  a + 1 <= b
  OBVIOUS

\* In the whole list an item's rank is its position.
LEMMA RankOfWhole ==
    ASSUME NEW i \in Item
    PROVE  Rank(Item, i) = i
  <1>1. {k \in Item : k <= i} = 1..i
    BY ImportAssumption DEF Item
  <1>2. Cardinality(1..i) = i
    BY FS_Interval DEF Item
  <1> QED BY <1>1, <1>2 DEF Rank

\* A batch of the whole list is an interval.
LEMMA SliceOfWhole ==
    ASSUME NEW s, NEW d
    PROVE  Slice(Item, s, d) = {i \in Item : s < i /\ i <= s + d}
  BY RankOfWhole DEF Slice

\* The number of batches of the whole list, times the size, covers it.
LEMMA BatchesOfWhole ==
    /\ Batches(Item, DefaultSize) \in Nat
    /\ Batches(Item, DefaultSize) * DefaultSize >= N
  <1>1. Cardinality(Item) = N
    BY FS_Interval, ImportAssumption DEF Item
  <1>2. CASE (N + DefaultSize - 1) \div DefaultSize = 0
    BY <1>1, <1>2, BatchesCover, ImportAssumption DEF Batches
  <1>3. CASE (N + DefaultSize - 1) \div DefaultSize # 0
    BY <1>1, <1>3, BatchesCover, ImportAssumption DEF Batches
  <1> QED BY <1>2, <1>3

-----------------------------------------------------------------------------
(* One thread moves, saves at most one job and comes to more items.        *)

\* What a copy shows of the items stays true as more of them are tried.
LEMMA SoundGrows ==
    ASSUME NEW seen, NEW more, seen \subseteq more, NEW c, Sound(seen, c)
    PROVE  Sound(more, c)
  BY DEF Sound, Covered

\* So does what a thread's state shows.
LEMMA ThreadGrows ==
    ASSUME NEW seen, NEW more, seen \subseteq more, NEW h,
           GoodThread(seen, h)
    PROVE  GoodThread(more, h)
  BY SoundGrows DEF GoodThread, SoundThread, Covered

\* The shape of every action of a thread preserves the invariant if the
\* thread's new state and the job it saves are as the invariant wants.
LEMMA OneThreadMoves ==
    ASSUME ImportInv, NEW t \in Thread, NEW h, Goto(t, h),
           h = Idle \/ (h \in Busy /\ GoodThread(tried'[h.job], h)),
           NEW j \in Job, NEW c,
           disk' = disk \/ (Save(j, c) /\ c \in Copy /\ Sound(tried'[j], c)),
           tried' \in [Job -> SUBSET Item],
           \A k \in Job : tried[k] \subseteq tried'[k],
           asked' \in [Job -> SUBSET Item],
           size' = DefaultSize
    PROVE  ImportInv'
  <1>1. TypeInv'
    BY DEF ImportInv, TypeInv, Goto, Save
  <1>2. ASSUME NEW k \in Job, disk'[k] # NoFile
        PROVE  Sound(tried'[k], disk'[k])
    <2>1. CASE disk'[k] = disk[k]
      BY <1>2, <2>1, SoundGrows DEF ImportInv
    <2>2. CASE disk'[k] # disk[k]
      BY <2>2 DEF ImportInv, TypeInv, Save
    <2> QED BY <2>1, <2>2
  <1>3. ASSUME NEW u \in Thread, thread'[u] # Idle
        PROVE  GoodThread(tried'[thread'[u].job], thread'[u])
    <2>1. CASE u = t
      BY <1>3, <2>1 DEF ImportInv, TypeInv, Goto
    <2>2. CASE u # t
      <3>1. thread'[u] = thread[u] /\ thread[u] \in Busy
        BY <1>3, <2>2 DEF ImportInv, TypeInv, Goto
      <3>2. thread[u].job \in Job
        BY <3>1 DEF Busy
      <3> QED BY <1>3, <3>1, <3>2, ThreadGrows DEF ImportInv
    <2> QED BY <2>1, <2>2
  <1> QED BY <1>1, <1>2, <1>3 DEF ImportInv

-----------------------------------------------------------------------------
(* The actions, one by one.                                                *)

\* A thread that is at some place of a request is busy.
LEMMA BusyThread ==
    ASSUME ImportInv, NEW t \in Thread, thread[t].pc # "idle"
    PROVE  /\ thread[t] \in Busy
           /\ thread[t].job \in Job
           /\ thread[t].copy \in Copy
           /\ GoodThread(tried[thread[t].job], thread[t])
  <1>1. thread[t] # Idle
    BY DEF Idle
  <1>2. thread[t] \in Busy
    BY <1>1 DEF ImportInv, TypeInv
  <1> QED BY <1>1, <1>2 DEF ImportInv, Busy

\* A copy under another status is a copy with the same checkpoint, and as
\* sound unless it says that it is done.
LEMMA WithStatus ==
    ASSUME NEW c \in Copy, NEW s \in Status
    PROVE  LET d == [c EXCEPT !.status = s]
           IN /\ d \in Copy
              /\ d.status = s
              /\ \A seen :
                   (Sound(seen, c) /\ (s \in Done => Item \subseteq seen))
                     => Sound(seen, d)
  <1> DEFINE d == [c EXCEPT !.status = s]
  <1>1. d \in Copy BY DEF Copy
  <1>2. d.status = s /\ d.at = c.at BY DEF Copy
  <1> HIDE DEF d
  <1>3. \A seen : (Sound(seen, c) /\ (s \in Done => Item \subseteq seen))
                   => Sound(seen, d)
    BY <1>2 DEF Sound
  <1> QED BY <1>1, <1>2, <1>3, Zenon DEF d

\* The record of a new job.
LEMMA NewCopy ==
    LET c == [NoCopy EXCEPT !.status = "queued"]
    IN c \in Copy /\ \A seen : Sound(seen, c)
  <1>1. NoCopy \in Copy
    BY DEF NoCopy, Copy, Status
  <1>2. ASSUME NEW seen PROVE Sound(seen, NoCopy)
    <2>1. DefaultSize \in Nat /\ 0 * DefaultSize = 0
      BY ImportAssumption
    <2> QED BY <2>1, ImportAssumption DEF Sound, Covered, Done, Item, NoCopy
  <1>3. "queued" \in Status /\ "queued" \notin Done
    BY DEF Status, Done
  <1> QED BY <1>1, <1>2, <1>3, WithStatus

\* Nothing is running and no job exists at first.
LEMMA InitImport == Init => ImportInv
  <1> SUFFICES ASSUME Init PROVE ImportInv OBVIOUS
  <1>1. TypeInv
    BY DEF Init, TypeInv
  <1> QED BY <1>1 DEF Init, ImportInv

\* A new import is queued for the whole list.
LEMMA ImportStep ==
    ASSUME ImportInv, OneSize, NEW t \in Thread, NEW j \in Job,
           NEW items \in Wanted, NEW sz \in Sizes, Import(t, j, items, sz)
    PROVE  ImportInv'
  <1> DEFINE c == [NoCopy EXCEPT !.status = "queued"]
             h == Serving("import", j, items, sz, c)
  <1>1. items = Item /\ sz = DefaultSize /\ DefaultSize \in Nat
    BY ImportAssumption DEF OneSize
  <1>2. c \in Copy /\ Sound(tried[j], c)
    BY NewCopy
  <1>3. items \subseteq Item /\ sz \in Nat
    BY <1>1
  <1>4. h \in Busy
    <2> HIDE DEF c
    <2> QED BY <1>2, <1>3 DEF Serving, Busy
  <1>5. GoodThread(tried[j], h)
    BY <1>1, <1>2 DEF Serving, GoodThread, Whole, InOrder, SoundThread
  <1>6. tried' = tried /\ asked' \in [Job -> SUBSET Item] /\ size' = DefaultSize
    BY <1>1 DEF Import, ImportInv, TypeInv
  <1>7. h.job = j
    BY DEF Serving
  <1>8. Goto(t, h) /\ Save(j, c)
    BY DEF Import
  <1> HIDE DEF c, h
  <1> QED
    BY <1>2, <1>4, <1>5, <1>6, <1>7, <1>8, OneThreadMoves
       DEF ImportInv, TypeInv

\* A failed listing saves the job as failed.
LEMMA ListFailsStep ==
    ASSUME ImportInv, NEW t \in Thread, ListFails(t)
    PROVE  ImportInv'
  <1> DEFINE h == thread[t]
             c == [h.copy EXCEPT !.status = "failed"]
  <1>1. h.job \in Job /\ h.copy \in Copy /\ GoodThread(tried[h.job], h)
    BY BusyThread DEF ListFails
  <1>2. c \in Copy /\ Sound(tried[h.job], c)
    <2>1. "failed" \in Status /\ "failed" \notin Done
      BY DEF Status, Done
    <2> QED BY <1>1, <2>1, WithStatus DEF GoodThread, SoundThread
  <1>3. Goto(t, Idle) /\ Save(h.job, c) /\ size' = size
        /\ tried' = tried /\ asked' = asked
    BY DEF ListFails, history
  <1> HIDE DEF c, h
  <1> QED BY <1>1, <1>2, <1>3, OneThreadMoves DEF ImportInv, TypeInv

\* An empty list leaves nothing out.
LEMMA ListEmptyStep ==
    ASSUME ImportInv, NEW t \in Thread, ListEmpty(t)
    PROVE  ImportInv'
  <1> DEFINE h == thread[t]
             c == [h.copy EXCEPT !.status = "completed"]
  <1>1. h.job \in Job /\ h.copy \in Copy /\ GoodThread(tried[h.job], h)
    BY BusyThread DEF ListEmpty
  <1>2. Item = {}
    BY <1>1 DEF ListEmpty, GoodThread, Whole
  <1>3. c \in Copy /\ Sound(tried[h.job], c)
    <2>1. "completed" \in Status
      BY DEF Status
    <2>2. \A seen : Item \subseteq seen
      BY <1>2
    <2> QED BY <1>1, <2>1, <2>2, WithStatus DEF GoodThread, SoundThread
  <1>4. Goto(t, Idle) /\ Save(h.job, c) /\ size' = size
        /\ tried' = tried /\ asked' = asked
    BY DEF ListEmpty, history
  <1> HIDE DEF c, h
  <1> QED BY <1>1, <1>3, <1>4, OneThreadMoves DEF ImportInv, TypeInv

\* The size an import sets is the one size.
LEMMA ListStep ==
    ASSUME ImportInv, NEW t \in Thread, List(t)
    PROVE  ImportInv'
  <1> DEFINE g == thread[t]
             h == [g EXCEPT !.pc = "ready"]
  <1>1. g \in Busy /\ g.job \in Job /\ GoodThread(tried[g.job], g)
    BY BusyThread DEF List
  <1>2. h \in Busy /\ h.job = g.job
    BY <1>1 DEF Busy
  <1>3. GoodThread(tried[g.job], h)
    BY <1>1 DEF List, Busy, GoodThread, Whole, InOrder, SoundThread
  <1>4. Goto(t, h) /\ disk' = disk /\ size' = DefaultSize
        /\ tried' = tried /\ asked' = asked
    BY <1>1 DEF List, history, GoodThread, Whole
  <1> HIDE DEF g, h
  <1> QED BY <1>1, <1>2, <1>3, <1>4, OneThreadMoves DEF ImportInv, TypeInv

\* A resumed job is taken from its file, which is sound.
LEMMA ResumeStep ==
    ASSUME ImportInv, NEW t \in Thread, NEW j \in Job, Resume(t, j)
    PROVE  ImportInv'
  <1> DEFINE c == [disk[j] EXCEPT !.status = "running", !.cancel = FALSE]
             h == [Serving("resume", j, Item, 0, c) EXCEPT !.pc = "ready"]
  <1>1. disk[j] # NoFile
    BY DEF Resume, NoFile
  <1>2. disk[j] \in Copy /\ Sound(tried[j], disk[j])
    BY <1>1 DEF ImportInv, TypeInv
  <1>3. c \in Copy /\ Sound(tried[j], c)
    <2> DEFINE d == [disk[j] EXCEPT !.status = "running"]
    <2>1. "running" \in Status /\ "running" \notin Done
      BY DEF Status, Done
    <2>2. d \in Copy /\ Sound(tried[j], d)
      BY <1>2, <2>1, WithStatus
    <2>3. c = [d EXCEPT !.cancel = FALSE]
      BY <1>2 DEF Copy
    <2> HIDE DEF c, d
    <2>4. c \in Copy /\ c.at = d.at /\ c.status = d.status
      BY <2>2, <2>3 DEF Copy
    <2> QED BY <2>2, <2>4 DEF Sound
  <1>4. h \in Busy /\ h.job = j
    BY <1>3 DEF Serving, Busy
  <1>5. GoodThread(tried[j], h)
    BY <1>3 DEF Serving, GoodThread, Whole, InOrder, SoundThread
  <1>6. Goto(t, h) /\ disk' = disk /\ size' = size
        /\ tried' = tried /\ asked' = asked
    BY DEF Resume, history
  <1> HIDE DEF c, h
  <1> QED BY <1>4, <1>5, <1>6, OneThreadMoves DEF ImportInv, TypeInv

\* process_items starts from the checkpoint of its copy.
LEMMA BeginStep ==
    ASSUME ImportInv, NEW t \in Thread, Begin(t)
    PROVE  ImportInv'
  <1> DEFINE g == thread[t]
             c == [g.copy EXCEPT !.status = "running", !.processed = 0,
                                 !.failed = 0]
             d == [c EXCEPT !.processed = g.copy.at.processed]
             n == Batches(g.items, size)
             h == [g EXCEPT !.pc = "loop", !.batch = 1, !.copy = d,
                            !.offset = g.copy.at.processed, !.last = n]
  <1>1. g \in Busy /\ g.job \in Job /\ g.copy \in Copy
        /\ GoodThread(tried[g.job], g)
    BY BusyThread DEF Begin
  <1>2. g.copy.at \in [processed : Nat, batch : Nat]
        /\ g.copy.at.processed \in Nat
    BY <1>1 DEF Copy
  <1>3. c \in Copy /\ c.at = g.copy.at /\ c.status = "running"
    BY <1>1 DEF Copy, Status
  <1>4. d \in Copy /\ d.at = g.copy.at /\ d.status = "running"
        /\ d.processed = g.copy.at.processed
    <2> HIDE DEF c
    <2> QED BY <1>2, <1>3 DEF Copy
  <1>5. Sound(tried[g.job], g.copy)
    BY <1>1 DEF GoodThread, SoundThread
  <1>6. Sound(tried[g.job], c) /\ Sound(tried[g.job], d)
    <2> HIDE DEF c, d
    <2> QED BY <1>3, <1>4, <1>5 DEF Sound, Done
  <1>7. n \in Nat /\ n * DefaultSize >= N
    BY <1>1, BatchesOfWhole DEF Begin, GoodThread, Whole, ImportInv, TypeInv
  <1>8. h \in Busy /\ h.job = g.job /\ h.pc = "loop" /\ h.batch = 1
        /\ h.copy = d /\ h.offset = g.copy.at.processed /\ h.last = n
        /\ h.items = Item
    <2>1. g.items = Item
      BY <1>1 DEF Begin, GoodThread, Whole
    <2> HIDE DEF d, n
    <2> QED BY <1>1, <1>2, <1>4, <1>7, <2>1 DEF Busy
  <1>9. Goto(t, h) /\ Save(g.job, c) /\ size' = size
        /\ tried' = tried /\ asked' = asked
    BY DEF Begin, history
  <1>10. GoodThread(tried[g.job], h)
    <2> HIDE DEF c, d, n, h, g
    <2>1. (1 - 1) * DefaultSize = 0
      BY ImportAssumption
    <2>2. Covered(tried[g.job], h.batch - 1)
      BY <1>8, <2>1 DEF Covered, Item
    <2>3. SoundThread(tried[g.job], h)
      BY <1>2, <1>4, <1>5, <1>6, <1>7, <1>8, <2>2 DEF SoundThread, Sound
    <2> QED BY <1>8, <2>3 DEF GoodThread, Whole, InOrder
  <1> HIDE DEF c, d, n, h, g
  <1> QED
    BY <1>1, <1>3, <1>6, <1>8, <1>9, <1>10, OneThreadMoves
       DEF ImportInv, TypeInv

\* A batch passed over lies before the checkpoint: it is covered.
LEMMA SkipBatchStep ==
    ASSUME ImportInv, NEW t \in Thread, SkipBatch(t)
    PROVE  ImportInv'
  <1> DEFINE g == thread[t]
             h == [g EXCEPT !.batch = @ + 1]
  <1>1. g \in Busy /\ g.job \in Job /\ g.copy \in Copy
        /\ GoodThread(tried[g.job], g)
    BY BusyThread DEF SkipBatch
  <1>2. g.batch \in Nat /\ g.offset \in Nat /\ g.copy.at.batch \in Nat
        /\ g.copy.processed \in Nat /\ DefaultSize \in Nat
    BY <1>1, ImportAssumption DEF Busy, Copy
  <1>3. h \in Busy /\ h.batch = g.batch + 1 /\ h.pc = "loop"
        /\ h.job = g.job /\ h.copy = g.copy /\ h.offset = g.offset
        /\ h.last = g.last /\ h.items = g.items
    BY <1>1, <1>2 DEF SkipBatch, Busy
  <1>4. Goto(t, h) /\ disk' = disk /\ size' = size
        /\ tried' = tried /\ asked' = asked
    BY DEF SkipBatch, history
  <1>5. g.pc = "loop" /\ (g.batch - 1) * DefaultSize < g.offset
    BY DEF SkipBatch, Start, ImportInv, TypeInv
  <1>6. GoodThread(tried[g.job], h)
    <2> HIDE DEF h, g
    <2>1. Whole(h) /\ InOrder(h)
      BY <1>1, <1>2, <1>3, <1>5 DEF GoodThread, Whole, InOrder
    <2>2. g.batch >= 1 /\ g.offset <= g.copy.at.batch * DefaultSize
      BY <1>1, <1>5 DEF GoodThread, Whole, SoundThread
    <2>3. (g.batch - 1) * DefaultSize < g.copy.at.batch * DefaultSize
      BY <1>2, <1>5, <2>2
    <2>4. g.batch <= g.copy.at.batch
      BY <1>2, <2>2, <2>3, BatchWithin
    <2>5. g.batch * DefaultSize <= g.copy.at.batch * DefaultSize
      BY <1>2, <2>4, BatchOrder
    <2>6. /\ (g.batch - 1) * DefaultSize <= (h.batch - 1) * DefaultSize
          /\ h.batch - 1 = g.batch
          /\ (g.batch - 1) * DefaultSize \in Nat
          /\ g.batch * DefaultSize \in Nat
          /\ g.copy.at.batch * DefaultSize \in Nat
      BY <1>2, <1>3, <2>2, BatchStep
    <2>7. Covered(tried[g.job], h.batch - 1)
      BY <1>1, <1>2, <2>5, <2>6 DEF GoodThread, SoundThread, Sound, Covered, Item
    <2> QED
      BY <1>1, <1>2, <1>3, <1>5, <2>1, <2>6, <2>7
         DEF GoodThread, SoundThread
  <1> HIDE DEF h, g
  <1> QED BY <1>1, <1>3, <1>4, <1>6, OneThreadMoves DEF ImportInv, TypeInv

\* A batch entered starts where the batches before it end.
LEMMA EnterBatchStep ==
    ASSUME ImportInv, NEW t \in Thread, EnterBatch(t)
    PROVE  ImportInv'
  <1> DEFINE g == thread[t]
             todo == Slice(g.items, Start(t), size)
             h == [g EXCEPT !.pc = "batch", !.count = 0, !.bad = 0,
                            !.todo = todo]
  <1>1. g \in Busy /\ g.job \in Job /\ g.copy \in Copy
        /\ GoodThread(tried[g.job], g)
    BY BusyThread DEF EnterBatch
  <1>2. g.batch \in Nat /\ g.offset \in Nat /\ g.copy.processed \in Nat
        /\ DefaultSize \in Nat /\ N \in Nat /\ size = DefaultSize
    BY <1>1, ImportAssumption DEF Busy, Copy, ImportInv, TypeInv
  <1> DEFINE s == (g.batch - 1) * DefaultSize
  <1>3. g.pc = "loop" /\ g.batch >= 1 /\ g.items = Item
    BY <1>1 DEF EnterBatch, GoodThread, Whole
  <1>4. Start(t) = s /\ s >= g.offset
    BY <1>2 DEF EnterBatch, Start
  <1>5. s \in Nat /\ g.batch * DefaultSize = s + DefaultSize
    BY <1>2, <1>3, BatchStep
  <1>6. todo = {i \in Item : s < i /\ i <= s + DefaultSize}
    BY <1>2, <1>3, <1>4, SliceOfWhole
  <1>7. todo # {}
    <2>1. ~LoopEnds(t) /\ Start(t) >= g.offset
      BY DEF EnterBatch
    <2> QED BY <2>1 DEF LoopEnds
  <1>8. s <= N
    BY <1>2, <1>5, <1>6, <1>7 DEF Item
  <1>9. todo \in SUBSET Item
    BY <1>6
  <1>10. h \in Busy /\ h.batch = g.batch /\ h.pc = "batch" /\ h.count = 0
         /\ h.job = g.job /\ h.copy = g.copy /\ h.offset = g.offset
         /\ h.items = Item /\ h.todo = todo /\ h.last = g.last
    <2> HIDE DEF todo
    <2> QED BY <1>1, <1>3, <1>9 DEF Busy
  <1>11. Goto(t, h) /\ disk' = disk /\ size' = size
         /\ tried' = tried /\ asked' = asked
    BY DEF EnterBatch, history
  <1>12. GoodThread(tried[g.job], h)
    <2> HIDE DEF h, g, todo, s
    <2>1. (h.batch - 1) * DefaultSize = s
      BY <1>10 DEF s
    <2>2. Whole(h) /\ InOrder(h)
      <3>1. ASSUME NEW i \in todo
            PROVE  s + 0 < i /\ i <= s + DefaultSize
        BY <1>2, <1>5, <1>6 DEF Item
      <3> QED
        BY <1>2, <1>3, <1>4, <1>5, <1>8, <1>10, <2>1, <3>1
           DEF Whole, InOrder, Item
    <2>3. Covered(tried[g.job], h.batch - 1)
      BY <1>1, <1>3, <1>10 DEF GoodThread, SoundThread
    <2>4. ASSUME NEW i \in Item, i <= h.batch * DefaultSize
          PROVE  i \in tried[g.job] \cup h.todo
      BY <1>5, <1>6, <1>10, <2>1, <2>3, <2>4 DEF Covered, Item
    <2>5. g.copy.processed <= s
      BY <1>1, <1>2, <1>3, <1>4, <1>5 DEF GoodThread, SoundThread, s
    <2> QED
      BY <1>1, <1>3, <1>10, <2>1, <2>2, <2>3, <2>4, <2>5
         DEF GoodThread, SoundThread
  <1> HIDE DEF h, g, todo, s
  <1> QED BY <1>1, <1>10, <1>11, <1>12, OneThreadMoves DEF ImportInv, TypeInv

\* Coming to the next item of a batch, counted or not, keeps the order.
LEMMA ItemStep ==
    ASSUME ImportInv, NEW t \in Thread, NEW i \in Item, Comes(t, i),
           NEW h \in Busy, Goto(t, h),
           h.pc = "batch", h.job = thread[t].job, h.items = thread[t].items,
           h.copy = thread[t].copy, h.offset = thread[t].offset,
           h.batch = thread[t].batch, h.last = thread[t].last,
           h.todo = thread[t].todo \ {i},
           h.count = thread[t].count \/ h.count = thread[t].count + 1,
           disk' = disk, size' = size
    PROVE  ImportInv'
  <1> DEFINE g == thread[t]
             seen == tried[g.job] \cup {i}
             s == (g.batch - 1) * DefaultSize
  <1>1. g \in Busy /\ g.job \in Job /\ g.copy \in Copy
        /\ GoodThread(tried[g.job], g)
    BY BusyThread DEF Comes
  <1>2. /\ g.pc = "batch" /\ i \in g.todo /\ \A k \in g.todo : i <= k
        /\ tried' = [tried EXCEPT ![g.job] = seen] /\ asked' = asked
    BY DEF Comes
  <1>3. g.batch \in Nat /\ g.count \in Nat /\ g.todo \in SUBSET Item
        /\ DefaultSize \in Nat /\ N \in Nat
    BY <1>1, ImportAssumption DEF Busy
  <1>4. g.batch >= 1 /\ s \in Nat
    BY <1>1, <1>2, <1>3, BatchStep DEF GoodThread, Whole
  <1>5. /\ tried' \in [Job -> SUBSET Item]
        /\ \A k \in Job : tried[k] \subseteq tried'[k]
        /\ tried'[g.job] = seen
    BY <1>1, <1>2 DEF ImportInv, TypeInv
  <1>6. InOrder(h)
    <2> HIDE DEF g, s, seen
    <2>1. (h.batch - 1) * DefaultSize = s
      BY DEF s, g
    <2>2. s + g.count < i /\ i <= s + DefaultSize /\ i <= N
      BY <1>1, <1>2 DEF GoodThread, InOrder, s, Item
    <2>3. ASSUME NEW k \in h.todo
          PROVE  s + h.count < k /\ k <= s + DefaultSize
      <3>1. k \in g.todo /\ k # i /\ i <= k /\ k \in Nat /\ i \in Nat
        BY <1>2, <1>3 DEF g, Item
      <3>2. k <= s + DefaultSize
        BY <1>1, <1>2, <3>1 DEF GoodThread, InOrder, s
      <3> QED BY <1>3, <1>4, <2>2, <3>1, <3>2 DEF g
    <2>4. h.count <= DefaultSize /\ s + h.count <= N
      BY <1>3, <1>4, <2>2 DEF g, Item
    <2>5. h.offset <= s
      BY <1>1, <1>2 DEF GoodThread, InOrder, s, g
    <2> QED BY <2>1, <2>3, <2>4, <2>5 DEF InOrder
  <1>7. SoundThread(seen, h)
    <2>1. GoodThread(seen, g)
      BY <1>1, ThreadGrows
    <2>2. ASSUME NEW k \in Item, k <= h.batch * DefaultSize
          PROVE  k \in seen \cup h.todo
      BY <1>2, <2>1, <2>2 DEF GoodThread, SoundThread
    <2> HIDE DEF seen
    <2> QED BY <1>2, <2>1, <2>2 DEF GoodThread, SoundThread
  <1>8. GoodThread(seen, h)
    BY <1>1, <1>2, <1>6, <1>7 DEF GoodThread, Whole
  <1> QED
    BY <1>1, <1>2, <1>5, <1>8, OneThreadMoves DEF ImportInv, TypeInv

\* An item held off is not counted.
LEMMA HoldOffStep ==
    ASSUME ImportInv, NEW t \in Thread, HoldOff(t)
    PROVE  ImportInv'
  <1>1. PICK i \in Item : /\ Comes(t, i)
                          /\ Goto(t, [thread[t] EXCEPT !.todo = @ \ {i}])
    BY DEF HoldOff
  <1>2. thread[t] \in Busy /\ thread[t].pc = "batch"
    BY <1>1, BusyThread DEF Comes
  <1> DEFINE h == [thread[t] EXCEPT !.todo = @ \ {i}]
  <1>3. h \in Busy /\ h.pc = "batch" /\ h.job = thread[t].job
        /\ h.items = thread[t].items /\ h.copy = thread[t].copy
        /\ h.offset = thread[t].offset /\ h.batch = thread[t].batch
        /\ h.todo = thread[t].todo \ {i} /\ h.count = thread[t].count
        /\ h.last = thread[t].last
    BY <1>2 DEF Busy
  <1>4. Goto(t, h) /\ disk' = disk /\ size' = size
    BY <1>1 DEF HoldOff
  <1> HIDE DEF h
  <1> QED BY <1>1, <1>3, <1>4, ItemStep

Counted(g, td, n, b, cl) ==
    [g EXCEPT !.todo = td, !.count = n, !.bad = b, !.collected = cl]

\* Taking an item, counting it and keeping it or its failure leaves the rest
\* of a thread's state alone.
LEMMA ItemCounted ==
    ASSUME NEW g \in Busy, NEW td \in SUBSET Item, NEW n \in Nat,
           NEW b \in Nat, NEW cl \in SUBSET Item
    PROVE  LET h == Counted(g, td, n, b, cl)
           IN /\ h \in Busy /\ h.pc = g.pc /\ h.job = g.job
              /\ h.items = g.items /\ h.copy = g.copy
              /\ h.offset = g.offset /\ h.batch = g.batch
              /\ h.todo = td /\ h.count = n /\ h.last = g.last
  BY DEF Busy, Counted

\* A fetched item is counted, whatever an import keeps of it.
LEMMA FetchContentStep ==
    ASSUME ImportInv, NEW t \in Thread, FetchContent(t)
    PROVE  ImportInv'
  <1> DEFINE g == thread[t]
  <1>1. PICK i \in Item :
          /\ Comes(t, i)
          /\ \/ Goto(t, [g EXCEPT !.todo = @ \ {i}, !.count = @ + 1,
                              !.collected = @ \cup ({i} \ hashes)])
             \/ Goto(t, [g EXCEPT !.todo = @ \ {i}, !.count = @ + 1])
    BY DEF FetchContent
  <1>2. g \in Busy /\ g.pc = "batch"
    BY <1>1, BusyThread DEF Comes
  <1> DEFINE H(cl) == Counted(g, g.todo \ {i}, g.count + 1, g.bad, cl)
  <1>3. PICK cl \in SUBSET Item : Goto(t, H(cl))
    <2>1. g.collected \cup ({i} \ hashes) \in SUBSET Item
          /\ g.collected \in SUBSET Item
      BY <1>2 DEF Busy
    <2>2. CASE Goto(t, [g EXCEPT !.todo = @ \ {i}, !.count = @ + 1,
                           !.collected = @ \cup ({i} \ hashes)])
      <3>1. [g EXCEPT !.todo = @ \ {i}, !.count = @ + 1,
                      !.collected = @ \cup ({i} \ hashes)]
              = H(g.collected \cup ({i} \ hashes))
        BY <1>2 DEF Busy, Counted
      <3> QED BY <2>1, <2>2, <3>1
    <2>3. CASE Goto(t, [g EXCEPT !.todo = @ \ {i}, !.count = @ + 1])
      <3>1. [g EXCEPT !.todo = @ \ {i}, !.count = @ + 1] = H(g.collected)
        BY <1>2 DEF Busy, Counted
      <3> QED BY <2>1, <2>3, <3>1
    <2> QED BY <1>1, <2>2, <2>3
  <1>4. g.todo \ {i} \in SUBSET Item /\ g.count + 1 \in Nat /\ g.bad \in Nat
    BY <1>2 DEF Busy
  <1>5. /\ H(cl) \in Busy /\ H(cl).pc = g.pc /\ H(cl).job = g.job
        /\ H(cl).items = g.items /\ H(cl).copy = g.copy
        /\ H(cl).offset = g.offset /\ H(cl).batch = g.batch
        /\ H(cl).todo = g.todo \ {i} /\ H(cl).count = g.count + 1
        /\ H(cl).last = g.last
    BY <1>2, <1>3, <1>4, ItemCounted
  <1>6. disk' = disk /\ size' = size
    BY DEF FetchContent
  <1> HIDE DEF H
  <1> QED BY <1>1, <1>2, <1>3, <1>5, <1>6, ItemStep

\* An item that fails is counted too.
LEMMA FailureCounted ==
    ASSUME ImportInv, NEW t \in Thread, disk' = disk, size' = size,
           NEW i \in Item, Comes(t, i),
           Goto(t, [thread[t] EXCEPT !.todo = @ \ {i}, !.count = @ + 1,
                                     !.bad = @ + 1])
    PROVE  ImportInv'
  <1> DEFINE g == thread[t]
  <1>2. g \in Busy /\ g.pc = "batch"
    BY BusyThread DEF Comes
  <1> DEFINE h == Counted(g, g.todo \ {i}, g.count + 1, g.bad + 1, g.collected)
  <1>3. Goto(t, h)
    <2>1. [g EXCEPT !.todo = @ \ {i}, !.count = @ + 1, !.bad = @ + 1] = h
      BY <1>2 DEF Busy, Counted
    <2> QED BY <2>1
  <1>4. g.todo \ {i} \in SUBSET Item /\ g.count + 1 \in Nat
        /\ g.bad + 1 \in Nat /\ g.collected \in SUBSET Item
    BY <1>2 DEF Busy
  <1>5. /\ h \in Busy /\ h.pc = g.pc /\ h.job = g.job
        /\ h.items = g.items /\ h.copy = g.copy
        /\ h.offset = g.offset /\ h.batch = g.batch
        /\ h.todo = g.todo \ {i} /\ h.count = g.count + 1
        /\ h.last = g.last
    BY <1>2, <1>4, ItemCounted
  <1> HIDE DEF h
  <1> QED BY <1>2, <1>3, <1>5, ItemStep

\* The fetch of an item fails.
LEMMA FetchFailsStep ==
    ASSUME ImportInv, NEW t \in Thread, NEW is429, FetchFails(t, is429)
    PROVE  ImportInv'
  BY FailureCounted DEF FetchFails

\* The version of an item cannot be recorded.
LEMMA VersionFailsStep ==
    ASSUME ImportInv, NEW t \in Thread, VersionFails(t)
    PROVE  ImportInv'
  BY FailureCounted DEF VersionFails

\* The checkpoint saved after a batch counts no further than the batch.
LEMMA EndBatchStep ==
    ASSUME ImportInv, NEW t \in Thread, EndBatch(t)
    PROVE  ImportInv'
  <1> DEFINE g == thread[t]
             s == (g.batch - 1) * DefaultSize
             done == g.copy.processed + g.count
             c == [g.copy EXCEPT !.processed = done, !.failed = @ + g.bad,
                                 !.at = [processed |-> done,
                                         batch |-> g.batch]]
             h == [g EXCEPT !.pc = "loop", !.copy = c, !.batch = @ + 1]
  <1>1. g \in Busy /\ g.job \in Job /\ g.copy \in Copy
        /\ GoodThread(tried[g.job], g)
    BY BusyThread DEF EndBatch
  <1>2. g.pc = "batch" /\ g.todo = {}
    BY DEF EndBatch
  <1>3. g.batch \in Nat /\ g.count \in Nat /\ g.bad \in Nat /\ g.last \in Nat
        /\ g.copy.processed \in Nat /\ g.copy.failed \in Nat
        /\ g.offset \in Nat /\ DefaultSize \in Nat /\ N \in Nat
    BY <1>1, ImportAssumption DEF Busy, Copy
  <1>4. g.batch >= 1 /\ g.items = Item
    BY <1>1, <1>2 DEF GoodThread, Whole
  <1>5. s \in Nat /\ g.batch * DefaultSize = s + DefaultSize
        /\ (g.batch + 1 - 1) * DefaultSize = g.batch * DefaultSize
    BY <1>3, <1>4, BatchStep
  <1>6. g.copy.processed <= s /\ s + g.count <= N /\ g.count <= DefaultSize
    BY <1>1, <1>2 DEF GoodThread, InOrder, SoundThread
  <1>7. done \in Nat /\ done <= N /\ done <= g.batch * DefaultSize
    BY <1>3, <1>5, <1>6
  <1>8. Covered(tried[g.job], g.batch)
    BY <1>1, <1>2 DEF GoodThread, SoundThread, Covered
  <1>9. c \in Copy /\ c.at.processed = done /\ c.at.batch = g.batch
        /\ c.status = g.copy.status /\ c.processed = done
    <2> HIDE DEF done
    <2>1. g.copy.failed + g.bad \in Nat
      BY <1>3
    <2> QED BY <1>1, <1>3, <1>7, <2>1 DEF Copy
  <1>10. Sound(tried[g.job], c)
    BY <1>1, <1>7, <1>8, <1>9 DEF GoodThread, SoundThread, Sound
  <1>11. h \in Busy /\ h.pc = "loop" /\ h.copy = c /\ h.batch = g.batch + 1
         /\ h.job = g.job /\ h.offset = g.offset /\ h.last = g.last
         /\ h.items = Item
    <2> HIDE DEF c
    <2>1. g.batch + 1 \in Nat
      BY <1>3
    <2> QED BY <1>1, <1>4, <1>9, <2>1 DEF Busy
  <1>12. g.offset <= N /\ g.offset <= s
    BY <1>1, <1>2 DEF GoodThread, InOrder, SoundThread
  <1>13. g.last * DefaultSize >= N
    BY <1>1, <1>2 DEF GoodThread, SoundThread
  <1>14. GoodThread(tried[g.job], h)
    <2> HIDE DEF c, h, g, done, s
    <2>1. h.batch - 1 = g.batch /\ h.batch >= 1
      BY <1>3, <1>11
    <2>2. g.offset <= g.batch * DefaultSize
      BY <1>3, <1>5, <1>12
    <2>3. SoundThread(tried[g.job], h)
      BY <1>7, <1>8, <1>9, <1>10, <1>11, <1>12, <1>13, <2>1, <2>2
         DEF SoundThread
    <2> QED BY <1>11, <2>1, <2>3 DEF GoodThread, Whole, InOrder
  <1>15. Goto(t, h) /\ Save(g.job, c) /\ size' = size
         /\ tried' = tried /\ asked' = asked
    BY DEF EndBatch, history
  <1> HIDE DEF c, h, g, done, s
  <1> QED
    BY <1>1, <1>9, <1>10, <1>11, <1>14, <1>15, OneThreadMoves
       DEF ImportInv, TypeInv

\* A loop that ends has covered the whole list.
LEMMA FinishStep ==
    ASSUME ImportInv, NEW t \in Thread, Finish(t)
    PROVE  ImportInv'
  <1> DEFINE g == thread[t]
             s == (g.batch - 1) * DefaultSize
             c == [g.copy EXCEPT !.status = Verdict(g)]
             h == IF g.collected = {} THEN Idle ELSE [g EXCEPT !.pc = "bridge"]
  <1>1. g \in Busy /\ g.job \in Job /\ g.copy \in Copy
        /\ GoodThread(tried[g.job], g)
    BY BusyThread DEF Finish
  <1>2. g.pc = "loop" /\ LoopEnds(t) /\ g.items = Item /\ g.batch >= 1
    BY <1>1 DEF Finish, GoodThread, Whole
  <1>3. g.batch \in Nat /\ g.last \in Nat /\ DefaultSize \in Nat /\ N \in Nat
        /\ size = DefaultSize /\ Start(t) = s
    BY <1>1, ImportAssumption DEF Busy, ImportInv, TypeInv, Start
  <1>4. Covered(tried[g.job], g.batch - 1) /\ g.last * DefaultSize >= N
    BY <1>1, <1>2 DEF GoodThread, SoundThread
  <1>5. s \in Nat /\ s + DefaultSize = g.batch * DefaultSize
    BY <1>2, <1>3, BatchStep
  <1>6. Verdict(g) \in Done => Item \subseteq tried[g.job]
    <2> SUFFICES ASSUME Verdict(g) \in Done PROVE Item \subseteq tried[g.job]
      OBVIOUS
    <2>1. ~(g.copy.cancel /\ g.batch <= g.last)
      BY DEF Verdict, Done
    <2>2. CASE g.batch <= g.last
      <3>1. Slice(Item, s, DefaultSize) = {}
        BY <1>2, <1>3, <2>1, <2>2 DEF LoopEnds
      <3>2. \A i \in Item : ~(s < i /\ i <= s + DefaultSize)
        BY <3>1, SliceOfWhole
      <3>3. N <= s
        <4> SUFFICES ASSUME N > s PROVE FALSE
          BY <1>3, <1>5
        <4>1. s + 1 \in Item
          BY <1>3, <1>5 DEF Item
        <4>2. s + 1 <= s + DefaultSize
          BY <1>3, <1>5, ImportAssumption
        <4> QED BY <1>5, <3>2, <4>1, <4>2
      <3> QED BY <1>3, <1>4, <1>5, <3>3 DEF Covered, Item
    <2>3. CASE g.batch > g.last
      <3> HIDE DEF g
      <3>1. g.batch - 1 \in Nat /\ g.last <= g.batch - 1
        BY <1>2, <1>3, <2>3
      <3>2. g.last * DefaultSize <= s
        BY <1>3, <3>1, BatchOrder DEF s
      <3>3. N <= s
        <4>1. g.last * DefaultSize \in Nat
          BY <1>3
        <4> QED BY <1>3, <1>4, <1>5, <3>2, <4>1
      <3> QED BY <1>3, <1>4, <1>5, <3>3 DEF Covered, Item
    <2> QED BY <1>3, <2>2, <2>3
  <1>7. c \in Copy /\ Sound(tried[g.job], c)
    <2>1. Verdict(g) \in Status
      BY DEF Verdict, Status
    <2>2. Sound(tried[g.job], g.copy)
      BY <1>1 DEF GoodThread, SoundThread
    <2> HIDE DEF g
    <2> QED BY <1>1, <1>6, <2>1, <2>2, WithStatus DEF c
  <1>8. h = Idle \/ (h \in Busy /\ h.job = g.job /\ h.pc = "bridge"
                       /\ h.copy = g.copy)
    BY <1>1 DEF Busy
  <1>9. h = Idle \/ (h \in Busy /\ h.job = g.job
                       /\ GoodThread(tried[g.job], h))
    <2> HIDE DEF h, g
    <2> QED BY <1>1, <1>8 DEF GoodThread, Whole, InOrder, SoundThread
  <1>10. Goto(t, h) /\ Save(g.job, c) /\ size' = size
         /\ tried' = tried /\ asked' = asked
    BY DEF Finish, history
  <1> HIDE DEF c, h, g
  <1> QED BY <1>1, <1>7, <1>9, <1>10, OneThreadMoves DEF ImportInv, TypeInv

\* After the bridge a thread is free.
LEMMA BridgeStep ==
    ASSUME ImportInv, NEW t \in Thread, Bridge(t)
    PROVE  ImportInv'
  <1>1. thread[t].job \in Job
    BY BusyThread DEF Bridge
  <1>2. Goto(t, Idle) /\ disk' = disk /\ size' = size
        /\ tried' = tried /\ asked' = asked
    BY DEF Bridge, history
  <1> QED BY <1>1, <1>2, OneThreadMoves DEF ImportInv, TypeInv

\* A handler's copy is the file's, and sound as it is.
LEMMA ReadStep ==
    ASSUME ImportInv, NEW t \in Thread, NEW j \in Job,
           NEW leg \in {"cancel", "pause"}, Read(t, leg, j)
    PROVE  ImportInv'
  <1> DEFINE h == [Serving(leg, j, {}, 0, disk[j]) EXCEPT !.pc = "asked"]
  <1>1. disk[j] # NoFile
    BY DEF Read, Asks, NoFile
  <1>2. disk[j] \in Copy /\ Sound(tried[j], disk[j])
    BY <1>1 DEF ImportInv, TypeInv
  <1>3. h \in Busy /\ h.job = j
    BY <1>2 DEF Serving, Busy
  <1>4. GoodThread(tried[j], h)
    BY <1>2 DEF Serving, GoodThread, Whole, InOrder, SoundThread
  <1>5. Goto(t, h) /\ disk' = disk /\ size' = size
        /\ tried' = tried /\ asked' = asked
    BY DEF Read, history
  <1> HIDE DEF h
  <1> QED BY <1>3, <1>4, <1>5, OneThreadMoves DEF ImportInv, TypeInv

\* It stays so when the handler writes it back, however old it is by then.
LEMMA WriteBackStep ==
    ASSUME ImportInv, NEW t \in Thread, WriteBack(t)
    PROVE  ImportInv'
  <1> DEFINE g == thread[t]
             c == IF g.leg = "cancel" THEN [g.copy EXCEPT !.cancel = TRUE]
                  ELSE [g.copy EXCEPT !.status = "paused"]
  <1>1. g.job \in Job /\ g.copy \in Copy /\ GoodThread(tried[g.job], g)
    BY BusyThread DEF WriteBack
  <1>2. Sound(tried[g.job], g.copy)
    BY <1>1 DEF GoodThread, SoundThread
  <1>3. c \in Copy /\ Sound(tried[g.job], c)
    <2>1. CASE g.leg = "cancel"
      <3>1. c \in Copy /\ c.at = g.copy.at /\ c.status = g.copy.status
        BY <1>1, <2>1 DEF Copy
      <3> HIDE DEF c
      <3> QED BY <1>2, <3>1 DEF Sound
    <2>2. CASE g.leg # "cancel"
      <3>1. "paused" \in Status /\ "paused" \notin Done
        BY DEF Status, Done
      <3> QED BY <1>1, <1>2, <2>2, <3>1, WithStatus
    <2> QED BY <2>1, <2>2
  <1>4. Goto(t, Idle) /\ Save(g.job, c) /\ size' = size
        /\ tried' = tried /\ asked' = asked
    BY DEF WriteBack, history
  <1> HIDE DEF c, g
  <1> QED BY <1>1, <1>3, <1>4, OneThreadMoves DEF ImportInv, TypeInv

\* A restart leaves the files and the default batch size.
LEMMA CrashStep == ImportInv /\ Crash => ImportInv'
  <1> SUFFICES ASSUME ImportInv, Crash PROVE ImportInv' OBVIOUS
  <1>1. /\ disk' = disk /\ tried' = tried /\ asked' = asked
        /\ size' = DefaultSize /\ thread' = [t \in Thread |-> Idle]
    BY DEF Crash, history
  <1> QED BY <1>1 DEF ImportInv, TypeInv

\* Nor does the end of a rate-limit window or a stuttering step matter.
LEMMA QuietStep ==
    ImportInv /\ (WindowEnds \/ UNCHANGED vars) => ImportInv'
  <1> SUFFICES ASSUME ImportInv, WindowEnds \/ UNCHANGED vars PROVE ImportInv'
    OBVIOUS
  <1>1. /\ disk' = disk /\ tried' = tried /\ asked' = asked
        /\ size' = size /\ thread' = thread
    BY DEF WindowEnds, history, vars
  <1> QED BY <1>1 DEF ImportInv, TypeInv

-----------------------------------------------------------------------------
\* ImportInv is inductive.
THEOREM ImportInvariant == OneSize => (Spec => []ImportInv)
  <1> SUFFICES ASSUME OneSize PROVE Spec => []ImportInv OBVIOUS
  <1>1. ImportInv /\ [Next]_vars => ImportInv'
    <2> SUFFICES ASSUME ImportInv, [Next]_vars PROVE ImportInv'
      OBVIOUS
    <2>1. ASSUME NEW t \in Thread, NEW j \in Job, NEW items \in Wanted,
                 NEW sz \in Sizes, Import(t, j, items, sz)
          PROVE  ImportInv'
      BY <2>1, ImportStep
    <2>2. ASSUME NEW t \in Thread, NEW j \in Job, Resume(t, j)
          PROVE  ImportInv'
      BY <2>2, ResumeStep
    <2>3. ASSUME NEW t \in Thread, NEW j \in Job,
                 NEW leg \in {"cancel", "pause"}, Read(t, leg, j)
          PROVE  ImportInv'
      BY <2>3, ReadStep
    <2>4. ASSUME NEW t \in Thread, Works(t) PROVE ImportInv'
      BY <2>4, ListFailsStep, ListEmptyStep, ListStep, BeginStep,
         SkipBatchStep, EnterBatchStep, HoldOffStep, FetchContentStep,
         FetchFailsStep, VersionFailsStep, EndBatchStep, FinishStep, BridgeStep, WriteBackStep
         DEF Works
    <2> QED BY <2>1, <2>2, <2>3, <2>4, CrashStep, QuietStep DEF Next
  <1> QED BY <1>1, InitImport, PTL DEF Spec

\* Every copy of every job is safe to resume from.
THEOREM CheckpointsAreSoundHolds ==
  OneSize => (Spec => []CheckpointsAreSound)
  <1>1. ImportInv => CheckpointsAreSound
    BY DEF ImportInv, CheckpointsAreSound, GoodThread
  <1> QED BY <1>1, ImportInvariant, PTL

\* A job that says it is complete has come to every item it was asked for.
THEOREM NothingLeftOutHolds ==
  OneSize => (Spec => []NothingLeftOut)
  <1>1. ImportInv => NothingLeftOut
    <2> SUFFICES ASSUME ImportInv, NEW j \in Job, disk[j].status \in Done
                 PROVE  asked[j] \subseteq tried[j]
      BY DEF NothingLeftOut
    <2>1. disk[j] # NoFile
      BY DEF NoFile, Done
    <2> QED BY <2>1 DEF ImportInv, TypeInv, Sound
  <1> QED BY <1>1, ImportInvariant, PTL

-----------------------------------------------------------------------------
(* What the duplicate store knows, for any batch sizes and item_ids.       *)

\* A request knows what it has collected; one that is yet to list or only asks has nothing.
Carries(h) ==
    /\ {"pc", "collected"} \subseteq DOMAIN h
    /\ h.pc # "idle" /\ h # Idle
    /\ h.pc \in {"listing", "asked"} => h.collected = {}

Carried(t) == thread[t] # Idle => Carries(thread[t])

AccountInv ==
    /\ thread = [t \in Thread |-> thread[t]]
    /\ \A t \in Thread : Carried(t)
    /\ \A i \in hashes : \/ i \in evidence \cup dropped
                         \/ \E t \in Thread : thread[t] # Idle /\ i \in thread[t].collected

\* A thread moves, and what it had and what is recorded anew is accounted for.
LEMMA AccountStays ==
    ASSUME AccountInv, NEW t \in Thread, NEW h, Goto(t, h), h = Idle \/ Carries(h),
           NEW new, hashes' \subseteq hashes \cup new,
           evidence \subseteq evidence', dropped \subseteq dropped',
           \A i \in new : i \in evidence' \cup dropped' \/ (h # Idle /\ i \in h.collected),
           thread[t] # Idle => \A i \in thread[t].collected :
               i \in evidence' \cup dropped' \/ (h # Idle /\ i \in h.collected)
    PROVE  AccountInv'
  <1>1. \A u \in Thread : thread'[u] = IF u = t THEN h ELSE thread[u]
    BY DEF AccountInv, Goto
  <1>2. thread' = [u \in Thread |-> thread'[u]]
    BY DEF AccountInv, Goto
  <1>3. \A u \in Thread : thread'[u] # Idle => Carries(thread'[u])
    BY <1>1 DEF AccountInv, Carried
  <1>4. ASSUME NEW i \in hashes'
        PROVE  \/ i \in evidence' \cup dropped'
               \/ \E u \in Thread : thread'[u] # Idle /\ i \in thread'[u].collected
    <2>1. CASE i \in new
      BY <1>1, <2>1
    <2>2. CASE i \in hashes
      <3>1. CASE i \in evidence \cup dropped
        BY <3>1
      <3>2. ASSUME NEW u \in Thread, thread[u] # Idle, i \in thread[u].collected
            PROVE  \/ i \in evidence' \cup dropped'
                   \/ \E v \in Thread : thread'[v] # Idle /\ i \in thread'[v].collected
        BY <1>1, <3>2
      <3> QED
        BY <2>2, <3>1, <3>2 DEF AccountInv
    <2> QED
      BY <2>1, <2>2
  <1> QED
    BY <1>2, <1>3, <1>4 DEF AccountInv, Carried

\* A request starts with nothing collected.
LEMMA AccountStarts ==
    ASSUME AccountInv, NEW t \in Thread,
           \/ \E j \in Job, items \in Wanted, sz \in Sizes : Import(t, j, items, sz)
           \/ \E j \in Job : Resume(t, j)
           \/ \E j \in Job, leg \in {"cancel", "pause"} : Read(t, leg, j)
    PROVE  AccountInv'
  <1>1. thread[t] = Idle /\ UNCHANGED <<hashes, evidence, dropped>>
    BY DEF Import, Resume, Read, kept
  <1>2. \A leg, j, items, sz, copy : Carries(Serving(leg, j, items, sz, copy))
    BY DEF Serving, Carries, Idle
  <1>3. \A leg, j, items, sz, copy, to :
           to \in {"ready", "asked"} => Carries([Serving(leg, j, items, sz, copy) EXCEPT !.pc = to])
    BY DEF Serving, Carries, Idle
  <1>4. \E h : Goto(t, h) /\ Carries(h)
    BY <1>2, <1>3 DEF Import, Resume, Read
  <1> QED
    BY <1>1, <1>4, AccountStays

\* It keeps what it has collected from step to step.
LEMMA AccountGoesOn ==
    ASSUME AccountInv, NEW t \in Thread,
           \/ List(t) \/ Begin(t) \/ SkipBatch(t) \/ EnterBatch(t) \/ HoldOff(t)
           \/ FetchFails(t, TRUE) \/ FetchFails(t, FALSE) \/ EndBatch(t)
    PROVE  AccountInv'
  <1>1. PICK th : th = thread[t]
    OBVIOUS
  <1>2. th.pc \in {"listing", "ready", "loop", "batch"} /\ UNCHANGED <<hashes, evidence, dropped>>
    BY <1>1 DEF List, Begin, SkipBatch, EnterBatch, HoldOff, FetchFails, EndBatch, Comes, kept
  <1>3. th # Idle /\ Carries(th)
    BY <1>1, <1>2 DEF AccountInv, Carried, Idle
  <1>4. ASSUME NEW h, Goto(t, h), DOMAIN h = DOMAIN th, h.collected = th.collected,
               h.pc \in {"ready", "loop", "batch"}
        PROVE  AccountInv'
    <2>1. Carries(h)
      BY <1>3, <1>4 DEF Carries, Idle
    <2> QED
      BY <1>1, <1>2, <1>4, <2>1, AccountStays DEF Carries
  <1>5. CASE List(t)
    BY <1>1, <1>3, <1>4, <1>5 DEF List, Carries
  <1>6. CASE Begin(t)
    BY <1>1, <1>3, <1>4, <1>6 DEF Begin, Carries
  <1>7. CASE SkipBatch(t)
    BY <1>1, <1>3, <1>4, <1>7 DEF SkipBatch, Carries
  <1>8. CASE EnterBatch(t)
    BY <1>1, <1>3, <1>4, <1>8 DEF EnterBatch, Carries
  <1>9. CASE HoldOff(t)
    BY <1>1, <1>3, <1>4, <1>9 DEF HoldOff, Comes, Carries
  <1>10. CASE FetchFails(t, TRUE) \/ FetchFails(t, FALSE)
    BY <1>1, <1>3, <1>4, <1>10 DEF FetchFails, Comes, Carries
  <1>11. CASE EndBatch(t)
    BY <1>1, <1>3, <1>4, <1>11 DEF EndBatch, Carries
  <1> QED
    BY <1>5, <1>6, <1>7, <1>8, <1>9, <1>10, <1>11

\* What is recorded is collected, or lost with its version record.
LEMMA AccountFetches ==
    ASSUME AccountInv, NEW t \in Thread, FetchContent(t) \/ VersionFails(t)
    PROVE  AccountInv'
  <1>1. PICK th : th = thread[t]
    OBVIOUS
  <1>2. th.pc = "batch" /\ evidence' = evidence
    BY <1>1 DEF FetchContent, VersionFails, Comes, kept
  <1>3. th # Idle /\ Carries(th)
    BY <1>1, <1>2 DEF AccountInv, Carried, Idle
  <1>4. CASE VersionFails(t)
    <2>1. PICK i : /\ hashes' = hashes \cup {i} /\ dropped' = dropped \cup {i}
                   /\ Goto(t, [th EXCEPT !.todo = @ \ {i}, !.count = @ + 1, !.bad = @ + 1])
      BY <1>1, <1>4 DEF VersionFails
    <2>2. PICK h : h = [th EXCEPT !.todo = @ \ {i}, !.count = @ + 1, !.bad = @ + 1]
      OBVIOUS
    <2>3. DOMAIN h = DOMAIN th /\ h.collected = th.collected /\ h.pc = "batch"
      BY <1>2, <1>3, <2>2 DEF Carries
    <2>4. Carries(h)
      BY <1>3, <2>3 DEF Carries, Idle
    <2>5. Goto(t, h) /\ h # Idle
      BY <2>1, <2>2, <2>4 DEF Carries
    <2> QED
      BY <1>1, <1>2, <2>1, <2>3, <2>4, <2>5, AccountStays
  <1>5. CASE FetchContent(t)
    <2>1. PICK i : \/ /\ hashes' = hashes \cup ({i} \ hashes) /\ dropped' = dropped
                      /\ Goto(t, [th EXCEPT !.todo = @ \ {i}, !.count = @ + 1,
                                            !.collected = @ \cup ({i} \ hashes)])
                   \/ /\ hashes' = hashes /\ dropped' = dropped
                      /\ Goto(t, [th EXCEPT !.todo = @ \ {i}, !.count = @ + 1])
      BY <1>1, <1>5 DEF FetchContent, kept
    <2>2. PICK h, new : /\ Goto(t, h) /\ hashes' = hashes \cup new /\ dropped' = dropped
                        /\ \/ /\ h = [th EXCEPT !.todo = @ \ {i}, !.count = @ + 1,
                                                !.collected = @ \cup ({i} \ hashes)]
                              /\ new = {i} \ hashes
                           \/ h = [th EXCEPT !.todo = @ \ {i}, !.count = @ + 1] /\ new = {}
      BY <2>1
    <2>3. DOMAIN h = DOMAIN th /\ h.collected = th.collected \cup new /\ h.pc = "batch"
      BY <1>2, <1>3, <2>2 DEF Carries
    <2>4. Carries(h) /\ h # Idle
      BY <1>3, <2>3 DEF Carries, Idle
    <2> QED
      BY <1>1, <1>2, <2>2, <2>3, <2>4, AccountStays
  <1> QED
    BY <1>4, <1>5

\* What is collected goes to the bridge, which stores it or loses it.
LEMMA AccountEnds ==
    ASSUME AccountInv, NEW t \in Thread,
           ListFails(t) \/ ListEmpty(t) \/ WriteBack(t) \/ Finish(t) \/ Bridge(t)
    PROVE  AccountInv'
  <1>1. PICK th : th = thread[t]
    OBVIOUS
  <1>2. th.pc \in {"listing", "asked", "loop", "bridge"} /\ hashes' = hashes
    BY <1>1 DEF ListFails, ListEmpty, WriteBack, Finish, Bridge
  <1>3. th # Idle /\ Carries(th)
    BY <1>1, <1>2 DEF AccountInv, Carried, Idle
  <1>4. ASSUME Goto(t, Idle), evidence \subseteq evidence', dropped \subseteq dropped',
               th.collected \subseteq evidence' \cup dropped'
        PROVE  AccountInv'
    BY <1>1, <1>2, <1>4, AccountStays
  <1>5. CASE ListFails(t) \/ ListEmpty(t) \/ WriteBack(t)
    <2>1. Goto(t, Idle) /\ th.pc \in {"listing", "asked"} /\ UNCHANGED <<evidence, dropped>>
      BY <1>1, <1>5 DEF ListFails, ListEmpty, WriteBack, kept
    <2> QED
      BY <1>3, <1>4, <2>1 DEF Carries
  <1>6. CASE Finish(t)
    <2>1. UNCHANGED <<evidence, dropped>>
      BY <1>6 DEF Finish, kept
    <2>2. CASE th.collected = {}
      BY <1>1, <1>4, <1>6, <2>1, <2>2 DEF Finish
    <2>3. CASE th.collected # {}
      <3>1. PICK h : h = [th EXCEPT !.pc = "bridge"]
        OBVIOUS
      <3>2. DOMAIN h = DOMAIN th /\ h.collected = th.collected /\ h.pc = "bridge"
        BY <1>3, <3>1 DEF Carries
      <3>3. Carries(h) /\ h # Idle
        BY <1>3, <3>2 DEF Carries, Idle
      <3>4. Goto(t, h)
        BY <1>1, <1>6, <2>3, <3>1 DEF Finish
      <3> QED
        BY <1>1, <1>2, <2>1, <3>2, <3>3, <3>4, AccountStays
    <2> QED
      BY <2>2, <2>3
  <1>7. CASE Bridge(t)
    BY <1>1, <1>4, <1>7 DEF Bridge
  <1> QED
    BY <1>5, <1>6, <1>7

LEMMA AccountStep == AccountInv /\ [Next]_vars => AccountInv'
  <1> SUFFICES ASSUME AccountInv, [Next]_vars PROVE AccountInv'
    OBVIOUS
  <1>1. CASE Crash
    <2>1. /\ thread' = [t \in Thread |-> Idle] /\ dropped' = dropped \cup Held
          /\ UNCHANGED <<hashes, evidence>>
      BY <1>1 DEF Crash
    <2>2. \A t \in Thread : thread[t] # Idle => thread[t].collected \subseteq Held
      BY DEF Held
    <2> QED
      BY <2>1, <2>2 DEF AccountInv, Carried
  <1>2. CASE WindowEnds \/ UNCHANGED vars
    <2>1. UNCHANGED <<thread, hashes, evidence, dropped>>
      BY <1>2 DEF WindowEnds, kept, vars
    <2> QED
      BY <2>1 DEF AccountInv, Carried
  <1>3. ASSUME NEW t \in Thread, Works(t) PROVE AccountInv'
    BY <1>3, AccountGoesOn, AccountFetches, AccountEnds DEF Works
  <1> QED
    BY <1>1, <1>2, <1>3, AccountStarts DEF Next

\* Content the duplicate store knows is evidence, is on its way there in the memory of a request,
\* or is on record as lost to a restart, the bridge or the version record, whatever batch sizes
\* and items are asked for and however requests interleave: the safety of RecordedReachesEvidence.
RecordedIsAccountedFor == hashes \subseteq evidence \cup dropped \cup Held

THEOREM RecordedIsAccountedForHolds == Spec => []RecordedIsAccountedFor
  <1>1. Init => AccountInv
    BY DEF Init, AccountInv, Carried
  <1>2. AccountInv => RecordedIsAccountedFor
    BY DEF AccountInv, RecordedIsAccountedFor, Held
  <1> QED BY <1>1, <1>2, AccountStep, PTL DEF Spec
=============================================================================
