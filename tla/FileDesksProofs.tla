--------------------------- MODULE FileDesksProofs ---------------------------
(***************************************************************************)
(* Proofs about the desks of data sources and of connectors, whose requests  *)
(* are the longest: invariants that every file access of every request       *)
(* keeps, in whatever order the threads take them and wherever the process   *)
(* dies, and the theorems that they hold in every behaviour of Desks.        *)
(*                                                                         *)
(* A request on a source is a program, so the invariant speaks of what is    *)
(* left of it: WellFormed says in what order accesses can follow one         *)
(* another, Stands what holds of a source's files between any two accesses,  *)
(* and Sound what the only request on a source knows of them.                *)
(***************************************************************************)
EXTENDS Desks, FiniteSetTheorems, SequenceTheorems, TLAPS

-----------------------------------------------------------------------------
(* Data sources                                                             *)


Status == {"uploaded", "parsing", "parsed", "failed", "indexed"}
Act == {"file", "write", "ids", "list", "unlist", "set", "reload", "parse", "chunk", "profile",
        "reprofile", "chunks", "vector", "meta", "rmfile", "rmchunks", "rmprofile", "rmrecord", "rmmeta"}
Access == {a \in [do : Act, to : Status \cup {"-"}] : a.do = "set" => a.to \in Status}
SourceRecord == [status : Status, doc : Doc]
SourceWork == [src : Source, todo : Seq(Access), found : SourceRecord, copy : SourceRecord,
               ids : SUBSET Source, n : Nat]

SourceFilesTypeOK ==
    /\ files \subseteq Source /\ listed \subseteq Source /\ prof \subseteq Source
    /\ rec \in [Source -> SourceRecord \cup {None}]
    /\ chunks \in [Source -> SUBSET Nat] /\ vec \in [Source -> SUBSET Nat]
    /\ meta \in [Source -> Nat] /\ \A s \in Source : IsFiniteSet(chunks[s])

SourcesTypeOK ==
    /\ SourceFilesTypeOK
    /\ thread \in [Thread -> SourceWork \cup {D!Idle}]
    /\ used \subseteq Source /\ mixed \subseteq Source /\ doomed \subseteq Source
    /\ requests \in Nat /\ crashes \in Nat

Ahead(p, do) == \E i \in DOMAIN p : p[i].do = do
AheadSet(p, status) == \E i \in DOMAIN p : p[i].do = "set" /\ p[i].to = status

\* Accesses of requests that work on a record there is.
Builds == {"parse", "chunk", "profile", "reprofile", "chunks", "meta", "set", "reload"}
Removes == {"rmfile", "rmchunks", "rmprofile", "rmrecord", "rmmeta"}

\* In what order a request makes its accesses, however much of it is left.
WellFormed(p) ==
    /\ \A i \in DOMAIN p : /\ p[i].do = "ids" => i + 1 \in DOMAIN p /\ p[i + 1].do \in {"list", "unlist"}
                           /\ p[i].do = "set" => i + 3 \in DOMAIN p
                           /\ p[i].do = "file" => i = 1
    /\ \A i, j \in DOMAIN p :
          /\ p[i].do = "rmrecord" => p[j].do \notin Builds
          /\ p[i].do = "rmrecord" /\ i < j => p[j].do \notin Removes
          /\ p[i].do \in {"chunks", "meta"} => p[j].do # "parse" /\ (p[j].do = "set" => p[j].to # "parsed")
          /\ p[i].do \in {"chunks", "meta", "parse"} => p[j].do # "chunk"
          /\ p[i].do = "meta" /\ i < j => p[j].do # "chunks"
          /\ p[i].do = "set" /\ p[i].to = "indexed" /\ i < j => p[j].do \notin {"chunks", "meta"}

\* All of a document's chunks are there.
Parsed(s, doc) == s \in files /\ (doc.kind # "csv" => chunks[s] = 1..doc.n)
IndexedAs(s, doc) == doc.kind # "csv" /\ meta[s] = doc.n

Backed(s, r) ==
    /\ r.status \in {"parsed", "indexed"} => Parsed(s, r.doc)
    /\ r.status = "indexed" => IndexedAs(s, r.doc)

\* What stands of a source whether or not someone works on it.
Stands(s) ==
    /\ rec[s] = None => chunks[s] = {} /\ s \notin prof /\ meta[s] = 0
    /\ s \notin doomed /\ rec[s] # None =>
          /\ s \in files /\ chunks[s] \subseteq 1..rec[s].doc.n
          /\ rec[s].doc.kind = "csv" => chunks[s] = {}
          /\ Backed(s, rec[s])

\* What the only request on a source knows of it: a deletion that it takes the record last,
\* a request that builds on a record that there is one; of a source nobody deletes, that
\* its document stays, that its file comes first, which chunks are still to be written,
\* and that what is called indexed is whole.
RecordGoesLast(s, p) ==
    Ahead(p, "rmrecord") =>
       /\ Ahead(p, "rmchunks") \/ chunks[s] = {}
       /\ Ahead(p, "rmprofile") \/ s \notin prof
       /\ Ahead(p, "rmmeta") \/ meta[s] = 0
BuildsOnRecord(s, p) == (\E do \in Builds : Ahead(p, do)) => rec[s] # None
DocumentStays(s, th) ==
    /\ th.found.doc = th.copy.doc /\ (rec[s] # None => rec[s].doc = th.copy.doc)
    /\ Backed(s, th.copy)
FileComesFirst(s, p) == Ahead(p, "file") \/ s \in files
ChunksFollow(s, th) ==
    LET doc == th.copy.doc IN
    /\ 1..th.n \subseteq chunks[s]
    /\ Ahead(th.todo, "parse") => th.n = 0
    /\ Ahead(th.todo, "chunk") \/ AheadSet(th.todo, "parsed") =>
          IF doc.kind = "csv" THEN ~Ahead(th.todo, "chunk")
          ELSE /\ th.n <= doc.n
               /\ \A i \in DOMAIN th.todo : th.todo[i].do = "chunk" <=> i <= doc.n - th.n
IndexIsWhole(s, th) ==
    LET doc == th.copy.doc IN
    /\ Ahead(th.todo, "chunks") \/ Ahead(th.todo, "meta") \/ AheadSet(th.todo, "indexed") =>
          /\ Parsed(s, doc)
          /\ Ahead(th.todo, "chunks") \/ (doc.kind # "csv" /\ th.n = doc.n)
    /\ AheadSet(th.todo, "indexed") => Ahead(th.todo, "meta") \/ meta[s] = doc.n

Sound(s, th) ==
    /\ RecordGoesLast(s, th.todo) /\ BuildsOnRecord(s, th.todo)
    /\ s \notin doomed =>
          /\ DocumentStays(s, th) /\ FileComesFirst(s, th.todo)
          /\ ChunksFollow(s, th) /\ IndexIsWhole(s, th)

ProgramsAreOrdered ==
    \A t \in Thread :
        /\ WellFormed(thread[t].todo)
        /\ (\E do \in Removes : Ahead(thread[t].todo, do)) => thread[t].src \in doomed
UnusedAreEmpty == \A s \in Source \ used : rec[s] = None /\ \A t \in Thread : thread[t].src # s
AloneUnlessMixed ==
    \A t, u \in Thread : t # u /\ thread[t].src = thread[u].src /\ thread[t].src # None =>
        thread[t].src \in mixed
SourcesStand == \A s \in Source \ mixed : Stands(s)
RequestsAreSound ==
    \A t \in Thread : thread[t].src \in Source \ mixed => Sound(thread[t].src, thread[t])

SourcesInv ==
    /\ SourcesTypeOK /\ ProgramsAreOrdered /\ UnusedAreEmpty /\ AloneUnlessMixed
    /\ SourcesStand /\ RequestsAreSound

-----------------------------------------------------------------------------

LEMMA TailOfProgram ==
    ASSUME NEW p \in Seq(Access), p # <<>>
    PROVE  /\ Tail(p) \in Seq(Access) /\ Head(p) = p[1] /\ Len(p) = Len(Tail(p)) + 1
           /\ DOMAIN p = 1..Len(p) /\ Len(p) \in Nat /\ Len(p) >= 1
           /\ DOMAIN Tail(p) = 1..Len(Tail(p)) /\ Len(Tail(p)) \in Nat
           /\ \A i \in 1..Len(Tail(p)) : Tail(p)[i] = p[i + 1]
           /\ Len(p) >= 2 => Tail(p) # <<>> /\ Head(Tail(p)) = p[2]
OBVIOUS

LEMMA AheadOfTail ==
    ASSUME NEW p \in Seq(Access), p # <<>>
    PROVE  /\ \A do : Ahead(p, do) <=> Head(p).do = do \/ Ahead(Tail(p), do)
           /\ \A st : AheadSet(p, st) <=> (Head(p).do = "set" /\ Head(p).to = st) \/ AheadSet(Tail(p), st)
           /\ Tail(p) \in Seq(Access) /\ Head(p) \in Access
<1>1. /\ Tail(p) \in Seq(Access) /\ Len(Tail(p)) = Len(p) - 1 /\ Head(p) = p[1] /\ Len(p) >= 1
      /\ \A i \in 1..Len(p) - 1 : Tail(p)[i] = p[i + 1]
      /\ DOMAIN p = 1..Len(p) /\ DOMAIN Tail(p) = 1..Len(p) - 1 /\ Len(p) \in Nat
  OBVIOUS
<1>2. \A i \in DOMAIN p : i = 1 \/ (i - 1 \in DOMAIN Tail(p) /\ Tail(p)[i - 1] = p[i])
  BY <1>1
<1>3. \A i \in DOMAIN Tail(p) : i + 1 \in DOMAIN p /\ Tail(p)[i] = p[i + 1]
  BY <1>1
<1>4. \A do : Ahead(p, do) <=> Head(p).do = do \/ Ahead(Tail(p), do)
  <2> TAKE do
  <2>1. ASSUME Ahead(p, do) PROVE Head(p).do = do \/ Ahead(Tail(p), do)
    BY <1>1, <1>2, <2>1, Zenon DEF Ahead
  <2>2. ASSUME Head(p).do = do PROVE Ahead(p, do)
    <3>1. 1 \in DOMAIN p
      BY <1>1
    <3> QED
      BY <1>1, <2>2, <3>1, Zenon DEF Ahead
  <2>3. ASSUME Ahead(Tail(p), do) PROVE Ahead(p, do)
    BY <1>3, <2>3, Zenon DEF Ahead
  <2> QED
    BY <2>1, <2>2, <2>3
<1>5. \A st : AheadSet(p, st) <=> (Head(p).do = "set" /\ Head(p).to = st) \/ AheadSet(Tail(p), st)
  <2> TAKE st
  <2>1. ASSUME AheadSet(p, st) PROVE (Head(p).do = "set" /\ Head(p).to = st) \/ AheadSet(Tail(p), st)
    BY <1>1, <1>2, <2>1, Zenon DEF AheadSet
  <2>2. ASSUME (Head(p).do = "set" /\ Head(p).to = st) PROVE AheadSet(p, st)
    <3>1. 1 \in DOMAIN p
      BY <1>1
    <3> QED
      BY <1>1, <2>2, <3>1, Zenon DEF AheadSet
  <2>3. ASSUME AheadSet(Tail(p), st) PROVE AheadSet(p, st)
    BY <1>3, <2>3, Zenon DEF AheadSet
  <2> QED
    BY <2>1, <2>2, <2>3
<1> QED
  BY <1>1, <1>4, <1>5

\* What comes first says what is to follow.
LEMMA HeadIsOrdered ==
    ASSUME NEW p \in Seq(Access), p # <<>>, WellFormed(p)
    PROVE  /\ Head(p).do = "ids" => Tail(p) # <<>> /\ Head(Tail(p)).do \in {"list", "unlist"}
           /\ Head(p).do = "set" => Len(p) >= 4
           /\ Head(p).do # "file" => ~Ahead(p, "file")
           /\ Head(p).do \in Builds => ~Ahead(p, "rmrecord")
           /\ Head(p).do = "rmrecord" => \A do \in Builds : ~Ahead(p, do)
           /\ Head(p).do = "rmrecord" => \A do \in Removes : ~Ahead(Tail(p), do)
           /\ Head(p).do \in {"chunks", "meta"} =>
                  ~Ahead(p, "chunk") /\ ~Ahead(p, "parse") /\ ~AheadSet(p, "parsed")
           /\ Head(p).do = "chunk" => ~Ahead(p, "chunks") /\ ~Ahead(p, "meta") /\ ~Ahead(p, "parse")
           /\ Head(p).do = "meta" => ~Ahead(p, "chunks")
           /\ Head(p).do = "set" /\ Head(p).to = "indexed" => ~Ahead(p, "chunks") /\ ~Ahead(p, "meta")
<1>1. /\ Head(p) = p[1] /\ 1 \in DOMAIN p /\ Len(p) \in Nat /\ DOMAIN p = 1..Len(p)
      /\ Tail(p) \in Seq(Access) /\ (Len(p) >= 2 => Tail(p) # <<>> /\ Head(Tail(p)) = p[2])
      /\ \A i \in DOMAIN p : i # 1 => 1 < i
      /\ \A i \in DOMAIN Tail(p) : i + 1 \in DOMAIN p /\ Tail(p)[i] = p[i + 1] /\ 1 < i + 1
  BY TailOfProgram
<1>2. ASSUME Head(p).do = "ids" PROVE Tail(p) # <<>> /\ Head(Tail(p)).do \in {"list", "unlist"}
  <2>1. 1 + 1 \in DOMAIN p /\ p[1 + 1].do \in {"list", "unlist"}
    BY <1>1, <1>2, Zenon DEF WellFormed
  <2>2. Len(p) >= 2 /\ 1 + 1 = 2
    BY <1>1, <2>1
  <2> QED
    BY <1>1, <2>1, <2>2
<1>3. ASSUME Head(p).do = "set" PROVE Len(p) >= 4
  <2>1. 1 + 3 \in DOMAIN p
    BY <1>1, <1>3, Zenon DEF WellFormed
  <2> QED
    BY <1>1, <2>1
<1>4. ASSUME Head(p).do # "file" PROVE ~Ahead(p, "file")
  BY <1>1, <1>4, Zenon DEF WellFormed, Ahead
<1>5. ASSUME Head(p).do \in Builds PROVE ~Ahead(p, "rmrecord")
  BY <1>1, <1>5, Zenon DEF WellFormed, Ahead
<1>6. ASSUME Head(p).do = "rmrecord" PROVE \A do \in Builds : ~Ahead(p, do)
  BY <1>1, <1>6, Zenon DEF WellFormed, Ahead
<1>7. ASSUME Head(p).do = "rmrecord" PROVE \A do \in Removes : ~Ahead(Tail(p), do)
  <2>1. \A i \in DOMAIN p : 1 < i => p[i].do \notin Removes
    BY <1>1, <1>7, Zenon DEF WellFormed
  <2> QED
    BY <1>1, <2>1, Zenon DEF Ahead
<1>8. ASSUME Head(p).do \in {"chunks", "meta"}
      PROVE  ~Ahead(p, "chunk") /\ ~Ahead(p, "parse") /\ ~AheadSet(p, "parsed")
  <2>1. Head(p).do \in {"chunks", "meta", "parse"}
    BY <1>8
  <2>2. ~Ahead(p, "chunk")
    BY <1>1, <2>1, Zenon DEF WellFormed, Ahead
  <2>3. ~Ahead(p, "parse")
    BY <1>1, <1>8, Zenon DEF WellFormed, Ahead
  <2>4. ~AheadSet(p, "parsed")
    BY <1>1, <1>8, Zenon DEF WellFormed, AheadSet
  <2> QED
    BY <2>2, <2>3, <2>4
<1>9. ASSUME Head(p).do = "chunk" PROVE ~Ahead(p, "chunks") /\ ~Ahead(p, "meta") /\ ~Ahead(p, "parse")
  BY <1>1, <1>9 DEF WellFormed, Ahead
<1>10. ASSUME Head(p).do = "meta" PROVE ~Ahead(p, "chunks")
  <2>1. \A i \in DOMAIN p : i # 1 => p[i].do # "chunks"
    BY <1>1, <1>10, Zenon DEF WellFormed
  <2> QED
    BY <1>1, <1>10, <2>1 DEF Ahead
<1>11. ASSUME Head(p).do = "set", Head(p).to = "indexed"
       PROVE  ~Ahead(p, "chunks") /\ ~Ahead(p, "meta")
  <2>1. \A i \in DOMAIN p : i # 1 => p[i].do \notin {"chunks", "meta"}
    BY <1>1, <1>11, Zenon DEF WellFormed
  <2> QED
    BY <1>1, <1>11, <2>1 DEF Ahead
<1> QED
  BY <1>2, <1>3, <1>4, <1>5, <1>6, <1>7, <1>8, <1>9, <1>10, <1>11

\* What is left of an ordered program is ordered.
LEMMA SuffixIsOrdered ==
    ASSUME NEW p \in Seq(Access), WellFormed(p), NEW k \in Nat, NEW q \in Seq(Access),
           Len(p) = Len(q) + k, \A i \in 1..Len(q) : q[i] = p[i + k]
    PROVE  WellFormed(q) /\ \A do : Ahead(q, do) => Ahead(p, do)
<1>1. DOMAIN p = 1..Len(p) /\ DOMAIN q = 1..Len(q) /\ Len(p) \in Nat /\ Len(q) \in Nat
  OBVIOUS
<1>2. \A i \in DOMAIN q : i + k \in DOMAIN p /\ q[i] = p[i + k] /\ (i + k = 1 => i = 1)
  BY <1>1
<1>4. \A i \in DOMAIN q : /\ q[i].do = "ids" => i + 1 \in DOMAIN q /\ q[i + 1].do \in {"list", "unlist"}
                          /\ q[i].do = "set" => i + 3 \in DOMAIN q
                          /\ q[i].do = "file" => i = 1
  <2> TAKE i \in DOMAIN q
  <2>1. ASSUME q[i].do = "ids" PROVE i + 1 \in DOMAIN q /\ q[i + 1].do \in {"list", "unlist"}
    <3>1. i + k + 1 \in DOMAIN p /\ p[i + k + 1].do \in {"list", "unlist"}
      BY <1>2, <2>1 DEF WellFormed
    <3>2. i + 1 \in DOMAIN q /\ (i + 1) + k = i + k + 1
      BY <1>1, <3>1
    <3> QED
      BY <1>2, <3>1, <3>2
  <2>2. q[i].do = "set" => i + 3 \in DOMAIN q
    <3>1. q[i].do = "set" => i + k + 3 \in DOMAIN p
      BY <1>2 DEF WellFormed
    <3> QED
      BY <1>1, <3>1
  <2>3. q[i].do = "file" => i = 1
    BY <1>1, <1>2 DEF WellFormed
  <2> QED
    BY <2>1, <2>2, <2>3
<1>5. \A i, j \in DOMAIN q : i < j => i + k < j + k
  BY <1>1
<1>6. ASSUME NEW i \in DOMAIN q, NEW j \in DOMAIN q
      PROVE  /\ q[i].do = "rmrecord" => q[j].do \notin Builds
             /\ q[i].do = "rmrecord" /\ i < j => q[j].do \notin Removes
             /\ q[i].do \in {"chunks", "meta"} =>
                    q[j].do # "parse" /\ (q[j].do = "set" => q[j].to # "parsed")
             /\ q[i].do \in {"chunks", "meta", "parse"} => q[j].do # "chunk"
             /\ q[i].do = "meta" /\ i < j => q[j].do # "chunks"
             /\ q[i].do = "set" /\ q[i].to = "indexed" /\ i < j => q[j].do \notin {"chunks", "meta"}
  <2>1. i + k \in DOMAIN p /\ j + k \in DOMAIN p /\ q[i] = p[i + k] /\ q[j] = p[j + k]
        /\ (i < j => i + k < j + k)
    BY <1>2, <1>5
  <2> QED
    BY <2>1, ZenonT(40) DEF WellFormed
<1> QED
  BY <1>2, <1>4, <1>6 DEF WellFormed, Ahead

-----------------------------------------------------------------------------

\* The desk counts as the library does.
LEMMA SourceCardinality == ASSUME NEW X PROVE D!Cardinality(X) = Cardinality(X)
BY DEF D!Cardinality, Cardinality

\* A thread goes on, and changes nothing but what belongs to its source.
SourceGoesOn(t, s, th) ==
    /\ thread[t].src = s /\ thread' = [thread EXCEPT ![t] = th]
    /\ th \in SourceWork \cup {D!Idle} /\ th.src \in {s, None}
    /\ WellFormed(th.todo) /\ \A do \in Removes : Ahead(th.todo, do) => s \in doomed
    /\ SourceFilesTypeOK'
    /\ \A x \in Source \ {s} :
          /\ rec'[x] = rec[x] /\ chunks'[x] = chunks[x] /\ meta'[x] = meta[x]
          /\ (x \in prof' <=> x \in prof) /\ (x \in files' <=> x \in files)
    /\ s \notin mixed => Stands(s)' /\ (th.src = s => Sound(s, th)')
    /\ UNCHANGED <<used, requests, crashes, mixed, doomed>>

LEMMA SourcesGoOn ==
    ASSUME SourcesInv, NEW t \in Thread, NEW s \in Source, NEW th, SourceGoesOn(t, s, th)
    PROVE  SourcesInv'
<1> USE DEF SourcesInv, SourceGoesOn
<1>1. SourcesTypeOK'
  BY DEF SourcesTypeOK
<1>2. thread'[t] = th /\ \A u \in Thread \ {t} : thread'[u] = thread[u]
  BY DEF SourcesTypeOK
<1>3. ProgramsAreOrdered'
  <2>1. CASE th.src = s
    BY <1>2, <2>1 DEF ProgramsAreOrdered
  <2>2. CASE th.src = None
    BY <1>2, <2>2, DesksAssumption DEF ProgramsAreOrdered, SourceWork, D!Idle, Ahead
  <2> QED
    BY <2>1, <2>2
<1>4. UnusedAreEmpty'
  BY <1>2, DesksAssumption DEF UnusedAreEmpty
<1>5. AloneUnlessMixed'
  BY <1>2, DesksAssumption DEF AloneUnlessMixed
<1>6. SourcesStand'
  BY DEF SourcesStand, Stands, Backed, Parsed, IndexedAs
<1>7. RequestsAreSound'
  <2>1. ASSUME NEW u \in Thread, thread'[u].src \in Source \ mixed'
        PROVE  Sound(thread[u].src, thread[u])' 
    <3>1. CASE u = t
      BY <1>2, <2>1, <3>1, DesksAssumption
    <3>2. CASE u # t
      <4> DEFINE x == thread[u].src
      <4>1. x \in Source \ {s} /\ x \notin mixed /\ Sound(x, thread[u]) /\ thread'[u] = thread[u]
        BY <1>2, <2>1, <3>2, DesksAssumption DEF AloneUnlessMixed, RequestsAreSound
      <4> QED
        BY <4>1 DEF Sound, RecordGoesLast, BuildsOnRecord, DocumentStays, FileComesFirst, ChunksFollow,
                    IndexIsWhole, Backed, Parsed, IndexedAs
    <3> QED
      BY <3>1, <3>2
  <2> QED
    BY <2>1 DEF RequestsAreSound
<1> QED
  BY <1>1, <1>3, <1>4, <1>5, <1>6, <1>7

LEMMA SourcesStart == D!Init => SourcesInv
<1> SUFFICES ASSUME D!Init PROVE SourcesInv
  OBVIOUS
<1>1. SourcesTypeOK
  BY FS_EmptySet DEF D!Init, SourcesTypeOK, SourceFilesTypeOK
<1>2. \A t \in Thread : thread[t].src = None /\ thread[t].todo = <<>>
  BY DEF D!Init, D!Idle
<1>3. WellFormed(<<>>) /\ \A do : ~Ahead(<<>>, do)
  BY DEF WellFormed, Ahead
<1>4. SourcesStand
  BY DEF D!Init, SourcesStand, Stands
<1> QED
  BY <1>1, <1>2, <1>3, <1>4, DesksAssumption
     DEF SourcesInv, ProgramsAreOrdered, UnusedAreEmpty, AloneUnlessMixed, RequestsAreSound, D!Init

-----------------------------------------------------------------------------

\* What a request that goes on with its program is.
LEMMA SourceAdvances ==
    ASSUME NEW w \in SourceWork, w.todo # <<>>, NEW x, x = [w EXCEPT !.todo = Tail(@)]
    PROVE  /\ x \in SourceWork /\ x.todo = Tail(w.todo) /\ x.src = w.src /\ x.found = w.found
           /\ x.copy = w.copy /\ x.ids = w.ids /\ x.n = w.n
<1>1. w.todo \in Seq(Access)
  BY DEF SourceWork
<1>2. Tail(w.todo) \in Seq(Access)
  BY <1>1
<1> QED
  BY <1>2 DEF SourceWork

LEMMA SourceRequest ==
    ASSUME SourcesInv, NEW t \in Thread, NEW do, D!Does(t, do), NEW s, s = thread[t].src
    PROVE  /\ thread[t] \in SourceWork /\ s \in Source
           /\ thread[t].todo \in Seq(Access) /\ thread[t].todo # <<>> /\ Head(thread[t].todo).do = do
           /\ Tail(thread[t].todo) \in Seq(Access)
           /\ WellFormed(thread[t].todo) /\ WellFormed(Tail(thread[t].todo))
           /\ \A d \in Removes : Ahead(Tail(thread[t].todo), d) => s \in doomed
           /\ do \in Removes => s \in doomed
           /\ s \notin mixed => Sound(s, thread[t]) /\ Stands(s)
<1>1. thread[t] \in SourceWork /\ thread[t].todo # <<>> /\ Head(thread[t].todo).do = do
  BY DEF D!Does, SourcesInv, SourcesTypeOK, D!Idle
<1>2. s \in Source /\ thread[t].todo \in Seq(Access)
  BY <1>1 DEF SourceWork
<1> DEFINE p == thread[t].todo
<1>3. WellFormed(p) /\ \A d \in Removes : Ahead(p, d) => s \in doomed
  BY DEF SourcesInv, ProgramsAreOrdered
<1>4. /\ Tail(p) \in Seq(Access) /\ Len(p) = Len(Tail(p)) + 1
      /\ \A i \in 1..Len(Tail(p)) : Tail(p)[i] = p[i + 1]
  BY <1>1, <1>2
<1>5. WellFormed(Tail(p)) /\ \A d : Ahead(Tail(p), d) => Ahead(p, d)
  BY <1>2, <1>3, <1>4, SuffixIsOrdered
<1>6. Ahead(p, do)
  BY <1>1, <1>2, AheadOfTail
<1> QED
  BY <1>1, <1>2, <1>3, <1>4, <1>5, <1>6 DEF SourcesInv, RequestsAreSound, SourcesStand

LEMMA ChunksOfTail ==
    ASSUME NEW p \in Seq(Access), p # <<>>, NEW k \in Int,
           \A i \in DOMAIN p : p[i].do = "chunk" <=> i <= k
    PROVE  \A i \in DOMAIN Tail(p) :
               Tail(p)[i].do = "chunk" <=> i <= IF Head(p).do = "chunk" THEN k - 1 ELSE k
<1>1. /\ Head(p) = p[1] /\ Len(p) >= 1 /\ Len(p) \in Nat
      /\ \A i \in 1..Len(p) - 1 : Tail(p)[i] = p[i + 1]
      /\ DOMAIN p = 1..Len(p) /\ DOMAIN Tail(p) = 1..Len(p) - 1
  OBVIOUS
<1> QED
  BY <1>1

\* An access that takes nothing from the source, and leaves its document, its chunks and
\* its index as they are.
LEMMA SoundGoesOn ==
    ASSUME NEW s \in Source, NEW w \in SourceWork, NEW x \in SourceWork, w.todo # <<>>,
           x.todo = Tail(w.todo), x.n = w.n, Sound(s, w), WellFormed(w.todo),
           chunks'[s] = chunks[s], meta'[s] = meta[s], doomed' = doomed,
           rec[s] # None => rec'[s] # None,
           s \in prof' => s \in prof \/ Head(w.todo).do \in Builds,
           s \notin doomed =>
              /\ x.found.doc = w.copy.doc /\ x.copy.doc = w.copy.doc
              /\ rec'[s] # None => rec'[s].doc = w.copy.doc
              /\ Backed(s, x.copy)'
              /\ s \in files \/ Head(w.todo).do = "file" => s \in files',
           Head(w.todo).do \notin {"rmchunks", "rmprofile", "rmmeta", "chunk", "chunks", "meta"}
    PROVE  Sound(s, x)'
<1>1. w.todo \in Seq(Access) /\ w.copy \in SourceRecord /\ w.n \in Nat
  BY DEF SourceWork
<1>2. BuildsOnRecord(s, x.todo)'
  BY <1>1, AheadOfTail DEF Sound, BuildsOnRecord
<1>3. RecordGoesLast(s, x.todo)'
  <2>1. Head(w.todo).do \in Builds => ~Ahead(w.todo, "rmrecord")
    BY <1>1, HeadIsOrdered
  <2>2. Ahead(x.todo, "rmrecord") => s \notin prof' \/ Ahead(x.todo, "rmprofile")
    BY <1>1, <2>1, AheadOfTail DEF Sound, RecordGoesLast
  <2> QED
    BY <1>1, <2>2, AheadOfTail DEF Sound, RecordGoesLast
<1>4. ASSUME s \notin doomed
      PROVE  /\ DocumentStays(s, x)' /\ FileComesFirst(s, x.todo)'
             /\ ChunksFollow(s, x)' /\ IndexIsWhole(s, x)'
  <2>1. DocumentStays(s, x)'
    BY <1>4 DEF Sound, DocumentStays
  <2>2. FileComesFirst(s, x.todo)'
    BY <1>1, <1>4, AheadOfTail DEF Sound, FileComesFirst
  <2>3. ChunksFollow(s, x)'
    <3> DEFINE k == w.copy.doc.n - w.n
    <3>1. CASE w.copy.doc.kind = "csv"
      BY <1>1, <1>4, <3>1, AheadOfTail DEF Sound, ChunksFollow
    <3>2. CASE w.copy.doc.kind # "csv" /\ (Ahead(x.todo, "chunk") \/ AheadSet(x.todo, "parsed"))
      <4>1. Ahead(w.todo, "chunk") \/ AheadSet(w.todo, "parsed")
        BY <1>1, <3>2, AheadOfTail
      <4>2. w.n <= w.copy.doc.n /\ \A i \in DOMAIN w.todo : w.todo[i].do = "chunk" <=> i <= k
        BY <1>4, <3>2, <4>1 DEF Sound, ChunksFollow
      <4>3. k \in Int
        BY <1>1, DesksAssumption DEF SourceRecord
      <4>4. \A i \in DOMAIN x.todo : x.todo[i].do = "chunk" <=> i <= k
        BY <1>1, <4>2, <4>3, ChunksOfTail
      <4> QED
        BY <1>1, <1>4, <3>2, <4>2, <4>4, AheadOfTail DEF Sound, ChunksFollow
    <3>3. CASE ~(Ahead(x.todo, "chunk") \/ AheadSet(x.todo, "parsed"))
      BY <1>1, <1>4, <3>3, AheadOfTail DEF Sound, ChunksFollow
    <3> QED
      BY <3>1, <3>2, <3>3
  <2>4. IndexIsWhole(s, x)'
    BY <1>1, <1>4, AheadOfTail DEF Sound, IndexIsWhole, Parsed
  <2> QED
    BY <2>1, <2>2, <2>3, <2>4
<1> QED
  BY <1>2, <1>3, <1>4 DEF Sound

\* An access that leaves what the request knows as it is.
LEMMA SoundAdvances ==
    ASSUME NEW s \in Source, NEW w \in SourceWork, NEW x \in SourceWork, w.todo # <<>>,
           x.todo = Tail(w.todo), x.found = w.found, x.copy = w.copy, x.n = w.n,
           Sound(s, w), WellFormed(w.todo),
           rec'[s] = rec[s], chunks'[s] = chunks[s], meta'[s] = meta[s], doomed' = doomed,
           s \in prof' => s \in prof \/ Head(w.todo).do \in Builds,
           s \notin doomed => (s \in files \/ Head(w.todo).do = "file" => s \in files'),
           Head(w.todo).do \notin {"rmchunks", "rmprofile", "rmmeta", "chunk", "chunks", "meta"}
    PROVE  Sound(s, x)'
<1>1. s \notin doomed =>
          /\ x.found.doc = w.copy.doc /\ x.copy.doc = w.copy.doc
          /\ rec'[s] # None => rec'[s].doc = w.copy.doc
          /\ Backed(s, x.copy)'
  BY DEF Sound, DocumentStays, Backed, Parsed, IndexedAs
<1> QED
  BY <1>1, SoundGoesOn

LEMMA SourceStores == ASSUME SourcesInv, NEW t \in Thread, D!StoreFile(t) PROVE SourcesInv'
<1> DEFINE w == thread[t]
<1>1. PICK s, x : s = w.src /\ x = [w EXCEPT !.todo = Tail(@)]
  OBVIOUS
<1>2. PICK do : D!Does(t, do) /\ \/ do = "file" /\ files' = files \cup {s}
                                 \/ do = "rmfile" /\ files' = files \ {s}
  BY <1>1 DEF D!StoreFile
<1>3. /\ thread' = [thread EXCEPT ![t] = x]
      /\ UNCHANGED <<rec, listed, chunks, prof, meta, vec, used, requests, crashes, mixed, doomed>>
  BY <1>1 DEF D!StoreFile, D!Then, D!history
<1>4. /\ w \in SourceWork /\ s \in Source /\ w.todo # <<>> /\ Head(w.todo).do = do
      /\ WellFormed(w.todo) /\ WellFormed(Tail(w.todo))
      /\ \A d \in Removes : Ahead(Tail(w.todo), d) => s \in doomed
      /\ do = "rmfile" => s \in doomed
      /\ s \notin mixed => Sound(s, w) /\ Stands(s)
  BY <1>1, <1>2, SourceRequest DEF Removes
<1>5. /\ x \in SourceWork /\ x.todo = Tail(w.todo) /\ x.src = s /\ x.found = w.found
      /\ x.copy = w.copy /\ x.ids = w.ids /\ x.n = w.n
  BY <1>1, <1>4, SourceAdvances
<1>6. SourceFilesTypeOK'
  BY <1>2, <1>3, <1>4 DEF SourcesInv, SourcesTypeOK, SourceFilesTypeOK
<1>7. s \notin mixed => Stands(s)'
  BY <1>2, <1>3, <1>4 DEF Stands, Backed, Parsed, IndexedAs
<1>8. s \notin mixed => Sound(s, x)'
  BY <1>2, <1>3, <1>4, <1>5, SoundAdvances
<1>9. SourceGoesOn(t, s, x)
  BY <1>1, <1>2, <1>3, <1>4, <1>5, <1>6, <1>7, <1>8 DEF SourceGoesOn
<1> QED
  BY <1>4, <1>9, SourcesGoOn

LEMMA SourceSavesIndex == ASSUME SourcesInv, NEW t \in Thread, D!SaveIndex(t) PROVE SourcesInv'
<1> DEFINE w == thread[t]
<1>1. PICK s, c : s = w.src /\ c = [w EXCEPT !.ids = {}]
  OBVIOUS
<1>0. PICK x : x = [c EXCEPT !.todo = Tail(@)]
  OBVIOUS
<1>2. PICK do \in {"list", "unlist"} :
          D!Does(t, do) /\ listed' \in {w.ids \cup {s}, w.ids \ {s}}
  BY <1>1 DEF D!SaveIndex
<1>3. /\ thread' = [thread EXCEPT ![t] = x]
      /\ UNCHANGED <<files, rec, chunks, prof, meta, vec, used, requests, crashes, mixed, doomed>>
  BY <1>0, <1>1 DEF D!SaveIndex, D!Then, D!history
<1>4. /\ w \in SourceWork /\ s \in Source /\ w.todo # <<>> /\ Head(w.todo).do = do
      /\ WellFormed(w.todo)
      /\ WellFormed(Tail(w.todo)) /\ \A d \in Removes : Ahead(Tail(w.todo), d) => s \in doomed
      /\ s \notin mixed => Sound(s, w) /\ Stands(s)
  BY <1>1, <1>2, SourceRequest
<1>5. /\ c \in SourceWork /\ c.todo = w.todo /\ c.src = s /\ c.found = w.found
      /\ c.copy = w.copy /\ c.n = w.n
  BY <1>1, <1>4 DEF SourceWork
<1>6. /\ x \in SourceWork /\ x.todo = Tail(w.todo) /\ x.src = s /\ x.found = w.found
      /\ x.copy = w.copy /\ x.n = w.n
  BY SMTT(30), <1>0, <1>4, <1>5, SourceAdvances
<1>7. SourceFilesTypeOK'
  BY <1>2, <1>3, <1>4 DEF SourcesInv, SourcesTypeOK, SourceFilesTypeOK, SourceWork
<1>8. s \notin mixed => Stands(s)'
  BY <1>3, <1>4 DEF Stands, Backed, Parsed, IndexedAs
<1>9. s \notin mixed => Sound(s, x)'
  BY <1>2, <1>3, <1>4, <1>6, SoundAdvances
<1>10. SourceGoesOn(t, s, x)
  BY <1>1, <1>3, <1>4, <1>6, <1>7, <1>8, <1>9 DEF SourceGoesOn
<1> QED
  BY <1>4, <1>10, SourcesGoOn

LEMMA SourceLoadsIndex == ASSUME SourcesInv, NEW t \in Thread, D!LoadIndex(t) PROVE SourcesInv'
<1> DEFINE w == thread[t]
<1>1. PICK s, c, y : s = w.src /\ c = [w EXCEPT !.ids = listed] /\ y = [w EXCEPT !.todo = Tail(@)]
  OBVIOUS
<1>0. PICK x, z : x = [c EXCEPT !.todo = Tail(@)] /\ z = [y EXCEPT !.todo = Tail(@)]
  OBVIOUS
<1>2. D!Does(t, "ids") /\ UNCHANGED <<files, rec, listed, chunks, prof, meta, vec>>
      /\ UNCHANGED <<used, requests, crashes, mixed, doomed>>
  BY DEF D!LoadIndex, D!history, D!store
<1>3. /\ w \in SourceWork /\ s \in Source /\ w.todo \in Seq(Access) /\ w.todo # <<>>
      /\ Head(w.todo).do = "ids" /\ Tail(w.todo) \in Seq(Access)
      /\ WellFormed(w.todo)
      /\ WellFormed(Tail(w.todo)) /\ \A d \in Removes : Ahead(Tail(w.todo), d) => s \in doomed
      /\ s \notin mixed => Sound(s, w) /\ Stands(s)
  BY <1>1, <1>2, SourceRequest
<1>4. /\ c \in SourceWork /\ c.todo = w.todo /\ c.src = s /\ c.found = w.found
      /\ c.copy = w.copy /\ c.n = w.n
  BY <1>1, <1>3 DEF SourceWork, SourcesInv, SourcesTypeOK, SourceFilesTypeOK
<1>5. /\ x \in SourceWork /\ x.todo = Tail(w.todo) /\ x.src = s /\ x.found = w.found
      /\ x.copy = w.copy /\ x.n = w.n
  BY SMTT(30), <1>0, <1>3, <1>4, SourceAdvances
<1>6. /\ y \in SourceWork /\ y.todo = Tail(w.todo) /\ y.src = s /\ y.found = w.found
      /\ y.copy = w.copy /\ y.n = w.n
  BY <1>1, <1>3, SourceAdvances
<1>7. Tail(w.todo) # <<>> /\ Head(Tail(w.todo)).do \in {"list", "unlist"}
  BY <1>3, HeadIsOrdered
<1>8. /\ z \in SourceWork /\ z.todo = Tail(Tail(w.todo)) /\ z.src = s /\ z.found = w.found
      /\ z.copy = w.copy /\ z.n = w.n
  <2>1. y.todo # <<>>
    BY <1>6, <1>7
  <2> QED
    BY <1>0, <1>6, <2>1, SourceAdvances, ZenonT(40)
<1>9. thread' = [thread EXCEPT ![t] = x] \/ thread' = [thread EXCEPT ![t] = z]
  <2>1. D!Then(t, [w EXCEPT !.ids = listed]) \/ thread' = [thread EXCEPT ![t].todo = Tail(Tail(@))]
    BY DEF D!LoadIndex
  <2>2. CASE D!Then(t, [w EXCEPT !.ids = listed])
    BY <1>0, <1>1, <2>2 DEF D!Then
  <2>3. CASE thread' = [thread EXCEPT ![t].todo = Tail(Tail(@))]
    <3>1. z = [w EXCEPT !.todo = Tail(Tail(@))]
      BY <1>0, <1>1, <1>3, <1>8 DEF SourceWork
    <3> QED
      BY <2>3, <3>1, Zenon
  <2> QED
    BY <2>1, <2>2, <2>3
<1>10. SourceFilesTypeOK' /\ (s \notin mixed => Stands(s)')
  BY <1>2, <1>3 DEF SourcesInv, SourcesTypeOK, SourceFilesTypeOK, Stands, Backed, Parsed, IndexedAs
<1>11. s \notin mixed => Sound(s, x)' /\ Sound(s, y)' /\ Sound(s, z)'
  <2>1. s \notin mixed => Sound(s, x)' /\ Sound(s, y)'
    BY <1>2, <1>3, <1>5, <1>6, SoundAdvances
  <2>2. s \notin mixed => Sound(s, y)
    BY <1>2, <2>1 DEF Sound, RecordGoesLast, BuildsOnRecord, DocumentStays, FileComesFirst, ChunksFollow,
       IndexIsWhole, Backed, Parsed, IndexedAs
  <2>3. s \notin mixed => Sound(s, z)'
    BY <1>2, <1>3, <1>6, <1>7, <1>8, <2>2, SoundAdvances
  <2> QED
    BY <2>1, <2>3
<1>12. WellFormed(z.todo) /\ \A d \in Removes : Ahead(z.todo, d) => s \in doomed
  <2>1. /\ Tail(Tail(w.todo)) \in Seq(Access) /\ Len(Tail(w.todo)) = Len(Tail(Tail(w.todo))) + 1
        /\ \A i \in 1..Len(Tail(Tail(w.todo))) : Tail(Tail(w.todo))[i] = Tail(w.todo)[i + 1]
    BY <1>3, <1>7, TailOfProgram
  <2> QED
    BY <1>3, <1>8, <2>1, SuffixIsOrdered, ZenonT(40)
<1>13. SourceGoesOn(t, s, x) \/ SourceGoesOn(t, s, z)
  BY <1>1, <1>2, <1>3, <1>5, <1>8, <1>9, <1>10, <1>11, <1>12 DEF SourceGoesOn
<1> QED
  BY <1>3, <1>13, SourcesGoOn

\* A thread that ends its request, and one that crashes, leave the source as it is.
LEMMA SourceEnds ==
    ASSUME SourcesInv, NEW t \in Thread, NEW s \in Source, s = thread[t].src,
           thread' = [thread EXCEPT ![t] = D!Idle], UNCHANGED <<D!store, D!history>>
    PROVE  SourcesInv'
<1>1. D!Idle.todo = <<>> /\ D!Idle.src = None
  BY DEF D!Idle
<1>2. WellFormed(<<>>) /\ \A do : ~Ahead(<<>>, do)
  BY DEF WellFormed, Ahead
<1>3. SourceFilesTypeOK' /\ (s \notin mixed => Stands(s)')
  BY DEF SourcesInv, SourcesTypeOK, SourceFilesTypeOK, SourcesStand, Stands, Backed, Parsed, IndexedAs,
         D!store, D!history
<1>4. SourceGoesOn(t, s, D!Idle)
  BY <1>1, <1>2, <1>3, DesksAssumption DEF SourceGoesOn, D!store, D!history
<1> QED
  BY <1>4, SourcesGoOn

LEMMA SourceAnswers == ASSUME SourcesInv, NEW t \in Thread, D!Answer(t) PROVE SourcesInv'
<1>1. /\ thread[t].src # None /\ thread' = [thread EXCEPT ![t] = D!Idle]
      /\ UNCHANGED <<D!store, D!history>>
  BY DEF D!Answer, D!Ends
<1>2. thread[t].src \in Source
  BY <1>1 DEF SourcesInv, SourcesTypeOK, SourceWork, D!Idle
<1>3. PICK s \in Source : s = thread[t].src
  BY <1>2
<1> QED
  BY <1>1, <1>3, SourceEnds

LEMMA SourceIndexesVectors == ASSUME SourcesInv, NEW t \in Thread, D!IndexVectors(t) PROVE SourcesInv'
<1> DEFINE w == thread[t]
<1>1. PICK s, x : s = w.src /\ x = [w EXCEPT !.todo = Tail(@)]
  OBVIOUS
<1>2. D!Does(t, "vector") /\ (vec' = vec \/ vec' = [vec EXCEPT ![s] = @ \cup chunks[s]])
  BY <1>1 DEF D!IndexVectors
<1>3. /\ thread' = [thread EXCEPT ![t] = x]
      /\ UNCHANGED <<files, rec, listed, chunks, prof, meta, used, requests, crashes, mixed, doomed>>
  BY <1>1 DEF D!IndexVectors, D!Then, D!history
<1>4. /\ w \in SourceWork /\ s \in Source /\ w.todo # <<>> /\ Head(w.todo).do = "vector"
      /\ WellFormed(w.todo)
      /\ WellFormed(Tail(w.todo)) /\ \A d \in Removes : Ahead(Tail(w.todo), d) => s \in doomed
      /\ s \notin mixed => Sound(s, w) /\ Stands(s)
  BY <1>1, <1>2, SourceRequest
<1>5. /\ x \in SourceWork /\ x.todo = Tail(w.todo) /\ x.src = s /\ x.found = w.found
      /\ x.copy = w.copy /\ x.n = w.n
  BY <1>1, <1>4, SourceAdvances
<1>6. SourceFilesTypeOK'
  BY <1>2, <1>3, <1>4 DEF SourcesInv, SourcesTypeOK, SourceFilesTypeOK
<1>7. s \notin mixed => Stands(s)'
  BY <1>3, <1>4 DEF Stands, Backed, Parsed, IndexedAs
<1>8. s \notin mixed => Sound(s, x)'
  BY <1>3, <1>4, <1>5, SoundAdvances
<1>9. SourceGoesOn(t, s, x)
  BY <1>1, <1>3, <1>4, <1>5, <1>6, <1>7, <1>8 DEF SourceGoesOn
<1> QED
  BY <1>4, <1>9, SourcesGoOn

LEMMA SourceReloads == ASSUME SourcesInv, NEW t \in Thread, D!Reload(t) PROVE SourcesInv'
<1> DEFINE w == thread[t]
<1>1. PICK s, r, c : /\ s = w.src /\ r = (IF rec[s] = None THEN w.found ELSE rec[s])
                     /\ c = [w EXCEPT !.found = r, !.copy = r]
  OBVIOUS
<1>0. PICK x : x = [c EXCEPT !.todo = Tail(@)]
  OBVIOUS
<1>2. D!Does(t, "reload") /\ thread' = [thread EXCEPT ![t] = x]
  BY <1>0, <1>1 DEF D!Reload, D!Then
<1>3. /\ UNCHANGED <<files, rec, listed, chunks, prof, meta, vec>>
      /\ UNCHANGED <<used, requests, crashes, mixed, doomed>>
  BY DEF D!Reload, D!store, D!history
<1>4. /\ w \in SourceWork /\ s \in Source /\ w.todo \in Seq(Access) /\ w.todo # <<>>
      /\ Head(w.todo).do = "reload" /\ WellFormed(w.todo)
      /\ WellFormed(Tail(w.todo)) /\ \A d \in Removes : Ahead(Tail(w.todo), d) => s \in doomed
      /\ s \notin mixed => Sound(s, w) /\ Stands(s)
  BY <1>1, <1>2, SourceRequest
<1>5. r \in SourceRecord
  BY <1>1, <1>4 DEF SourceWork, SourcesInv, SourcesTypeOK, SourceFilesTypeOK
<1>6. c \in SourceWork /\ c.todo = w.todo /\ c.src = s /\ c.found = r /\ c.copy = r /\ c.n = w.n
  BY <1>1, <1>4, <1>5 DEF SourceWork
<1>7. x \in SourceWork /\ x.todo = Tail(w.todo) /\ x.src = s /\ x.found = r /\ x.copy = r /\ x.n = w.n
  BY <1>0, <1>4, <1>6, SourceAdvances
<1>8. SourceFilesTypeOK' /\ (s \notin mixed => Stands(s)')
  BY <1>3, <1>4 DEF SourcesInv, SourcesTypeOK, SourceFilesTypeOK, Stands, Backed, Parsed, IndexedAs
<1>9. s \notin mixed => Sound(s, x)'
  <2>1. SUFFICES ASSUME s \notin mixed PROVE Sound(s, x)'
    OBVIOUS
  <2>2. Sound(s, w) /\ Stands(s) /\ rec[s] # None /\ r = rec[s]
    BY <1>1, <1>4, <2>1, AheadOfTail DEF Sound, BuildsOnRecord, Builds
  <2>3. s \notin doomed => r.doc = w.copy.doc /\ Backed(s, r)
    BY <2>2 DEF Sound, DocumentStays, Stands
  <2>4. s \notin doomed => Backed(s, x.copy)'
    BY <1>3, <1>7, <2>3 DEF Backed, Parsed, IndexedAs
  <2> QED
    BY <1>3, <1>4, <1>7, <2>2, <2>3, <2>4, SoundGoesOn
<1>10. SourceGoesOn(t, s, x)
  BY <1>1, <1>2, <1>3, <1>4, <1>7, <1>8, <1>9 DEF SourceGoesOn
<1> QED
  BY <1>4, <1>10, SourcesGoOn

LEMMA SourceSetsStatus == ASSUME SourcesInv, NEW t \in Thread, D!SetStatus(t) PROVE SourcesInv'
<1> DEFINE w == thread[t]
<1>1. PICK s : s = w.src
  OBVIOUS
<1>2. D!Does(t, "set") /\ UNCHANGED <<files, rec, listed, chunks, prof, meta, vec>>
      /\ UNCHANGED <<used, requests, crashes, mixed, doomed>>
  BY DEF D!SetStatus, D!store, D!history
<1>3. /\ w \in SourceWork /\ s \in Source /\ w.todo \in Seq(Access) /\ w.todo # <<>>
      /\ Head(w.todo).do = "set" /\ WellFormed(w.todo)
      /\ WellFormed(Tail(w.todo)) /\ \A d \in Removes : Ahead(Tail(w.todo), d) => s \in doomed
      /\ s \notin mixed => Sound(s, w) /\ Stands(s)
  BY <1>1, <1>2, SourceRequest
<1>4. SourceFilesTypeOK' /\ (s \notin mixed => Stands(s)')
  BY <1>2, <1>3 DEF SourcesInv, SourcesTypeOK, SourceFilesTypeOK, Stands, Backed, Parsed, IndexedAs
<1>5. s \notin mixed => rec[s] # None
  BY <1>3, AheadOfTail DEF Sound, BuildsOnRecord, Builds
\* Without a record the rest of the update is left out; then two requests overlapped.
<1>6. CASE rec[s] = None
  <2> DEFINE q == SubSeq(w.todo, 5, Len(w.todo))
  <2>1. PICK x : x = [w EXCEPT !.todo = q]
    OBVIOUS
  <2>2. Len(D!UpdateStatus("-")) = 4
    BY ConcatProperties DEF D!UpdateStatus, D!Save, D!I
  <2>3. thread' = [thread EXCEPT ![t] = x]
    <3>0. \A m : m = 4 => m + 1 = 5
      OBVIOUS
    <3>1. Len(D!UpdateStatus("-")) + 1 = 5
      BY <2>2, <3>0, Zenon
    <3>2. thread' = [thread EXCEPT ![t].todo = SubSeq(@, Len(D!UpdateStatus("-")) + 1, Len(@))]
      BY <1>1, <1>6, Zenon DEF D!SetStatus
    <3> QED
      BY <2>1, <3>1, <3>2, Zenon
  <2>4. Len(w.todo) >= 4
    BY <1>3, HeadIsOrdered
  <2>5. q \in Seq(Access) /\ Len(w.todo) = Len(q) + 4 /\ \A i \in 1..Len(q) : q[i] = w.todo[i + 4]
    BY <1>3, <2>4
  <2> HIDE DEF q
  <2>6. WellFormed(q) /\ \A d \in Removes : Ahead(q, d) => s \in doomed
    <3>1. WellFormed(q) /\ \A d : Ahead(q, d) => Ahead(w.todo, d)
      BY <1>3, <2>5, SuffixIsOrdered
    <3> QED
      BY <1>1, <3>1 DEF SourcesInv, ProgramsAreOrdered
  <2>7. x \in SourceWork /\ x.todo = q /\ x.src = s
    BY <1>1, <1>3, <2>1, <2>5 DEF SourceWork
  <2>8. SourceGoesOn(t, s, x)
    BY <1>1, <1>2, <1>3, <1>4, <1>5, <1>6, <2>3, <2>6, <2>7 DEF SourceGoesOn
  <2> QED
    BY <1>3, <2>8, SourcesGoOn
<1>7. CASE rec[s] # None
  <2> DEFINE to == Head(w.todo).to
  <2>1. PICK r : r = [rec[s] EXCEPT !.status = to]
    OBVIOUS
  <2>2. PICK c : c = [w EXCEPT !.copy = r]
    OBVIOUS
  <2>3. PICK x : x = [c EXCEPT !.todo = Tail(@)]
    OBVIOUS
  <2>4. thread' = [thread EXCEPT ![t] = x]
    BY <1>1, <1>7, <2>1, <2>2, <2>3 DEF D!SetStatus, D!Then
  <2>5. r \in SourceRecord /\ r.status = to /\ r.doc = rec[s].doc
    <3>1. rec[s] \in SourceRecord /\ to \in Status
      BY <1>3, <1>7, AheadOfTail DEF SourcesInv, SourcesTypeOK, SourceFilesTypeOK, Access
    <3> QED
      BY <2>1, <3>1 DEF SourceRecord
  <2>6. /\ c \in SourceWork /\ c.todo = w.todo /\ c.src = s /\ c.found = w.found /\ c.copy = r
        /\ c.n = w.n
    BY <1>1, <1>3, <2>2, <2>5 DEF SourceWork
  <2>7. /\ x \in SourceWork /\ x.todo = Tail(w.todo) /\ x.src = s /\ x.found = w.found
        /\ x.copy = r /\ x.n = w.n
    BY <1>3, <2>3, <2>6, SourceAdvances
  <2>8. s \notin mixed => Sound(s, x)'
    <3>1. SUFFICES ASSUME s \notin mixed PROVE Sound(s, x)'
      OBVIOUS
    <3>2. ASSUME s \notin doomed PROVE r.doc = w.copy.doc /\ w.found.doc = r.doc /\ Backed(s, r)
      <4>1. r.doc = w.copy.doc /\ w.found.doc = r.doc
        BY <1>3, <1>7, <2>5, <3>1, <3>2 DEF Sound, DocumentStays
      <4>2. /\ \A i \in DOMAIN w.todo : i # 1 => i > 1
            /\ w.todo[1].do = "set" /\ w.todo[1].to = to /\ 1 \in DOMAIN w.todo
        BY <1>3, TailOfProgram
      <4>3. s \in files /\ chunks[s] \subseteq 1..r.doc.n /\ (r.doc.kind = "csv" => chunks[s] = {})
        BY <1>3, <1>7, <2>5, <3>1, <3>2 DEF Stands
      <4>4. ASSUME to = "parsed" PROVE Parsed(s, r.doc)
        <5>1. AheadSet(w.todo, "parsed")
          BY <4>2, <4>4 DEF AheadSet
        <5>2. CASE r.doc.kind = "csv"
          BY <4>3, <5>2 DEF Parsed
        <5>3. CASE r.doc.kind # "csv"
          <6>1. /\ w.n <= r.doc.n /\ 1..w.n \subseteq chunks[s]
                /\ \A i \in DOMAIN w.todo : w.todo[i].do = "chunk" <=> i <= r.doc.n - w.n
            BY <1>3, <3>1, <3>2, <4>1, <5>1, <5>3 DEF Sound, ChunksFollow
          <6>2. ~(1 <= r.doc.n - w.n)
            BY <4>2, <6>1
          <6>3. w.n \in Nat /\ r.doc.n \in Nat
            BY <1>3, <2>5, DesksAssumption DEF SourceWork, SourceRecord
          <6>4. w.n = r.doc.n
            BY <6>1, <6>2, <6>3
          <6> QED
            BY <4>3, <6>1, <6>4 DEF Parsed
        <5> QED
          BY <5>2, <5>3
      <4>5. ASSUME to = "indexed" PROVE Parsed(s, r.doc) /\ IndexedAs(s, r.doc)
        <5>1. AheadSet(w.todo, "indexed")
          BY <4>2, <4>5 DEF AheadSet
        <5>2. ~Ahead(w.todo, "chunks") /\ ~Ahead(w.todo, "meta")
          BY <1>3, <4>5, HeadIsOrdered
        <5> QED
          BY <1>3, <3>1, <3>2, <4>1, <5>1, <5>2 DEF Sound, IndexIsWhole, IndexedAs
      <4> QED
        BY <2>5, <4>1, <4>4, <4>5 DEF Backed
    <3>3. s \notin doomed => Backed(s, x.copy)'
      BY <1>2, <2>7, <3>2 DEF Backed, Parsed, IndexedAs
    <3>4. rec[s] # None /\ s \notin doomed => rec[s].doc = w.copy.doc
      BY <2>5, <3>2
    <3> QED
      BY <1>2, <1>3, <2>7, <3>1, <3>2, <3>3, <3>4, SoundGoesOn
  <2>9. SourceGoesOn(t, s, x)
    BY <1>1, <1>2, <1>3, <1>4, <2>4, <2>7, <2>8 DEF SourceGoesOn
  <2> QED
    BY <1>3, <2>9, SourcesGoOn
<1> QED
  BY <1>6, <1>7

LEMMA SourceWritesRecord == ASSUME SourcesInv, NEW t \in Thread, D!WriteRecord(t) PROVE SourcesInv'
<1> DEFINE w == thread[t]
<1>1. PICK s, x : s = w.src /\ x = [w EXCEPT !.todo = Tail(@)]
  OBVIOUS
<1>2. D!Does(t, "write") /\ rec' = [rec EXCEPT ![s] = w.copy]
  BY <1>1 DEF D!WriteRecord
<1>3. /\ thread' = [thread EXCEPT ![t] = x]
      /\ UNCHANGED <<files, listed, chunks, prof, meta, vec, used, requests, crashes, mixed, doomed>>
  BY <1>1 DEF D!WriteRecord, D!Then, D!history
<1>4. /\ w \in SourceWork /\ s \in Source /\ w.todo \in Seq(Access) /\ w.todo # <<>>
      /\ Head(w.todo).do = "write" /\ WellFormed(w.todo)
      /\ WellFormed(Tail(w.todo)) /\ \A d \in Removes : Ahead(Tail(w.todo), d) => s \in doomed
      /\ s \notin mixed => Sound(s, w) /\ Stands(s)
  BY <1>1, <1>2, SourceRequest
<1>5. w.copy \in SourceRecord /\ w.copy # None
  BY <1>4, DesksAssumption DEF SourceWork, SourceRecord, Status
<1>6. /\ x \in SourceWork /\ x.todo = Tail(w.todo) /\ x.src = s /\ x.found = w.found
      /\ x.copy = w.copy /\ x.n = w.n
  BY <1>1, <1>4, SourceAdvances
<1>7. SourceFilesTypeOK' /\ rec'[s] = w.copy /\ \A y \in Source \ {s} : rec'[y] = rec[y]
  BY <1>2, <1>3, <1>4, <1>5 DEF SourcesInv, SourcesTypeOK, SourceFilesTypeOK
<1>8. s \notin mixed => Stands(s)' /\ Sound(s, x)'
  <2>1. SUFFICES ASSUME s \notin mixed PROVE Stands(s)' /\ Sound(s, x)'
    OBVIOUS
  <2>2. ~Ahead(w.todo, "file")
    BY <1>4, HeadIsOrdered
  <2>3. ASSUME s \notin doomed PROVE /\ s \in files /\ Backed(s, w.copy) /\ w.found.doc = w.copy.doc
                                     /\ chunks[s] \subseteq 1..w.copy.doc.n
                                     /\ w.copy.doc.kind = "csv" => chunks[s] = {}
    BY <1>4, <2>1, <2>2, <2>3 DEF Sound, DocumentStays, FileComesFirst, Stands
  <2>4. s \notin doomed => Backed(s, x.copy)'
    BY <1>3, <1>6, <2>3 DEF Backed, Parsed, IndexedAs
  <2>5. Stands(s)'
    BY <1>3, <1>5, <1>6, <1>7, <2>3, <2>4 DEF Stands
  <2>6. Sound(s, x)'
    BY <1>3, <1>4, <1>5, <1>6, <1>7, <2>1, <2>3, <2>4, SoundGoesOn
  <2> QED
    BY <2>5, <2>6
<1>9. SourceGoesOn(t, s, x)
  BY <1>1, <1>3, <1>4, <1>6, <1>7, <1>8 DEF SourceGoesOn
<1> QED
  BY <1>4, <1>9, SourcesGoOn

\* Who deletes a source knows no more of it than what is gone.
LEMMA SoundWhileDeleted ==
    ASSUME NEW s \in Source, NEW w \in SourceWork, NEW x \in SourceWork, w.todo # <<>>,
           x.todo = Tail(w.todo), Sound(s, w), WellFormed(w.todo), s \in doomed', 
           rec'[s] = rec[s] \/ Head(w.todo).do = "rmrecord",
           chunks'[s] = chunks[s] \/ chunks'[s] = {},
           meta'[s] = meta[s] \/ meta'[s] = 0, s \in prof' => s \in prof,
           Head(w.todo).do = "rmchunks" => chunks'[s] = {},
           Head(w.todo).do = "rmprofile" => s \notin prof',
           Head(w.todo).do = "rmmeta" => meta'[s] = 0
    PROVE  Sound(s, x)'
<1>1. w.todo \in Seq(Access)
  BY DEF SourceWork
<1>2. RecordGoesLast(s, x.todo)'
  BY <1>1, AheadOfTail DEF Sound, RecordGoesLast
<1>3. BuildsOnRecord(s, x.todo)'
  <2>1. CASE Head(w.todo).do = "rmrecord"
    <3>1. \A do \in Builds : ~Ahead(w.todo, do)
      BY <1>1, <2>1, HeadIsOrdered
    <3> QED
      BY <1>1, <3>1, AheadOfTail DEF BuildsOnRecord
  <2>2. CASE rec'[s] = rec[s]
    BY <1>1, <2>2, AheadOfTail DEF Sound, BuildsOnRecord
  <2> QED
    BY <2>1, <2>2
<1> QED
  BY <1>2, <1>3 DEF Sound

LEMMA SourceRemovesRecord == ASSUME SourcesInv, NEW t \in Thread, D!RemoveRecord(t) PROVE SourcesInv'
<1> DEFINE w == thread[t]
<1>1. PICK s, x : s = w.src /\ x = [w EXCEPT !.todo = Tail(@)]
  OBVIOUS
<1>2. D!Does(t, "rmrecord") /\ rec' = [rec EXCEPT ![s] = None]
  BY <1>1 DEF D!RemoveRecord
<1>3. /\ thread' = [thread EXCEPT ![t] = x]
      /\ UNCHANGED <<files, listed, chunks, prof, meta, vec, used, requests, crashes, mixed, doomed>>
  BY <1>1 DEF D!RemoveRecord, D!Then, D!history
<1>4. /\ w \in SourceWork /\ s \in Source /\ w.todo \in Seq(Access) /\ w.todo # <<>>
      /\ Head(w.todo).do = "rmrecord" /\ WellFormed(w.todo) /\ s \in doomed
      /\ WellFormed(Tail(w.todo)) /\ \A d \in Removes : Ahead(Tail(w.todo), d) => s \in doomed
      /\ s \notin mixed => Sound(s, w) /\ Stands(s)
  BY <1>1, <1>2, SourceRequest DEF Removes
<1>5. /\ x \in SourceWork /\ x.todo = Tail(w.todo) /\ x.src = s /\ x.found = w.found
      /\ x.copy = w.copy /\ x.n = w.n
  BY <1>1, <1>4, SourceAdvances
<1>6. SourceFilesTypeOK' /\ rec'[s] = None /\ \A y \in Source \ {s} : rec'[y] = rec[y]
  BY <1>2, <1>3, <1>4 DEF SourcesInv, SourcesTypeOK, SourceFilesTypeOK
<1>7. s \notin mixed => Stands(s)'
  <2>1. SUFFICES ASSUME s \notin mixed PROVE Stands(s)'
    OBVIOUS
  <2>2. /\ Ahead(w.todo, "rmrecord") /\ ~Ahead(w.todo, "rmchunks")
        /\ ~Ahead(w.todo, "rmprofile") /\ ~Ahead(w.todo, "rmmeta")
    BY <1>4, HeadIsOrdered, AheadOfTail DEF Removes
  <2> QED
    BY <1>3, <1>4, <1>6, <2>1, <2>2 DEF Sound, RecordGoesLast, Stands
<1>8. s \notin mixed => Sound(s, x)'
  BY <1>3, <1>4, <1>5, SoundWhileDeleted
<1>9. SourceGoesOn(t, s, x)
  BY <1>1, <1>3, <1>4, <1>5, <1>6, <1>7, <1>8 DEF SourceGoesOn
<1> QED
  BY <1>4, <1>9, SourcesGoOn

LEMMA SourceLoadsChunks == ASSUME SourcesInv, NEW t \in Thread, D!LoadChunks(t) PROVE SourcesInv'
<1> DEFINE w == thread[t]
<1>1. PICK s, k : s = w.src /\ k = Cardinality(chunks[s])
  OBVIOUS
<1>2. D!Does(t, "chunks") /\ UNCHANGED <<D!store, D!history>>
  BY DEF D!LoadChunks
<1>3. /\ w \in SourceWork /\ s \in Source /\ w.todo \in Seq(Access) /\ w.todo # <<>>
      /\ Head(w.todo).do = "chunks" /\ WellFormed(w.todo)
      /\ WellFormed(Tail(w.todo)) /\ \A d \in Removes : Ahead(Tail(w.todo), d) => s \in doomed
      /\ s \notin mixed => Sound(s, w) /\ Stands(s)
  BY <1>1, <1>2, SourceRequest
<1>4. CASE chunks[s] = {}
  BY <1>1, <1>2, <1>3, <1>4, SourceEnds DEF D!LoadChunks, D!Ends
<1>5. CASE chunks[s] # {}
  <2>1. PICK c : c = [w EXCEPT !.n = k]
    OBVIOUS
  <2>2. PICK x : x = [c EXCEPT !.todo = Tail(@)]
    OBVIOUS
  <2>3. thread' = [thread EXCEPT ![t] = x]
    <3>1. D!Then(t, [w EXCEPT !.n = Cardinality(chunks[w.src])])
      <4>1. chunks[thread[t].src] # {}
        BY <1>1, <1>5
      <4> QED
        BY <4>1, SourceCardinality DEF D!LoadChunks
    <3> QED
      BY <1>1, <2>1, <2>2, <3>1, Zenon DEF D!Then
  <2>4. k \in Nat
    BY <1>1, <1>3, FS_CardinalityType DEF SourcesInv, SourcesTypeOK, SourceFilesTypeOK
  <2>5. /\ c \in SourceWork /\ c.todo = w.todo /\ c.src = s /\ c.found = w.found
        /\ c.copy = w.copy /\ c.n = k
    BY <1>1, <1>3, <2>1, <2>4 DEF SourceWork
  <2>6. /\ x \in SourceWork /\ x.todo = Tail(w.todo) /\ x.src = s /\ x.found = w.found
        /\ x.copy = w.copy /\ x.n = k
    BY <1>3, <2>2, <2>5, SourceAdvances
  <2>7. SourceFilesTypeOK' /\ (s \notin mixed => Stands(s)')
    BY <1>2, <1>3 DEF D!store, D!history, SourcesInv, SourcesTypeOK, SourceFilesTypeOK, Stands, Backed,
       Parsed, IndexedAs
  <2>8. s \notin mixed => Sound(s, x)'
    <3>1. SUFFICES ASSUME s \notin mixed PROVE Sound(s, x)'
      OBVIOUS
    <3>2. /\ Ahead(w.todo, "chunks") /\ ~Ahead(w.todo, "chunk") /\ ~Ahead(w.todo, "parse")
          /\ ~AheadSet(w.todo, "parsed")
      BY <1>3, HeadIsOrdered, AheadOfTail
    <3>3. RecordGoesLast(s, x.todo)' /\ BuildsOnRecord(s, x.todo)'
      BY <1>2, <1>3, <2>6, <3>1, AheadOfTail
         DEF Sound, RecordGoesLast, BuildsOnRecord, D!store, D!history
    <3>4. ASSUME s \notin doomed
          PROVE  /\ DocumentStays(s, x)' /\ FileComesFirst(s, x.todo)'
                 /\ ChunksFollow(s, x)' /\ IndexIsWhole(s, x)'
      <4>1. DocumentStays(s, x)'
        BY <1>2, <1>3, <2>6, <3>1, <3>4
           DEF Sound, DocumentStays, Backed, Parsed, IndexedAs, D!store, D!history
      <4>2. FileComesFirst(s, x.todo)'
        BY <1>2, <1>3, <2>6, <3>1, <3>4, AheadOfTail DEF Sound, FileComesFirst, D!store, D!history
      <4>3. Parsed(s, w.copy.doc)
        BY <1>3, <3>1, <3>2, <3>4 DEF Sound, IndexIsWhole
      <4>4. rec[s] # None /\ rec[s].doc = w.copy.doc
        BY <1>3, <3>1, <3>2, <3>4 DEF Sound, BuildsOnRecord, Builds, DocumentStays
      <4>5. w.copy.doc.kind # "csv" /\ chunks[s] = 1..w.copy.doc.n
        BY <1>3, <1>5, <3>1, <3>4, <4>3, <4>4 DEF Stands, Parsed
      <4>6. w.copy.doc.n \in Nat
        BY <1>3, DesksAssumption DEF SourceWork, SourceRecord
      <4>7. k = w.copy.doc.n
        <5>1. Cardinality(1..w.copy.doc.n) = w.copy.doc.n
          <6>1. \A n \in Nat : Cardinality(1..n) = n
            BY FS_Interval
          <6> QED
            BY <4>6, <6>1
        <5> QED
          BY <1>1, <4>5, <5>1, Zenon
      <4>8. ChunksFollow(s, x)'
        BY <1>2, <1>3, <2>6, <3>2, <4>5, <4>7, AheadOfTail DEF ChunksFollow, D!store
      <4>9. IndexIsWhole(s, x)'
        BY <1>2, <1>3, <2>6, <3>1, <3>4, <4>3, <4>5, <4>7, AheadOfTail
           DEF Sound, IndexIsWhole, Parsed, D!store
      <4> QED
        BY <4>1, <4>2, <4>8, <4>9
    <3> QED
      BY <1>2, <3>3, <3>4 DEF Sound, D!history
  <2>9. SourceGoesOn(t, s, x)
    BY <1>1, <1>2, <1>3, <2>3, <2>6, <2>7, <2>8 DEF SourceGoesOn, D!store, D!history
  <2> QED
    BY <1>3, <2>9, SourcesGoOn
<1> QED
  BY <1>4, <1>5

LEMMA SourceSavesChunk == ASSUME SourcesInv, NEW t \in Thread, D!SaveChunk(t) PROVE SourcesInv'
<1> DEFINE w == thread[t]
<1>1. PICK s, c : s = w.src /\ c = [w EXCEPT !.n = @ + 1]
  OBVIOUS
<1>0. PICK x : x = [c EXCEPT !.todo = Tail(@)]
  OBVIOUS
<1>2. D!Does(t, "chunk") /\ chunks' = [chunks EXCEPT ![s] = @ \cup {w.n + 1}]
  BY <1>1 DEF D!SaveChunk
<1>3. /\ thread' = [thread EXCEPT ![t] = x]
      /\ UNCHANGED <<files, rec, listed, prof, meta, vec, used, requests, crashes, mixed, doomed>>
  BY <1>0, <1>1 DEF D!SaveChunk, D!Then, D!history
<1>4. /\ w \in SourceWork /\ s \in Source /\ w.todo \in Seq(Access) /\ w.todo # <<>>
      /\ Head(w.todo).do = "chunk" /\ WellFormed(w.todo)
      /\ WellFormed(Tail(w.todo)) /\ \A d \in Removes : Ahead(Tail(w.todo), d) => s \in doomed
      /\ s \notin mixed => Sound(s, w) /\ Stands(s)
  BY <1>1, <1>2, SourceRequest
<1>5. w.n \in Nat /\ w.copy.doc.n \in Nat
  BY <1>4, DesksAssumption DEF SourceWork, SourceRecord
<1>6. /\ c \in SourceWork /\ c.todo = w.todo /\ c.src = s /\ c.found = w.found
      /\ c.copy = w.copy /\ c.n = w.n + 1
  BY <1>1, <1>4, <1>5 DEF SourceWork
<1>7. /\ x \in SourceWork /\ x.todo = Tail(w.todo) /\ x.src = s /\ x.found = w.found
      /\ x.copy = w.copy /\ x.n = w.n + 1
  BY <1>0, <1>4, <1>6, SourceAdvances
<1>8. chunks'[s] = chunks[s] \cup {w.n + 1} /\ \A y \in Source \ {s} : chunks'[y] = chunks[y]
  BY <1>2, <1>4 DEF SourcesInv, SourcesTypeOK, SourceFilesTypeOK
<1>9. SourceFilesTypeOK'
  <2>1. IsFiniteSet(chunks'[s])
    <3>1. IsFiniteSet(chunks[s])
      BY <1>4 DEF SourcesInv, SourcesTypeOK, SourceFilesTypeOK
    <3>2. IsFiniteSet(chunks[s] \cup {w.n + 1})
      BY <3>1, FS_AddElement
    <3> QED
      BY <1>8, <3>2, Zenon
  <2> QED
    BY <1>2, <1>3, <1>4, <1>5, <1>8, <2>1 DEF SourcesInv, SourcesTypeOK, SourceFilesTypeOK
<1>10. s \notin mixed => Stands(s)' /\ Sound(s, x)'
  <2>1. SUFFICES ASSUME s \notin mixed PROVE Stands(s)' /\ Sound(s, x)'
    OBVIOUS
  <2>2. Ahead(w.todo, "chunk") /\ rec[s] # None
    BY <1>4, <2>1, AheadOfTail DEF Sound, BuildsOnRecord, Builds
  <2>3. ~Ahead(w.todo, "rmrecord") /\ ~Ahead(w.todo, "chunks") /\ ~Ahead(w.todo, "meta")
    BY <1>4, HeadIsOrdered DEF Builds
  <2> DEFINE doc == w.copy.doc
             k == doc.n - w.n
  <2>4. ASSUME s \notin doomed
        PROVE  /\ doc.kind # "csv" /\ w.n + 1 <= doc.n /\ chunks[s] \subseteq 1..doc.n
               /\ \A i \in DOMAIN w.todo : w.todo[i].do = "chunk" <=> i <= k
               /\ rec[s].doc = doc /\ 1..w.n \subseteq chunks[s] /\ s \in files
    <3>1. /\ doc.kind # "csv" /\ 1..w.n \subseteq chunks[s]
          /\ \A i \in DOMAIN w.todo : w.todo[i].do = "chunk" <=> i <= k
      BY <1>4, <2>1, <2>2, <2>4 DEF Sound, ChunksFollow
    <3>2. w.todo[1].do = "chunk" /\ 1 \in DOMAIN w.todo
      BY <1>4, TailOfProgram
    <3>3. w.n + 1 <= doc.n
      BY <1>5, <3>1, <3>2
    <3>4. rec[s].doc = doc /\ chunks[s] \subseteq 1..doc.n /\ s \in files
      BY <1>4, <2>1, <2>2, <2>4 DEF Sound, DocumentStays, Stands
    <3> QED
      BY <3>1, <3>3, <3>4
  <2>5. s \notin doomed => /\ chunks'[s] \subseteq 1..doc.n /\ 1..(w.n + 1) \subseteq chunks'[s]
                           /\ chunks[s] = 1..doc.n => chunks'[s] = 1..doc.n
    BY <1>5, <1>8, <2>4
  <2>6. Stands(s)'
    BY <1>3, <1>4, <2>1, <2>2, <2>4, <2>5 DEF Stands, Backed, Parsed, IndexedAs
  <2>7. RecordGoesLast(s, x.todo)' /\ BuildsOnRecord(s, x.todo)'
    BY <1>3, <1>4, <1>7, <2>2, <2>3, AheadOfTail DEF RecordGoesLast, BuildsOnRecord
  <2>8. ASSUME s \notin doomed
        PROVE  /\ DocumentStays(s, x)' /\ FileComesFirst(s, x.todo)'
               /\ ChunksFollow(s, x)' /\ IndexIsWhole(s, x)'
    <3>1. DocumentStays(s, x)'
      BY <1>3, <1>4, <1>7, <2>1, <2>4, <2>5, <2>8 DEF Sound, DocumentStays, Backed, Parsed, IndexedAs
    <3>2. FileComesFirst(s, x.todo)'
      BY <1>3, <2>4, <2>8 DEF FileComesFirst
    <3>3. ~Ahead(w.todo, "parse")
      BY <1>4, HeadIsOrdered
    <3>4. ChunksFollow(s, x)'
      <4>1. \A i \in DOMAIN Tail(w.todo) : Tail(w.todo)[i].do = "chunk" <=> i <= k - 1
        <5>1. k \in Int
          BY <1>5
        <5> QED
          BY <1>4, <2>4, <2>8, <5>1, ChunksOfTail
      <4>2. k - 1 = doc.n - (w.n + 1)
        BY <1>5
      <4> QED
        BY <1>4, <1>5, <1>7, <4>2, <2>4, <2>5, <2>8, <3>3, <4>1, AheadOfTail DEF ChunksFollow
    <3>5. IndexIsWhole(s, x)'
      BY <1>4, <1>5, <1>7, <2>1, <2>3, <2>4, <2>8, AheadOfTail DEF Sound, IndexIsWhole
    <3> QED
      BY <3>1, <3>2, <3>4, <3>5
  <2> QED
    BY <1>3, <2>6, <2>7, <2>8 DEF Sound
<1>11. SourceGoesOn(t, s, x)
  BY <1>1, <1>3, <1>4, <1>7, <1>8, <1>9, <1>10 DEF SourceGoesOn
<1> QED
  BY <1>4, <1>11, SourcesGoOn

LEMMA SourceRemovesChunks == ASSUME SourcesInv, NEW t \in Thread, D!RemoveChunks(t) PROVE SourcesInv'
<1> DEFINE w == thread[t]
<1>1. PICK s : s = w.src
  OBVIOUS
<1>2. D!Does(t, "rmchunks")
  BY DEF D!RemoveChunks
<1>3. UNCHANGED <<files, rec, listed, prof, meta, vec, used, requests, crashes, mixed, doomed>>
  BY DEF D!RemoveChunks, D!history
<1>4. /\ w \in SourceWork /\ s \in Source /\ w.todo \in Seq(Access) /\ w.todo # <<>>
      /\ Head(w.todo).do = "rmchunks" /\ WellFormed(w.todo) /\ s \in doomed
      /\ WellFormed(Tail(w.todo)) /\ \A d \in Removes : Ahead(Tail(w.todo), d) => s \in doomed
      /\ s \notin mixed => Sound(s, w) /\ Stands(s)
  BY <1>1, <1>2, SourceRequest DEF Removes
<1>5. CASE chunks[s] = {}
  <2>1. PICK x : x = [w EXCEPT !.todo = Tail(@)]
    OBVIOUS
  <2>2. thread' = [thread EXCEPT ![t] = x] /\ chunks' = chunks
    BY <1>1, <1>5, <2>1 DEF D!RemoveChunks, D!Then
  <2>3. x \in SourceWork /\ x.todo = Tail(w.todo) /\ x.src = s
    BY <1>1, <1>4, <2>1, SourceAdvances
  <2>4. SourceFilesTypeOK' /\ (s \notin mixed => Stands(s)')
    BY <1>3, <1>4, <2>2 DEF SourcesInv, SourcesTypeOK, SourceFilesTypeOK, Stands
  <2>5. s \notin mixed => Sound(s, x)'
    BY <1>3, <1>4, <1>5, <2>2, <2>3, SoundWhileDeleted
  <2>6. SourceGoesOn(t, s, x)
    BY <1>1, <1>3, <1>4, <2>2, <2>3, <2>4, <2>5 DEF SourceGoesOn
  <2> QED
    BY <1>4, <2>6, SourcesGoOn
<1>6. CASE chunks[s] # {}
  <2>1. PICK n \in chunks[s] : chunks' = [chunks EXCEPT ![s] = @ \ {n}] /\ thread' = thread
    BY <1>1, <1>6 DEF D!RemoveChunks
  <2>2. /\ IsFiniteSet(chunks[s]) /\ chunks'[s] = chunks[s] \ {n}
        /\ \A y \in Source \ {s} : chunks'[y] = chunks[y]
    BY <1>4, <2>1 DEF SourcesInv, SourcesTypeOK, SourceFilesTypeOK
  <2>3. IsFiniteSet(chunks'[s])
    BY <2>2, FS_RemoveElement
  <2>4. SourceFilesTypeOK' /\ (s \notin mixed => Stands(s)')
    BY <1>3, <1>4, <2>1, <2>2, <2>3 DEF SourcesInv, SourcesTypeOK, SourceFilesTypeOK, Stands
  <2>5. PICK x : x = w
    OBVIOUS
  <2>6. s \notin mixed => Sound(s, x)'
    <3>1. Ahead(w.todo, "rmchunks")
      BY <1>4, AheadOfTail
    <3> QED
      BY <1>3, <1>4, <2>5, <3>1 DEF Sound, RecordGoesLast, BuildsOnRecord
  <2>7. thread' = [thread EXCEPT ![t] = x] /\ WellFormed(x.todo)
        /\ \A d \in Removes : Ahead(x.todo, d) => s \in doomed
    BY <1>4, <2>1, <2>5 DEF SourcesInv, SourcesTypeOK
  <2>8. SourceGoesOn(t, s, x)
    BY <1>1, <1>3, <1>4, <2>2, <2>4, <2>5, <2>6, <2>7 DEF SourceGoesOn
  <2> QED
    BY <1>4, <2>8, SourcesGoOn
<1> QED
  BY <1>5, <1>6

LEMMA SourceProfiles == ASSUME SourcesInv, NEW t \in Thread, D!Profile(t) PROVE SourcesInv'
<1> DEFINE w == thread[t]
<1>1. PICK s, x : s = w.src /\ x = [w EXCEPT !.todo = Tail(@)]
  OBVIOUS
<1>2. PICK do : D!Does(t, do) /\ \/ do \in {"profile", "reprofile"} /\ prof' \in {prof, prof \cup {s}}
                                 \/ do = "rmprofile" /\ prof' = prof \ {s}
  BY <1>1 DEF D!Profile
<1>3. /\ thread' = [thread EXCEPT ![t] = x]
      /\ UNCHANGED <<files, rec, listed, chunks, meta, vec, used, requests, crashes, mixed, doomed>>
  BY <1>1 DEF D!Profile, D!Then, D!history
<1>4. /\ w \in SourceWork /\ s \in Source /\ w.todo \in Seq(Access) /\ w.todo # <<>>
      /\ Head(w.todo).do = do /\ WellFormed(w.todo) /\ WellFormed(Tail(w.todo))
      /\ \A d \in Removes : Ahead(Tail(w.todo), d) => s \in doomed
      /\ do = "rmprofile" => s \in doomed
      /\ s \notin mixed => Sound(s, w) /\ Stands(s)
  BY <1>1, <1>2, SourceRequest DEF Removes
<1>5. /\ x \in SourceWork /\ x.todo = Tail(w.todo) /\ x.src = s /\ x.found = w.found
      /\ x.copy = w.copy /\ x.ids = w.ids /\ x.n = w.n
  BY <1>1, <1>4, SourceAdvances
<1>6. SourceFilesTypeOK'
  BY <1>2, <1>3, <1>4 DEF SourcesInv, SourcesTypeOK, SourceFilesTypeOK
<1>7. s \notin mixed /\ do \in {"profile", "reprofile"} => rec[s] # None
  BY <1>4, AheadOfTail DEF Sound, BuildsOnRecord, Builds
<1>8. s \notin mixed => Stands(s)'
  BY <1>2, <1>3, <1>4, <1>7 DEF Stands, Backed, Parsed, IndexedAs
<1>9. s \notin mixed => Sound(s, x)'
  <2>1. CASE do = "rmprofile"
    BY <1>2, <1>3, <1>4, <1>5, <2>1, SoundWhileDeleted
  <2>2. CASE do \in {"profile", "reprofile"}
    <3>1. do \in Builds /\ do \notin {"rmchunks", "rmprofile", "rmmeta", "chunk", "chunks", "meta", "file"}
      BY <2>2 DEF Builds
    <3> QED
      BY <1>2, <1>3, <1>4, <1>5, <3>1, SoundAdvances
  <2> QED
    BY <1>2, <2>1, <2>2
<1>10. SourceGoesOn(t, s, x)
  BY <1>1, <1>2, <1>3, <1>4, <1>5, <1>6, <1>8, <1>9 DEF SourceGoesOn
<1> QED
  BY <1>4, <1>10, SourcesGoOn

LEMMA SourceIndexesMetadata == ASSUME SourcesInv, NEW t \in Thread, D!IndexMetadata(t) PROVE SourcesInv'
<1> DEFINE w == thread[t]
<1>1. PICK s, x : s = w.src /\ x = [w EXCEPT !.todo = Tail(@)]
  OBVIOUS
<1>2. PICK do : D!Does(t, do) /\ \/ do = "meta" /\ meta' = [meta EXCEPT ![s] = w.n]
                                 \/ do = "rmmeta" /\ meta' = [meta EXCEPT ![s] = 0]
  BY <1>1 DEF D!IndexMetadata
<1>3. /\ thread' = [thread EXCEPT ![t] = x]
      /\ UNCHANGED <<files, rec, listed, chunks, prof, vec, used, requests, crashes, mixed, doomed>>
  BY <1>1 DEF D!IndexMetadata, D!Then, D!history
<1>4. /\ w \in SourceWork /\ s \in Source /\ w.todo \in Seq(Access) /\ w.todo # <<>>
      /\ Head(w.todo).do = do /\ WellFormed(w.todo) /\ WellFormed(Tail(w.todo))
      /\ \A d \in Removes : Ahead(Tail(w.todo), d) => s \in doomed
      /\ do = "rmmeta" => s \in doomed
      /\ s \notin mixed => Sound(s, w) /\ Stands(s)
  BY <1>1, <1>2, SourceRequest DEF Removes
<1>5. /\ x \in SourceWork /\ x.todo = Tail(w.todo) /\ x.src = s /\ x.found = w.found
      /\ x.copy = w.copy /\ x.ids = w.ids /\ x.n = w.n
  BY <1>1, <1>4, SourceAdvances
<1>6. SourceFilesTypeOK' /\ \A y \in Source \ {s} : meta'[y] = meta[y]
  <2>1. w.n \in Nat
    BY <1>4 DEF SourceWork
  <2>2. \E n \in Nat : meta' = [meta EXCEPT ![s] = n]
    BY <1>2, <2>1
  <2> QED
    BY <1>3, <1>4, <2>2 DEF SourcesInv, SourcesTypeOK, SourceFilesTypeOK
<1>7. meta'[s] = IF do = "meta" THEN w.n ELSE 0
  BY <1>2, <1>4 DEF SourcesInv, SourcesTypeOK, SourceFilesTypeOK
<1>8. s \notin mixed => Stands(s)' /\ Sound(s, x)'
  <2>1. SUFFICES ASSUME s \notin mixed PROVE Stands(s)' /\ Sound(s, x)'
    OBVIOUS
  <2>2. CASE do = "rmmeta"
    <3>1. Stands(s)'
      BY <1>3, <1>4, <1>7, <2>1, <2>2 DEF Stands
    <3>2. Sound(s, x)'
      BY <1>3, <1>4, <1>5, <1>7, <2>1, <2>2, SoundWhileDeleted
    <3> QED
      BY <3>1, <3>2
  <2>3. CASE do = "meta"
    <3>1. Ahead(w.todo, "meta") /\ rec[s] # None
      BY <1>4, <2>1, <2>3, AheadOfTail DEF Sound, BuildsOnRecord, Builds
    <3>2. /\ ~Ahead(w.todo, "rmrecord") /\ ~Ahead(w.todo, "chunk") /\ ~Ahead(w.todo, "parse")
          /\ ~AheadSet(w.todo, "parsed") /\ ~Ahead(w.todo, "chunks")
      BY <1>4, <2>3, HeadIsOrdered DEF Builds
    <3> DEFINE doc == x.copy.doc
    <3>3. ASSUME s \notin doomed
          PROVE  /\ Parsed(s, doc) /\ doc.kind # "csv" /\ w.n = doc.n
                 /\ rec[s].doc = doc /\ w.found.doc = doc /\ 1..w.n \subseteq chunks[s]
      BY <1>4, <1>5, <2>1, <3>1, <3>2, <3>3 DEF Sound, IndexIsWhole, DocumentStays, ChunksFollow
    <3>4. s \notin doomed => meta'[s] = doc.n /\ Parsed(s, doc)'
      BY <1>3, <1>7, <2>3, <3>3 DEF Parsed
    <3>5. Stands(s)'
      BY <1>3, <1>4, <2>1, <3>1, <3>3, <3>4 DEF Stands, Backed, Parsed, IndexedAs
    <3>6. RecordGoesLast(s, x.todo)' /\ BuildsOnRecord(s, x.todo)'
      BY <1>3, <1>4, <1>5, <3>1, <3>2, AheadOfTail DEF RecordGoesLast, BuildsOnRecord
    <3>7. ASSUME s \notin doomed
          PROVE  /\ DocumentStays(s, x)' /\ FileComesFirst(s, x.todo)'
                 /\ ChunksFollow(s, x)' /\ IndexIsWhole(s, x)'
      <4>1. DocumentStays(s, x)'
        BY <1>3, <1>5, <3>3, <3>4, <3>7 DEF DocumentStays, Backed, IndexedAs
      <4>2. FileComesFirst(s, x.todo)'
        BY <1>3, <3>3, <3>7 DEF FileComesFirst, Parsed
      <4>3. ChunksFollow(s, x)'
        BY <1>3, <1>4, <1>5, <3>2, <3>3, <3>7, AheadOfTail DEF ChunksFollow
      <4>4. IndexIsWhole(s, x)'
        BY <1>5, <3>3, <3>4, <3>7 DEF IndexIsWhole
      <4> QED
        BY <4>1, <4>2, <4>3, <4>4
    <3> QED
      BY <1>3, <3>5, <3>6, <3>7 DEF Sound
  <2> QED
    BY <1>2, <2>2, <2>3
<1>9. SourceGoesOn(t, s, x)
  BY <1>1, <1>3, <1>4, <1>5, <1>6, <1>8 DEF SourceGoesOn
<1> QED
  BY <1>4, <1>9, SourcesGoOn

-----------------------------------------------------------------------------

\* What a document's parser makes of it: k chunks to write, then records and profiles.
Follow == {"set", "write", "ids", "list", "reload", "profile", "reprofile"}
Follows(p, k) ==
    /\ p \in Seq(Access) /\ k \in Nat /\ k <= Len(p)
    /\ \A i \in DOMAIN p :
          /\ IF i <= k THEN p[i].do = "chunk" ELSE p[i].do \in Follow
          /\ p[i].do = "ids" => i + 1 \in DOMAIN p /\ p[i + 1].do = "list"
          /\ p[i].do = "set" => i + 3 \in DOMAIN p /\ p[i].to # "indexed"

LEMMA FollowingTwo ==
    ASSUME NEW p, NEW q, NEW k, Follows(p, k), Follows(q, 0)
    PROVE  Follows(p \o q, k)
<1> DEFINE r == p \o q
<1>1. /\ r \in Seq(Access) /\ Len(r) = Len(p) + Len(q) /\ k \in Nat /\ k <= Len(p)
      /\ DOMAIN r = 1..Len(p) + Len(q) /\ DOMAIN p = 1..Len(p) /\ DOMAIN q = 1..Len(q)
      /\ Len(p) \in Nat /\ Len(q) \in Nat
      /\ \A i \in 1..Len(p) : r[i] = p[i]
      /\ \A i \in 1..Len(q) : r[i + Len(p)] = q[i]
      /\ \A i \in Len(p) + 1..Len(p) + Len(q) : r[i] = q[i - Len(p)]
  BY DEF Follows
<1>2. ASSUME NEW i \in DOMAIN p
      PROVE  /\ IF i <= k THEN r[i].do = "chunk" ELSE r[i].do \in Follow
             /\ r[i].do = "ids" => i + 1 \in DOMAIN r /\ r[i + 1].do = "list"
             /\ r[i].do = "set" => i + 3 \in DOMAIN r /\ r[i].to # "indexed"
  <2>1. /\ IF i <= k THEN p[i].do = "chunk" ELSE p[i].do \in Follow
        /\ p[i].do = "ids" => i + 1 \in DOMAIN p /\ p[i + 1].do = "list"
        /\ p[i].do = "set" => i + 3 \in DOMAIN p /\ p[i].to # "indexed"
    BY Zenon DEF Follows
  <2>2. r[i] = p[i] /\ (i + 1 \in DOMAIN p => r[i + 1] = p[i + 1]) /\ DOMAIN p \subseteq DOMAIN r
    BY <1>1
  <2> QED
    BY <2>1, <2>2, Zenon
<1>3. ASSUME NEW j \in DOMAIN q
      PROVE  /\ r[j + Len(p)].do \in Follow
             /\ r[j + Len(p)].do = "ids" => j + Len(p) + 1 \in DOMAIN r /\ r[j + Len(p) + 1].do = "list"
             /\ r[j + Len(p)].do = "set" => j + Len(p) + 3 \in DOMAIN r /\ r[j + Len(p)].to # "indexed"
  <2>1. /\ IF j <= 0 THEN q[j].do = "chunk" ELSE q[j].do \in Follow
        /\ q[j].do = "ids" => j + 1 \in DOMAIN q /\ q[j + 1].do = "list"
        /\ q[j].do = "set" => j + 3 \in DOMAIN q /\ q[j].to # "indexed"
    BY Zenon DEF Follows
  <2>2. ~(j <= 0) /\ r[j + Len(p)] = q[j]
    BY <1>1
  <2>3. j + 1 \in DOMAIN q => j + Len(p) + 1 \in DOMAIN r /\ r[(j + 1) + Len(p)] = q[j + 1]
    BY <1>1
  <2>4. (j + 1) + Len(p) = j + Len(p) + 1 /\ (j + 3 \in DOMAIN q => j + Len(p) + 3 \in DOMAIN r)
    BY <1>1
  <2> QED
    BY <2>1, <2>2, <2>3, <2>4, Zenon
<1>4. ASSUME NEW i \in DOMAIN r
      PROVE  /\ IF i <= k THEN r[i].do = "chunk" ELSE r[i].do \in Follow
             /\ r[i].do = "ids" => i + 1 \in DOMAIN r /\ r[i + 1].do = "list"
             /\ r[i].do = "set" => i + 3 \in DOMAIN r /\ r[i].to # "indexed"
  <2>1. CASE i \in DOMAIN p
    BY <1>2, <2>1, Zenon
  <2>2. CASE i \notin DOMAIN p
    <3>1. PICK j \in DOMAIN q : i = j + Len(p) /\ ~(i <= k)
      <4>1. i - Len(p) \in DOMAIN q /\ i = (i - Len(p)) + Len(p) /\ ~(i <= k)
        BY <1>1, <2>2
      <4> QED
        BY <4>1
    <3> QED
      BY <1>3, <3>1, Zenon
  <2> QED
    BY <2>1, <2>2
<1>5. k <= Len(r)
  BY <1>1
<1> QED
  BY <1>1, <1>4, <1>5, Zenon DEF Follows

\* One access before three.
LEMMA PutBeforeThree ==
    ASSUME NEW a \in Access, NEW b \in Access, NEW c \in Access, NEW d \in Access
    PROVE  LET r == <<a>> \o <<b, c, d>> IN
           r \in Seq(Access) /\ Len(r) = 4 /\ r[1] = a /\ r[2] = b /\ r[3] = c /\ r[4] = d
OBVIOUS

LEMMA AccessesAreTyped ==
    /\ \A do \in Act \ {"set"} : D!I(do) \in Access /\ D!I(do).do = do
    /\ \A st \in Status : /\ [do |-> "set", to |-> st] \in Access
                         /\ [do |-> "set", to |-> st].do = "set" /\ [do |-> "set", to |-> st].to = st
BY DEF D!I, Access, Act, Status

LEMMA FollowingSave ==
    ASSUME NEW a \in Access, a.do \in {"set", "reload", "file"}
    PROVE  LET p == <<a>> \o D!Save IN
           /\ p \in Seq(Access) /\ Len(p) = 4 /\ DOMAIN p = 1..4 /\ p[1] = a
           /\ p[2].do = "write" /\ p[3].do = "ids" /\ p[4].do = "list"
           /\ a.do # "file" /\ (a.do = "set" => a.to # "indexed") => Follows(p, 0)
<1>1. PICK b, c, d, p : b = D!I("write") /\ c = D!I("ids") /\ d = D!I("list") /\ p = <<a>> \o D!Save
  OBVIOUS
<1>2. b \in Access /\ c \in Access /\ d \in Access /\ b.do = "write" /\ c.do = "ids" /\ d.do = "list"
  BY <1>1, AccessesAreTyped DEF Act, Status
<1>3. p = <<a>> \o <<b, c, d>>
  BY <1>1, Zenon DEF D!Save
<1>4. p \in Seq(Access) /\ Len(p) = 4 /\ p[1] = a /\ p[2] = b /\ p[3] = c /\ p[4] = d
  <2>1. LET r == <<a>> \o <<b, c, d>> IN
        r \in Seq(Access) /\ Len(r) = 4 /\ r[1] = a /\ r[2] = b /\ r[3] = c /\ r[4] = d
    BY <1>2, PutBeforeThree
  <2> QED
    BY <1>3, <2>1, Zenon
<1>5. DOMAIN p = 1..4
  BY <1>4
<1>6. ASSUME a.do # "file", a.do = "set" => a.to # "indexed" PROVE Follows(p, 0)
  <2>1. \A i \in DOMAIN p : i = 1 \/ i = 2 \/ i = 3 \/ i = 4
    BY <1>5
  <2>2. \A i \in DOMAIN p : ~(i <= 0)
    BY <1>5
  <2>3. /\ p[1].do \in Follow /\ p[1].do # "ids" /\ (p[1].do = "set" => 1 + 3 \in DOMAIN p /\ p[1].to # "indexed")
        /\ p[2].do \in Follow /\ p[2].do # "ids" /\ p[2].do # "set"
        /\ p[3].do \in Follow /\ p[3].do # "set" /\ 3 + 1 \in DOMAIN p /\ p[3 + 1].do = "list"
        /\ p[4].do \in Follow /\ p[4].do # "set" /\ p[4].do # "ids"
    BY <1>2, <1>4, <1>5, <1>6 DEF Follow
  <2>4. \A i \in DOMAIN p :
          /\ p[i].do \in Follow
          /\ p[i].do = "ids" => i + 1 \in DOMAIN p /\ p[i + 1].do = "list"
          /\ p[i].do = "set" => i + 3 \in DOMAIN p /\ p[i].to # "indexed"
    BY <2>1, <2>3, Zenon
  <2>5. 0 \in Nat /\ 0 <= Len(p)
    BY <1>4
  <2> QED
    BY <1>4, <2>2, <2>4, <2>5, Zenon DEF Follows
<1> QED
  BY <1>1, <1>2, <1>4, <1>5, <1>6, Zenon

LEMMA FollowingOne ==
    /\ Follows(<<D!I("profile")>>, 0) /\ Follows(<<D!I("reprofile")>>, 0) /\ Follows(<<>>, 0)
    /\ Follows(D!Resave, 0)
    /\ \A st \in {"parsed", "failed"} : Follows(D!UpdateStatus(st), 0)
<1>1. ASSUME NEW a \in Access, a.do \in {"profile", "reprofile"} PROVE Follows(<<a>>, 0)
  <2>1. <<a>> \in Seq(Access) /\ Len(<<a>>) = 1 /\ DOMAIN <<a>> = 1..1 /\ <<a>>[1] = a
    OBVIOUS
  <2> QED
    BY <1>1, <2>1 DEF Follows, Follow
<1>2. Follows(<<>>, 0)
  BY DEF Follows
<1>3. Follows(D!Resave, 0)
  <2>1. PICK a : a = D!I("reload")
    OBVIOUS
  <2>2. a \in Access /\ a.do = "reload"
    BY <2>1, AccessesAreTyped DEF Act, Status
  <2>3. D!Resave = <<a>> \o D!Save
    BY <2>1, Zenon DEF D!Resave
  <2> QED
    BY <2>2, <2>3, FollowingSave
<1>4. ASSUME NEW st \in {"parsed", "failed"} PROVE Follows(D!UpdateStatus(st), 0)
  <2>1. PICK a : a = [do |-> "set", to |-> st]
    OBVIOUS
  <2>2. a \in Access /\ a.do = "set" /\ a.to # "indexed"
    BY <2>1, AccessesAreTyped DEF Act, Status
  <2>3. D!UpdateStatus(st) = <<a>> \o D!Save
    BY <2>1, Zenon DEF D!UpdateStatus
  <2> QED
    BY <2>2, <2>3, FollowingSave
<1> QED
  BY <1>1, <1>2, <1>3, <1>4, AccessesAreTyped DEF Act, Status

LEMMA FollowingChunks ==
    ASSUME NEW k \in Nat
    PROVE  Follows([i \in 1..k |-> D!I("chunk")], k)
<1> DEFINE p == [i \in 1..k |-> D!I("chunk")]
<1>1. D!I("chunk") \in Access /\ D!I("chunk").do = "chunk"
  BY AccessesAreTyped DEF Act, Status
<1>2. p \in Seq(Access) /\ Len(p) = k /\ DOMAIN p = 1..k /\ \A i \in 1..k : p[i].do = "chunk"
  BY <1>1
<1> QED
  BY <1>2 DEF Follows

LEMMA FailureIsToldOnly ==
    ASSUME NEW p, p = D!UpdateStatus("failed")
    PROVE  ~Ahead(p, "chunk") /\ ~AheadSet(p, "parsed")
<1>1. PICK a : a = [do |-> "set", to |-> "failed"]
  OBVIOUS
<1>2. a \in Access /\ a.do = "set" /\ a.to = "failed"
  BY <1>1, AccessesAreTyped DEF Act, Status
<1>3. p = <<a>> \o D!Save
  BY <1>1, Zenon DEF D!UpdateStatus
<1>4. PICK q : q = <<a>> \o D!Save
  OBVIOUS
<1>5. DOMAIN q = 1..4 /\ q[1] = a /\ q[2].do = "write" /\ q[3].do = "ids" /\ q[4].do = "list"
  BY <1>2, <1>4, FollowingSave
<1>6. ~Ahead(q, "chunk") /\ ~AheadSet(q, "parsed")
  BY <1>2, <1>5 DEF Ahead, AheadSet
<1> QED
  BY <1>3, <1>4, <1>6, Zenon

\* What parsing leaves to do: as many chunks as the document has, if its file is still
\* there, or nothing that would call it parsed.
LEMMA ParserFollows ==
    ASSUME NEW doc \in Doc, NEW onDisk \in BOOLEAN, NEW p, p = D!Parsed(doc, onDisk)
    PROVE  \E k \in Nat :
              /\ Follows(p, k)
              /\ onDisk => \/ k = IF doc.kind = "csv" THEN 0 ELSE doc.n
                           \/ k = 0 /\ ~Ahead(p, "chunk") /\ ~AheadSet(p, "parsed")
<1>1. PICK n, cs : n = (IF onDisk THEN doc.n ELSE 0) /\ cs = [i \in 1..n |-> D!I("chunk")]
  OBVIOUS
<1>2. doc.n \in Nat /\ doc.kind \in {"text", "csv", "xlsx"} /\ n \in Nat
  BY <1>1, DesksAssumption
<1>3. Follows(cs, n)
  BY <1>1, <1>2, FollowingChunks
<1>4. \/ p = <<>> /\ ~onDisk
      \/ p = <<D!I("profile")>> \o D!UpdateStatus("parsed") \o D!Resave /\ doc.kind = "csv"
      \/ /\ doc.kind = "xlsx"
         /\ p = cs \o D!UpdateStatus("parsed") \o D!Resave \o <<D!I("reprofile")>> \o D!Resave
      \/ doc.kind = "text" /\ p = cs \o D!UpdateStatus("parsed") \o D!Resave \o D!Resave
      \/ p = D!UpdateStatus("failed")
  BY <1>1, Zenon DEF D!Parsed
<1> USE FollowingTwo, FollowingOne
<1>5. CASE p = <<>> /\ ~onDisk
  BY <1>5
<1>6. CASE p = <<D!I("profile")>> \o D!UpdateStatus("parsed") \o D!Resave /\ doc.kind = "csv"
  <2>1. Follows(<<D!I("profile")>> \o D!UpdateStatus("parsed"), 0)
    OBVIOUS
  <2>2. Follows(p, 0)
    BY <1>6, <2>1
  <2> QED
    BY <1>6, <2>2
<1>7. CASE /\ doc.kind = "xlsx"
           /\ p = cs \o D!UpdateStatus("parsed") \o D!Resave \o <<D!I("reprofile")>> \o D!Resave
  <2>1. Follows(cs \o D!UpdateStatus("parsed"), n)
    BY <1>3
  <2>2. Follows(cs \o D!UpdateStatus("parsed") \o D!Resave, n)
    BY <2>1
  <2>3. Follows(cs \o D!UpdateStatus("parsed") \o D!Resave \o <<D!I("reprofile")>>, n)
    BY <2>2
  <2>4. Follows(p, n)
    BY <1>7, <2>3
  <2> QED
    BY <1>1, <1>2, <1>7, <2>4
<1>8. CASE doc.kind = "text" /\ p = cs \o D!UpdateStatus("parsed") \o D!Resave \o D!Resave
  <2>1. Follows(cs \o D!UpdateStatus("parsed"), n)
    BY <1>3
  <2>2. Follows(cs \o D!UpdateStatus("parsed") \o D!Resave, n)
    BY <2>1
  <2>3. Follows(p, n)
    BY <1>8, <2>2
  <2> QED
    BY <1>1, <1>2, <1>8, <2>3
<1>9. CASE p = D!UpdateStatus("failed")
  <2>1. Follows(p, 0)
    BY <1>9
  <2>2. ~Ahead(p, "chunk") /\ ~AheadSet(p, "parsed")
    BY <1>9, FailureIsToldOnly
  <2> QED
    BY <2>1, <2>2
<1> QED
  BY <1>4, <1>5, <1>6, <1>7, <1>8, <1>9

LEMMA FollowingIsOrdered ==
    ASSUME NEW p, NEW k, Follows(p, k)
    PROVE  /\ p \in Seq(Access) /\ WellFormed(p)
           /\ \A i \in DOMAIN p : p[i].do = "chunk" <=> i <= k
           /\ \A do : do \notin Follow \cup {"chunk"} => ~Ahead(p, do)
           /\ ~AheadSet(p, "indexed")
<1>1. \A i \in DOMAIN p : p[i].do = "chunk" \/ p[i].do \in Follow
  BY Zenon DEF Follows
<1>2. \A i \in DOMAIN p : p[i].do \notin {"rmrecord", "chunks", "meta", "parse", "file"}
  BY <1>1 DEF Follow
<1>3. WellFormed(p)
  BY <1>2, Zenon DEF WellFormed, Follows
<1>4. \A i \in DOMAIN p : p[i].do = "chunk" <=> i <= k
  BY DEF Follows, Follow
<1>5. \A do : do \notin Follow \cup {"chunk"} => ~Ahead(p, do)
  BY <1>1 DEF Ahead
<1>6. ~AheadSet(p, "indexed")
  BY Zenon DEF AheadSet, Follows
<1> QED
  BY <1>3, <1>4, <1>5, <1>6 DEF Follows

LEMMA SourceRunsParser == ASSUME SourcesInv, NEW t \in Thread, D!RunParser(t) PROVE SourcesInv'
<1> DEFINE w == thread[t]
<1>1. PICK s, onDisk, p : s = w.src /\ onDisk = (s \in files) /\ p = D!Parsed(w.found.doc, onDisk)
  OBVIOUS
<1>2. PICK x : x = [w EXCEPT !.todo = p]
  OBVIOUS
<1>3. /\ D!Does(t, "parse") /\ thread' = [thread EXCEPT ![t] = x]
      /\ UNCHANGED <<files, rec, listed, chunks, prof, meta, vec>>
      /\ UNCHANGED <<used, requests, crashes, mixed, doomed>>
  BY <1>1, <1>2 DEF D!RunParser, D!history, D!store
<1>4. /\ w \in SourceWork /\ s \in Source /\ w.todo \in Seq(Access) /\ w.todo # <<>>
      /\ Head(w.todo).do = "parse" /\ WellFormed(w.todo)
      /\ s \notin mixed => Sound(s, w) /\ Stands(s)
  BY <1>1, <1>3, SourceRequest
<1>5. w.found.doc \in Doc /\ onDisk \in BOOLEAN /\ w.n \in Nat
  BY <1>1, <1>4 DEF SourceWork, SourceRecord
<1>6. PICK k \in Nat :
          /\ Follows(p, k)
          /\ onDisk => \/ k = IF w.found.doc.kind = "csv" THEN 0 ELSE w.found.doc.n
                       \/ k = 0 /\ ~Ahead(p, "chunk") /\ ~AheadSet(p, "parsed")
  BY <1>1, <1>5, ParserFollows
<1>7. /\ p \in Seq(Access) /\ WellFormed(p)
      /\ \A i \in DOMAIN p : p[i].do = "chunk" <=> i <= k
      /\ \A do : do \notin Follow \cup {"chunk"} => ~Ahead(p, do)
      /\ ~AheadSet(p, "indexed")
  BY <1>6, FollowingIsOrdered
<1>8. /\ \A do \in Removes : ~Ahead(p, do)
      /\ ~Ahead(p, "parse") /\ ~Ahead(p, "chunks") /\ ~Ahead(p, "meta") /\ ~Ahead(p, "rmrecord")
  BY <1>7 DEF Removes, Follow
<1>9. /\ x \in SourceWork /\ x.todo = p /\ x.src = s /\ x.found = w.found /\ x.copy = w.copy /\ x.n = w.n
  BY <1>1, <1>2, <1>4, <1>7 DEF SourceWork
<1>10. SourceFilesTypeOK' /\ (s \notin mixed => Stands(s)')
  BY <1>3, <1>4 DEF SourcesInv, SourcesTypeOK, SourceFilesTypeOK, Stands, Backed, Parsed, IndexedAs
<1>11. s \notin mixed => Sound(s, x)'
  <2> SUFFICES ASSUME s \notin mixed PROVE Sound(s, x)'
    OBVIOUS
  <2>1. Ahead(w.todo, "parse") /\ ~Ahead(w.todo, "file")
    BY <1>4, AheadOfTail, HeadIsOrdered
  <2>2. rec[s] # None
    BY <1>4, <2>1 DEF Sound, BuildsOnRecord, Builds
  <2>3. RecordGoesLast(s, x.todo)' /\ BuildsOnRecord(s, x.todo)'
    BY <1>3, <1>8, <1>9, <2>2 DEF RecordGoesLast, BuildsOnRecord
  <2>4. ASSUME s \notin doomed
        PROVE  /\ DocumentStays(s, x)' /\ FileComesFirst(s, x.todo)'
               /\ ChunksFollow(s, x)' /\ IndexIsWhole(s, x)'
    <3>1. w.n = 0 /\ s \in files /\ w.found.doc = w.copy.doc /\ DocumentStays(s, w)
      BY <1>4, <2>1, <2>4 DEF Sound, ChunksFollow, FileComesFirst, DocumentStays
    <3>2. DocumentStays(s, x)' /\ FileComesFirst(s, x.todo)'
      BY <1>3, <1>9, <3>1 DEF DocumentStays, FileComesFirst, Backed, Parsed, IndexedAs
    <3>3. IndexIsWhole(s, x)'
      BY <1>7, <1>8, <1>9 DEF IndexIsWhole
    <3>4. ChunksFollow(s, x)'
      <4> DEFINE doc == w.copy.doc
      <4>1. 1..x.n \subseteq chunks'[s] /\ x.n = 0 /\ x.copy.doc = doc /\ doc.n \in Nat
        BY <1>5, <1>9, <3>1, DesksAssumption
      <4>2. ASSUME Ahead(p, "chunk") \/ AheadSet(p, "parsed"), doc.kind = "csv" PROVE ~Ahead(p, "chunk")
        <5>1. k = 0
          BY <1>1, <1>6, <3>1, <4>2
        <5>2. DOMAIN p = 1..Len(p)
          BY <1>7
        <5> QED
          BY <1>7, <5>1, <5>2 DEF Ahead
      <4>3. ASSUME Ahead(p, "chunk") \/ AheadSet(p, "parsed"), doc.kind # "csv"
            PROVE  0 <= doc.n /\ \A i \in DOMAIN p : p[i].do = "chunk" <=> i <= doc.n - 0
        <5>1. k = doc.n
          BY <1>1, <1>6, <3>1, <4>3
        <5> QED
          BY <1>7, <4>1, <5>1
      <4> QED
        BY <1>8, <1>9, <4>1, <4>2, <4>3, Zenon DEF ChunksFollow
    <3> QED
      BY <3>2, <3>3, <3>4
  <2> QED
    BY <1>3, <2>3, <2>4 DEF Sound
<1>12. SourceGoesOn(t, s, x)
  BY <1>1, <1>3, <1>4, <1>7, <1>8, <1>9, <1>10, <1>11 DEF SourceGoesOn
<1> QED
  BY <1>4, <1>12, SourcesGoOn

-----------------------------------------------------------------------------

\* r is p and then q.
Joined(r, p, q) ==
    /\ \A i \in 1..Len(p) : r[i] = p[i]
    /\ \A i \in 1..Len(q) : r[i + Len(p)] = q[i]

LEMMA JoinTwo ==
    ASSUME NEW p \in Seq(Access), NEW q \in Seq(Access)
    PROVE  p \o q \in Seq(Access) /\ Len(p \o q) = Len(p) + Len(q) /\ Joined(p \o q, p, q)
<1>1. p \o q \in Seq(Access) /\ Len(p \o q) = Len(p) + Len(q)
  BY ConcatProperties, Zenon
<1>2. \A i \in 1..Len(p) : (p \o q)[i] = p[i]
  OBVIOUS
<1>3. \A i \in 1..Len(q) : (p \o q)[i + Len(p)] = q[i]
  OBVIOUS
<1> QED
  BY <1>1, <1>2, <1>3 DEF Joined

\* The requests' own programs.
LEMMA UploadProgram ==
    ASSUME NEW p, p = D!Upload
    PROVE  /\ p \in Seq(Access) /\ WellFormed(p) /\ Ahead(p, "file")
           /\ ~AheadSet(p, "parsed") /\ ~AheadSet(p, "indexed")
           /\ \A do \in Act \ {"file", "write", "ids", "list"} : ~Ahead(p, do)
<1>1. PICK a : a = D!I("file")
  OBVIOUS
<1>2. a \in Access /\ a.do = "file"
  BY <1>1, AccessesAreTyped DEF Act
<1>3. p = <<a>> \o D!Save
  BY <1>1, Zenon DEF D!Upload
<1>4. /\ p \in Seq(Access) /\ DOMAIN p = 1..4 /\ p[1].do = "file"
      /\ p[2].do = "write" /\ p[3].do = "ids" /\ p[4].do = "list"
  <2>1. /\ p \in Seq(Access) /\ DOMAIN p = 1..4 /\ p[1] = a
        /\ p[2].do = "write" /\ p[3].do = "ids" /\ p[4].do = "list"
    BY <1>2, <1>3, FollowingSave
  <2> QED
    BY <1>2, <2>1, Zenon
<1>5. WellFormed(p)
  BY <1>4 DEF WellFormed, Builds, Removes
<1>6. \A do \in Act \ {"file", "write", "ids", "list"} : ~Ahead(p, do)
  BY <1>4 DEF Ahead
<1> QED
  BY <1>4, <1>5, <1>6 DEF Ahead, AheadSet

LEMMA DeleteProgram ==
    ASSUME NEW p, p = D!Delete
    PROVE  /\ p \in Seq(Access) /\ WellFormed(p)
           /\ Ahead(p, "rmchunks") /\ Ahead(p, "rmprofile") /\ Ahead(p, "rmmeta")
           /\ \A do \in Builds : ~Ahead(p, do)
<1>1. PICK a, b, c, d, e, f, g :
          /\ a = D!I("rmfile") /\ b = D!I("rmchunks") /\ c = D!I("rmprofile") /\ d = D!I("rmmeta")
          /\ e = D!I("rmrecord") /\ f = D!I("ids") /\ g = D!I("unlist")
  OBVIOUS
<1>2. /\ a \in Access /\ b \in Access /\ c \in Access /\ d \in Access /\ e \in Access
      /\ f \in Access /\ g \in Access
      /\ a.do = "rmfile" /\ b.do = "rmchunks" /\ c.do = "rmprofile" /\ d.do = "rmmeta"
      /\ e.do = "rmrecord" /\ f.do = "ids" /\ g.do = "unlist"
  BY <1>1, AccessesAreTyped DEF Act
<1>3. p = <<a, b, c, d, e, f, g>>
  BY <1>1, Zenon DEF D!Delete
<1>4. /\ p \in Seq(Access) /\ DOMAIN p = 1..7
      /\ p[1].do = "rmfile" /\ p[2].do = "rmchunks" /\ p[3].do = "rmprofile" /\ p[4].do = "rmmeta"
      /\ p[5].do = "rmrecord" /\ p[6].do = "ids" /\ p[7].do = "unlist"
  BY <1>2, <1>3
<1>5. WellFormed(p) /\ \A do \in Builds : ~Ahead(p, do)
  <2>1. \A i \in DOMAIN p : i = 1 \/ i = 2 \/ i = 3 \/ i = 4 \/ i = 5 \/ i = 6 \/ i = 7
    BY <1>4
  <2>2. \A i \in DOMAIN p : p[i].do \notin Builds /\ p[i].do \notin {"set", "file", "chunks", "meta"}
    BY <1>4, <2>1 DEF Builds
  <2>3. \A i \in DOMAIN p : p[i].do = "rmrecord" => i = 5
    BY <1>4, <2>1
  <2>4. \A j \in DOMAIN p : 5 < j => p[j].do \notin Removes
    BY <1>4, <2>1 DEF Removes
  <2>5. \A i \in DOMAIN p : p[i].do = "ids" => i + 1 \in DOMAIN p /\ p[i + 1].do \in {"list", "unlist"}
    BY <1>4, <2>1
  <2>6. \A do \in Builds : ~Ahead(p, do)
    BY <2>2 DEF Ahead
  <2> QED
    BY <2>2, <2>3, <2>4, <2>5, <2>6 DEF WellFormed, Builds
<1>6. Ahead(p, "rmchunks") /\ Ahead(p, "rmprofile") /\ Ahead(p, "rmmeta")
  <2>1. 2 \in DOMAIN p /\ 3 \in DOMAIN p /\ 4 \in DOMAIN p
    BY <1>4
  <2> QED
    BY <1>4, <2>1, Zenon DEF Ahead
<1> QED
  BY <1>4, <1>5, <1>6

LEMMA ParseProgram ==
    ASSUME NEW p, p = D!Parse
    PROVE  /\ p \in Seq(Access) /\ WellFormed(p) /\ ~AheadSet(p, "parsed") /\ ~AheadSet(p, "indexed")
           /\ \A do \in Act \ {"set", "write", "ids", "list", "parse"} : ~Ahead(p, do)
<1>1. PICK a, b, q : a = [do |-> "set", to |-> "parsing"] /\ b = D!I("parse") /\ q = <<a>> \o D!Save
  OBVIOUS
<1>2. a \in Access /\ a.do = "set" /\ a.to = "parsing" /\ b \in Access /\ b.do = "parse"
  BY <1>1, AccessesAreTyped DEF Act, Status
<1>3. p = q \o <<b>>
  BY <1>1, Zenon DEF D!Parse, D!UpdateStatus
<1>4. /\ q \in Seq(Access) /\ Len(q) = 4 /\ DOMAIN q = 1..4 /\ q[1] = a
      /\ q[2].do = "write" /\ q[3].do = "ids" /\ q[4].do = "list"
  <2>1. q = <<a>> \o D!Save /\ a.do \in {"set", "reload", "file"}
    BY <1>1, <1>2
  <2> QED
    BY <1>2, <2>1, FollowingSave
<1>10. /\ p \in Seq(Access) /\ Len(p) = 5 /\ p[5] = b
       /\ p[1] = q[1] /\ p[2] = q[2] /\ p[3] = q[3] /\ p[4] = q[4]
  <2>1. <<b>> \in Seq(Access) /\ Len(<<b>>) = 1 /\ <<b>>[1] = b
    BY <1>2
  <2> QED
    <3>1. PICK r : r = <<b>>
      OBVIOUS
    <3>2. p \in Seq(Access) /\ Len(p) = Len(q) + Len(r) /\ Joined(p, q, r)
      BY <1>3, <1>4, <2>1, <3>1, JoinTwo, Zenon
    <3>3. p[1] = q[1] /\ p[2] = q[2] /\ p[3] = q[3] /\ p[4] = q[4] /\ p[1 + 4] = r[1]
      BY <1>4, <2>1, <3>1, <3>2 DEF Joined
    <3> QED
      BY <1>4, <2>1, <3>1, <3>2, <3>3
<1>5. /\ p \in Seq(Access) /\ DOMAIN p = 1..5 /\ p[1].do = "set" /\ p[1].to = "parsing"
      /\ p[2].do = "write" /\ p[3].do = "ids" /\ p[4].do = "list" /\ p[5].do = "parse"
  <2>1. DOMAIN p = 1..5
    BY <1>10
  <2> QED
    BY <1>2, <1>4, <1>10, <2>1, Zenon
<1>6. \A i \in DOMAIN p : i = 1 \/ i = 2 \/ i = 3 \/ i = 4 \/ i = 5
  BY <1>5
<1>7. WellFormed(p)
  <2>1. \A i \in DOMAIN p : p[i].do \notin {"rmrecord", "chunks", "meta", "file", "chunk"}
    BY <1>5, <1>6
  <2>2. \A i \in DOMAIN p : /\ p[i].do = "set" => i + 3 \in DOMAIN p /\ p[i].to # "indexed"
                            /\ p[i].do = "ids" => i + 1 \in DOMAIN p /\ p[i + 1].do \in {"list", "unlist"}
    BY <1>5, <1>6
  <2> QED
    BY <2>1, <2>2 DEF WellFormed
<1>8. \A do \in Act \ {"set", "write", "ids", "list", "parse"} : ~Ahead(p, do)
  BY <1>5, <1>6 DEF Ahead
<1>9. ~AheadSet(p, "parsed") /\ ~AheadSet(p, "indexed")
  BY <1>5, <1>6 DEF AheadSet
<1> QED
  BY <1>5, <1>7, <1>8, <1>9

LEMMA IndexProgram ==
    ASSUME NEW p, p = D!Index
    PROVE  /\ p \in Seq(Access) /\ WellFormed(p) /\ ~AheadSet(p, "parsed")
           /\ Ahead(p, "chunks") /\ Ahead(p, "meta")
           /\ \A do \in {"file", "chunk", "parse"} \cup Removes : ~Ahead(p, do)
<1>1. PICK a, b, c, d, q :
          /\ a = D!I("chunks") /\ b = D!I("vector") /\ c = D!I("meta")
          /\ d = [do |-> "set", to |-> "indexed"] /\ q = <<d>> \o D!Save
  OBVIOUS
<1>2. /\ a \in Access /\ b \in Access /\ c \in Access /\ d \in Access
      /\ a.do = "chunks" /\ b.do = "vector" /\ c.do = "meta" /\ d.do = "set" /\ d.to = "indexed"
  BY <1>1, AccessesAreTyped DEF Act, Status
<1>3. p = <<a, b, c>> \o q
  BY <1>1, Zenon DEF D!Index, D!UpdateStatus
<1>4. /\ q \in Seq(Access) /\ Len(q) = 4 /\ DOMAIN q = 1..4 /\ q[1] = d
      /\ q[2].do = "write" /\ q[3].do = "ids" /\ q[4].do = "list"
  <2>1. q = <<d>> \o D!Save /\ d.do \in {"set", "reload", "file"}
    BY <1>1, <1>2
  <2> QED
    BY <1>2, <2>1, FollowingSave
<1>11. /\ p \in Seq(Access) /\ Len(p) = 7 /\ p[1] = a /\ p[2] = b /\ p[3] = c
       /\ p[4] = q[1] /\ p[5] = q[2] /\ p[6] = q[3] /\ p[7] = q[4]
  <2>1. PICK r : r = <<a, b, c>>
    OBVIOUS
  <2>2. r \in Seq(Access) /\ Len(r) = 3 /\ r[1] = a /\ r[2] = b /\ r[3] = c
    BY <1>2, <2>1
  <2>3. p = r \o q
    BY <1>3, <2>1
  <2> QED
    <3>1. p \in Seq(Access) /\ Len(p) = Len(r) + Len(q) /\ Joined(p, r, q)
      BY <1>4, <2>2, <2>3, JoinTwo, Zenon
    <3>2. p[1] = r[1] /\ p[2] = r[2] /\ p[3] = r[3]
      BY <2>2, <3>1 DEF Joined
    <3>3. p[1 + 3] = q[1] /\ p[2 + 3] = q[2] /\ p[3 + 3] = q[3] /\ p[4 + 3] = q[4]
      BY <1>4, <2>2, <3>1 DEF Joined
    <3> QED
      BY <1>4, <2>2, <3>1, <3>2, <3>3
<1>5. /\ p \in Seq(Access) /\ DOMAIN p = 1..7
      /\ p[1].do = "chunks" /\ p[2].do = "vector" /\ p[3].do = "meta"
      /\ p[4].do = "set" /\ p[4].to = "indexed"
      /\ p[5].do = "write" /\ p[6].do = "ids" /\ p[7].do = "list"
  <2>1. DOMAIN p = 1..7
    BY <1>11
  <2> QED
    BY <1>2, <1>4, <1>11, <2>1, Zenon
<1>6. \A i \in DOMAIN p : i = 1 \/ i = 2 \/ i = 3 \/ i = 4 \/ i = 5 \/ i = 6 \/ i = 7
  BY <1>5
<1>7. WellFormed(p)
  <2>1. \A i \in DOMAIN p : p[i].do \notin {"rmrecord", "parse", "file", "chunk"}
    BY <1>5, <1>6
  <2>2. \A i \in DOMAIN p : /\ p[i].do = "set" => i = 4 /\ i + 3 \in DOMAIN p /\ p[i].to = "indexed"
                            /\ p[i].do = "ids" => i + 1 \in DOMAIN p /\ p[i + 1].do \in {"list", "unlist"}
    BY <1>5, <1>6
  <2>3. \A i, j \in DOMAIN p : p[i].do = "meta" /\ i < j => p[j].do # "chunks"
    BY <1>5, <1>6
  <2>4. \A j \in DOMAIN p : 4 < j => p[j].do \notin {"chunks", "meta"}
    BY <1>5, <1>6
  <2> QED
    BY <2>1, <2>2, <2>3, <2>4 DEF WellFormed
<1>8. \A do \in {"file", "chunk", "parse"} \cup Removes : ~Ahead(p, do)
  BY <1>5, <1>6 DEF Ahead, Removes
<1>9. ~AheadSet(p, "parsed")
  BY <1>5, <1>6 DEF AheadSet
<1>10. Ahead(p, "chunks") /\ Ahead(p, "meta")
  <2>1. 1 \in DOMAIN p /\ 3 \in DOMAIN p
    BY <1>5
  <2> QED
    BY <1>5, <2>1, Zenon DEF Ahead
<1> QED
  BY <1>5, <1>7, <1>8, <1>9, <1>10

\* A request begins on a source, with a program of its own.
SourceBegins(t, s, th) ==
    /\ thread[t] = D!Idle /\ thread' = [thread EXCEPT ![t] = th]
    /\ th \in SourceWork /\ th.src = s
    /\ WellFormed(th.todo) /\ \A do \in Removes : Ahead(th.todo, do) => s \in doomed'
    /\ UNCHANGED <<files, rec, listed, chunks, prof, meta, vec, crashes>>
    /\ requests' = requests + 1
    /\ mixed' = (IF \E u \in Thread : thread[u].src = s THEN mixed \cup {s} ELSE mixed)
    /\ used' = used \cup {s} /\ doomed' \in {doomed, doomed \cup {s}}
    /\ s \notin mixed /\ Stands(s) => Sound(s, th)'

LEMMA SourcesBegin ==
    ASSUME SourcesInv, NEW t \in Thread, NEW s \in Source, NEW th, SourceBegins(t, s, th)
    PROVE  SourcesInv'
<1> USE DEF SourcesInv, SourceBegins
<1>1. SourcesTypeOK'
  <2>1. SourceFilesTypeOK'
    BY DEF SourcesTypeOK, SourceFilesTypeOK
  <2>2. requests' \in Nat
    BY DEF SourcesTypeOK
  <2> QED
    BY <2>1, <2>2 DEF SourcesTypeOK
<1>2. thread'[t] = th /\ \A u \in Thread \ {t} : thread'[u] = thread[u]
  BY DEF SourcesTypeOK
<1>3. doomed \subseteq doomed' /\ mixed \subseteq mixed' /\ \A x \in Source \ {s} : x \in doomed' <=> x \in doomed
  OBVIOUS
<1>4. ProgramsAreOrdered'
  BY <1>2, <1>3 DEF ProgramsAreOrdered
<1>5. UnusedAreEmpty'
  BY <1>2 DEF UnusedAreEmpty
<1>6. AloneUnlessMixed'
  BY <1>2, <1>3, DesksAssumption DEF AloneUnlessMixed
<1>7. SourcesStand'
  BY <1>3 DEF SourcesStand, Stands, Backed, Parsed, IndexedAs
<1>8. RequestsAreSound'
  <2>1. ASSUME NEW u \in Thread, thread'[u].src \in Source \ mixed'
        PROVE  Sound(thread[u].src, thread[u])'
    <3>1. CASE u = t
      BY <1>2, <1>3, <2>1, <3>1 DEF SourcesStand
    <3>2. CASE u # t
      <4> DEFINE x == thread[u].src
      <4>1. x \in Source \ {s} /\ x \notin mixed /\ Sound(x, thread[u]) /\ thread'[u] = thread[u]
        BY <1>2, <1>3, <2>1, <3>2 DEF RequestsAreSound
      <4> QED
        BY <1>3, <4>1 DEF Sound, RecordGoesLast, BuildsOnRecord, DocumentStays, FileComesFirst, ChunksFollow,
                    IndexIsWhole, Backed, Parsed, IndexedAs
    <3> QED
      BY <3>1, <3>2
  <2> QED
    BY <2>1 DEF RequestsAreSound
<1> QED
  BY <1>1, <1>4, <1>5, <1>6, <1>7, <1>8

\* What a request that begins is.
LEMMA SourceBeginning ==
    ASSUME SourcesInv, NEW t \in Thread, NEW s \in Source, NEW p \in Seq(Access), NEW r \in SourceRecord,
           D!Begin(t, s, p, r)
    PROVE  \E th : /\ th \in SourceWork /\ th.src = s /\ th.todo = p /\ th.found = r /\ th.copy = r /\ th.n = 0
                   /\ thread[t] = D!Idle /\ thread' = [thread EXCEPT ![t] = th]
                   /\ UNCHANGED <<files, rec, listed, chunks, prof, meta, vec, crashes>>
                   /\ requests' = requests + 1
                   /\ mixed' = IF \E u \in Thread : thread[u].src = s THEN mixed \cup {s} ELSE mixed
<1>1. PICK th : th = [D!Idle EXCEPT !.src = s, !.todo = p, !.found = r, !.copy = r]
  OBVIOUS
<1>2. th = [src |-> s, todo |-> p, found |-> r, copy |-> r, ids |-> {}, n |-> 0]
  BY <1>1 DEF D!Idle
<1>3. th \in SourceWork /\ th.src = s /\ th.todo = p /\ th.found = r /\ th.copy = r /\ th.n = 0
  BY <1>2 DEF SourceWork
<1>4. thread' = [thread EXCEPT ![t] = th] /\ thread[t] = D!Idle
  BY <1>1 DEF D!Begin
<1> QED
  BY <1>3, <1>4 DEF D!Begin, D!store

LEMMA SourceUploads == ASSUME SourcesInv, NEW t \in Thread, D!BeginUpload(t) PROVE SourcesInv'
<1>0. PICK s \in Source \ used, d \in Doc :
          /\ D!Begin(t, s, D!Upload, [status |-> "uploaded", doc |-> d])
          /\ used' = used \cup {s} /\ UNCHANGED doomed
  BY DEF D!BeginUpload
<1>1. PICK r : /\ r = [status |-> "uploaded", doc |-> d]
               /\ D!Begin(t, s, D!Upload, r) /\ used' = used \cup {s} /\ UNCHANGED doomed
  BY <1>0
<1>2. PICK p : p = D!Upload
  OBVIOUS
<1>3. /\ p \in Seq(Access) /\ WellFormed(p) /\ Ahead(p, "file")
      /\ ~AheadSet(p, "parsed") /\ ~AheadSet(p, "indexed")
      /\ \A do \in Act \ {"file", "write", "ids", "list"} : ~Ahead(p, do)
  BY <1>2, UploadProgram
<1>4. r \in SourceRecord /\ r.status = "uploaded"
  BY <1>1 DEF SourceRecord, Status
<1>5. PICK th : /\ th \in SourceWork /\ th.src = s /\ th.todo = p /\ th.found = r /\ th.copy = r /\ th.n = 0
                /\ thread[t] = D!Idle /\ thread' = [thread EXCEPT ![t] = th]
                /\ UNCHANGED <<files, rec, listed, chunks, prof, meta, vec, crashes>>
                /\ requests' = requests + 1
                /\ mixed' = IF \E u \in Thread : thread[u].src = s THEN mixed \cup {s} ELSE mixed
  BY <1>1, <1>2, <1>3, <1>4, SourceBeginning
<1>6. Sound(s, th)'
  <2>1. /\ \A do \in Builds : ~Ahead(p, do)
        /\ ~Ahead(p, "rmrecord") /\ ~Ahead(p, "chunk") /\ ~Ahead(p, "parse") /\ ~Ahead(p, "chunks") /\ ~Ahead(p, "meta")
    BY <1>3 DEF Builds, Act
  <2>2. rec[s] = None
    BY <1>1 DEF SourcesInv, UnusedAreEmpty
  <2>3. RecordGoesLast(s, th.todo)' /\ BuildsOnRecord(s, th.todo)' /\ FileComesFirst(s, th.todo)'
    BY <1>3, <1>5, <2>1 DEF RecordGoesLast, BuildsOnRecord, FileComesFirst
  <2>4. DocumentStays(s, th)' /\ IndexIsWhole(s, th)'
    BY <1>3, <1>4, <1>5, <2>1, <2>2 DEF DocumentStays, Backed, IndexIsWhole
  <2>5. ChunksFollow(s, th)'
    BY <1>3, <1>5, <2>1 DEF ChunksFollow
  <2> QED
    BY <2>3, <2>4, <2>5 DEF Sound
<1>7. \A do \in Removes : ~Ahead(p, do)
  BY <1>3 DEF Removes, Act
<1>8. SourceBegins(t, s, th)
  BY <1>1, <1>3, <1>5, <1>6, <1>7 DEF SourceBegins
<1> QED
  BY <1>8, SourcesBegin

LEMMA SourceDeletes == ASSUME SourcesInv, NEW t \in Thread, D!BeginDelete(t) PROVE SourcesInv'
<1>1. PICK s \in Source :
          /\ rec[s] # None /\ D!Begin(t, s, D!Delete, rec[s])
          /\ doomed' = doomed \cup {s} /\ UNCHANGED used
  BY DEF D!BeginDelete
<1>2. PICK p : p = D!Delete
  OBVIOUS
<1>3. /\ p \in Seq(Access) /\ WellFormed(p)
      /\ Ahead(p, "rmchunks") /\ Ahead(p, "rmprofile") /\ Ahead(p, "rmmeta")
      /\ \A do \in Builds : ~Ahead(p, do)
  BY <1>2, DeleteProgram
<1>4. rec[s] \in SourceRecord /\ s \in used
  BY <1>1 DEF SourcesInv, SourcesTypeOK, SourceFilesTypeOK, UnusedAreEmpty
<1>5. PICK th : /\ th \in SourceWork /\ th.src = s /\ th.todo = p
                /\ thread[t] = D!Idle /\ thread' = [thread EXCEPT ![t] = th]
                /\ UNCHANGED <<files, rec, listed, chunks, prof, meta, vec, crashes>>
                /\ requests' = requests + 1
                /\ mixed' = IF \E u \in Thread : thread[u].src = s THEN mixed \cup {s} ELSE mixed
  BY <1>1, <1>2, <1>3, <1>4, SourceBeginning
<1>6. Sound(s, th)'
  <2>1. s \in doomed'
    BY <1>1
  <2>2. RecordGoesLast(s, th.todo)' /\ BuildsOnRecord(s, th.todo)'
    BY <1>3, <1>5 DEF RecordGoesLast, BuildsOnRecord
  <2> QED
    BY <2>1, <2>2 DEF Sound
<1>7. SourceBegins(t, s, th)
  BY <1>1, <1>3, <1>4, <1>5, <1>6 DEF SourceBegins
<1> QED
  BY <1>7, SourcesBegin

LEMMA SourceParses == ASSUME SourcesInv, NEW t \in Thread, D!BeginParse(t) PROVE SourcesInv'
<1>1. PICK s \in files : /\ rec[s] # None /\ D!Begin(t, s, D!Parse, rec[s]) /\ UNCHANGED <<used, doomed>>
  BY DEF D!BeginParse
<1>2. PICK p : p = D!Parse
  OBVIOUS
<1>3. /\ p \in Seq(Access) /\ WellFormed(p) /\ ~AheadSet(p, "parsed") /\ ~AheadSet(p, "indexed")
      /\ \A do \in Act \ {"set", "write", "ids", "list", "parse"} : ~Ahead(p, do)
  BY <1>2, ParseProgram
<1>4. s \in Source /\ rec[s] \in SourceRecord /\ s \in used
  BY <1>1 DEF SourcesInv, SourcesTypeOK, SourceFilesTypeOK, UnusedAreEmpty
<1>5. PICK th : /\ th \in SourceWork /\ th.src = s /\ th.todo = p /\ th.found = rec[s] /\ th.copy = rec[s] /\ th.n = 0
                /\ thread[t] = D!Idle /\ thread' = [thread EXCEPT ![t] = th]
                /\ UNCHANGED <<files, rec, listed, chunks, prof, meta, vec, crashes>>
                /\ requests' = requests + 1
                /\ mixed' = IF \E u \in Thread : thread[u].src = s THEN mixed \cup {s} ELSE mixed
  BY <1>1, <1>2, <1>3, <1>4, SourceBeginning
<1>6. ASSUME Stands(s) PROVE Sound(s, th)'
  <2>1. ~Ahead(p, "rmrecord") /\ ~Ahead(p, "chunk") /\ ~Ahead(p, "chunks") /\ ~Ahead(p, "meta")
    BY <1>3 DEF Act
  <2>2. RecordGoesLast(s, th.todo)' /\ BuildsOnRecord(s, th.todo)' /\ FileComesFirst(s, th.todo)'
    BY <1>1, <1>5, <2>1 DEF RecordGoesLast, BuildsOnRecord, FileComesFirst
  <2>3. IndexIsWhole(s, th)' /\ ChunksFollow(s, th)'
    BY <1>3, <1>5, <2>1 DEF IndexIsWhole, ChunksFollow
  <2>4. s \notin doomed => DocumentStays(s, th)'
    BY <1>1, <1>5, <1>6 DEF DocumentStays, Stands, Backed, Parsed, IndexedAs
  <2> QED
    BY <1>1, <2>2, <2>3, <2>4 DEF Sound
<1>7. \A do \in Removes : ~Ahead(p, do)
  BY <1>3 DEF Removes, Act
<1>8. SourceBegins(t, s, th)
  BY <1>1, <1>3, <1>4, <1>5, <1>6, <1>7 DEF SourceBegins
<1> QED
  BY <1>4, <1>8, SourcesBegin

LEMMA SourceIndexes == ASSUME SourcesInv, NEW t \in Thread, D!BeginIndex(t) PROVE SourcesInv'
<1>1. PICK s \in Source : /\ rec[s] # None /\ rec[s].status = "parsed"
                          /\ D!Begin(t, s, D!Index, rec[s]) /\ UNCHANGED <<used, doomed>>
  BY DEF D!BeginIndex
<1>2. PICK p : p = D!Index
  OBVIOUS
<1>3. /\ p \in Seq(Access) /\ WellFormed(p) /\ ~AheadSet(p, "parsed")
      /\ Ahead(p, "chunks") /\ Ahead(p, "meta")
      /\ \A do \in {"file", "chunk", "parse"} \cup Removes : ~Ahead(p, do)
  BY <1>2, IndexProgram
<1>4. rec[s] \in SourceRecord /\ s \in used
  BY <1>1 DEF SourcesInv, SourcesTypeOK, SourceFilesTypeOK, UnusedAreEmpty
<1>5. PICK th : /\ th \in SourceWork /\ th.src = s /\ th.todo = p /\ th.found = rec[s] /\ th.copy = rec[s] /\ th.n = 0
                /\ thread[t] = D!Idle /\ thread' = [thread EXCEPT ![t] = th]
                /\ UNCHANGED <<files, rec, listed, chunks, prof, meta, vec, crashes>>
                /\ requests' = requests + 1
                /\ mixed' = IF \E u \in Thread : thread[u].src = s THEN mixed \cup {s} ELSE mixed
  BY <1>1, <1>2, <1>3, <1>4, SourceBeginning
<1>6. ASSUME Stands(s) PROVE Sound(s, th)'
  <2>1. ~Ahead(p, "rmrecord") /\ ~Ahead(p, "chunk") /\ ~Ahead(p, "parse")
    BY <1>3 DEF Removes
  <2>2. RecordGoesLast(s, th.todo)' /\ BuildsOnRecord(s, th.todo)'
    BY <1>1, <1>5, <2>1 DEF RecordGoesLast, BuildsOnRecord
  <2>3. ASSUME s \notin doomed
        PROVE  /\ DocumentStays(s, th)' /\ FileComesFirst(s, th.todo)'
               /\ ChunksFollow(s, th)' /\ IndexIsWhole(s, th)'
    <3>1. Parsed(s, rec[s].doc) /\ Backed(s, rec[s]) /\ s \in files
      BY <1>1, <1>6, <2>3 DEF Stands, Backed, Parsed
    <3>2. DocumentStays(s, th)' /\ FileComesFirst(s, th.todo)'
      BY <1>5, <3>1 DEF DocumentStays, FileComesFirst, Backed, Parsed, IndexedAs
    <3>3. ChunksFollow(s, th)'
      BY <1>3, <1>5, <2>1 DEF ChunksFollow
    <3>4. IndexIsWhole(s, th)'
      BY <1>3, <1>5, <3>1 DEF IndexIsWhole, Parsed
    <3> QED
      BY <3>2, <3>3, <3>4
  <2> QED
    BY <1>1, <2>2, <2>3 DEF Sound
<1>7. \A do \in Removes : ~Ahead(p, do)
  BY <1>3
<1>8. SourceBegins(t, s, th)
  BY <1>1, <1>3, <1>4, <1>5, <1>6, <1>7 DEF SourceBegins
<1> QED
  BY <1>8, SourcesBegin

\* The process dies, and every request with it: what stands, stands.
LEMMA SourcesSurviveCrash == ASSUME SourcesInv, D!Crash PROVE SourcesInv'
<1>1. /\ \A t \in Thread : thread'[t].src = None /\ thread'[t].todo = <<>>
      /\ thread' \in [Thread -> SourceWork \cup {D!Idle}]
      /\ UNCHANGED <<files, rec, listed, chunks, prof, meta, vec, used, requests, mixed, doomed>>
      /\ crashes' = crashes + 1
  BY DEF D!Crash, D!Idle, D!store
<1>2. WellFormed(<<>>) /\ \A do : ~Ahead(<<>>, do)
  BY DEF WellFormed, Ahead
<1>3. SourcesTypeOK'
  <2>1. SourceFilesTypeOK' /\ crashes' \in Nat
    BY <1>1 DEF SourcesInv, SourcesTypeOK, SourceFilesTypeOK
  <2> QED
    BY <1>1, <2>1 DEF SourcesInv, SourcesTypeOK
<1>4. SourcesStand'
  BY <1>1 DEF SourcesInv, SourcesStand, Stands, Backed, Parsed, IndexedAs
<1>5. ProgramsAreOrdered'
  BY <1>1, <1>2 DEF ProgramsAreOrdered
<1>6. UnusedAreEmpty' /\ AloneUnlessMixed' /\ RequestsAreSound'
  BY <1>1, DesksAssumption DEF SourcesInv, UnusedAreEmpty, AloneUnlessMixed, RequestsAreSound
<1> QED
  BY <1>3, <1>4, <1>5, <1>6 DEF SourcesInv

LEMMA SourcesStep == SourcesInv /\ D!Next => SourcesInv'
<1> SUFFICES ASSUME SourcesInv, D!Next PROVE SourcesInv'
  OBVIOUS
<1>1. CASE D!Crash
  BY <1>1, SourcesSurviveCrash
<1>2. ASSUME NEW t \in Thread,
             D!BeginUpload(t) \/ D!BeginDelete(t) \/ D!BeginParse(t) \/ D!BeginIndex(t)
      PROVE  SourcesInv'
  BY <1>2, SourceUploads, SourceDeletes, SourceParses, SourceIndexes
<1>3. ASSUME NEW t \in Thread,
             \/ D!Answer(t) \/ D!StoreFile(t) \/ D!SetStatus(t) \/ D!Reload(t)
             \/ D!WriteRecord(t) \/ D!RemoveRecord(t) \/ D!LoadIndex(t) \/ D!SaveIndex(t)
      PROVE  SourcesInv'
  BY <1>3, SourceAnswers, SourceStores, SourceSetsStatus, SourceReloads, SourceWritesRecord,
     SourceRemovesRecord, SourceLoadsIndex, SourceSavesIndex
<1>4. ASSUME NEW t \in Thread,
             \/ D!RunParser(t) \/ D!SaveChunk(t) \/ D!RemoveChunks(t) \/ D!Profile(t)
             \/ D!LoadChunks(t) \/ D!IndexVectors(t) \/ D!IndexMetadata(t)
      PROVE  SourcesInv'
  BY <1>4, SourceRunsParser, SourceSavesChunk, SourceRemovesChunks, SourceProfiles,
     SourceLoadsChunks, SourceIndexesVectors, SourceIndexesMetadata
<1> QED
  BY <1>1, <1>2, <1>3, <1>4 DEF D!Next

LEMMA SourcesRest == SourcesInv /\ UNCHANGED D!vars => SourcesInv'
BY DEF D!vars, D!store, D!history, SourcesInv, SourcesTypeOK, SourceFilesTypeOK, ProgramsAreOrdered,
       UnusedAreEmpty, AloneUnlessMixed, SourcesStand, RequestsAreSound, Stands, Sound, RecordGoesLast,
       BuildsOnRecord, DocumentStays, FileComesFirst, ChunksFollow, IndexIsWhole, Backed, Parsed, IndexedAs

\* What the invariant says of the files.
LEMMA SourcesImply == SourcesInv => D!NothingOutlivesItsRecord /\ D!IndexedIsWhole
<1>1. SourcesInv => D!NothingOutlivesItsRecord
  BY DEF SourcesInv, SourcesStand, Stands, D!NothingOutlivesItsRecord
<1>2. SourcesInv => D!IndexedIsWhole
  <2> SUFFICES ASSUME SourcesInv, NEW s \in Source \ (mixed \cup doomed),
                      rec[s] # None, rec[s].status = "indexed"
               PROVE  s \in files /\ D!Cardinality(chunks[s]) = rec[s].doc.n /\ meta[s] = rec[s].doc.n
    BY Zenon DEF D!IndexedIsWhole
  <2>1. s \in files /\ chunks[s] = 1..rec[s].doc.n /\ meta[s] = rec[s].doc.n
    BY DEF SourcesInv, SourcesStand, Stands, Backed, Parsed, IndexedAs
  <2>2. rec[s].doc.n \in Nat
    BY DesksAssumption DEF SourcesInv, SourcesTypeOK, SourceFilesTypeOK, SourceRecord
  <2>3. Cardinality(1..rec[s].doc.n) = rec[s].doc.n
    <3>1. \A n \in Nat : Cardinality(1..n) = n
      BY FS_Interval
    <3> QED
      BY <2>2, <3>1
  <2> QED
    BY <2>1, <2>3, SourceCardinality
<1> QED
  BY <1>1, <1>2

\* The desk starts so, and keeps so.
LEMMA SourceDeskKeeps ==
    /\ InitSources => SourcesInv
    /\ SourcesInv /\ NextSources => SourcesInv'
BY SourcesStart, SourcesStep DEF InitSources, NextSources

-----------------------------------------------------------------------------
LEMMA SourcesAmongDesks ==
    /\ Init => (desk = "sources" => SourcesInv)
    /\ (desk = "sources" => SourcesInv) /\ [Next]_vars => (desk = "sources" => SourcesInv)'
<1>1. Init /\ desk = "sources" => InitSources
  BY DEF Init, InitReviews, InitConnectors, InitWorkflows, InitRegistries,
         InitGraph, InitClaims, InitRooms, InitStore, InitRules
<1>2. [Next]_vars => desk' = desk /\ (desk = "sources" => NextSources \/ UNCHANGED D!vars)
  BY DEF Next, NextReviews, NextSources, NextConnectors, NextWorkflows, NextRegistries, NextGraph,
         NextClaims, NextRooms, NextStore, vars, shared, ofSources, D!vars, D!store, D!history
<1> QED
  BY <1>1, <1>2, SourceDeskKeeps, SourcesRest

\* However the requests of several threads interleave and wherever the process dies, nothing
\* of a source that is deleted stays behind its record (delete_data_source), unless two
\* requests worked on it at once.
THEOREM NothingOutlivesRecords == Spec => []NothingOutlivesItsRecord
<1>1. (desk = "sources" => SourcesInv) => NothingOutlivesItsRecord
  BY SourcesImply DEF NothingOutlivesItsRecord
<1> QED
  BY <1>1, SourcesAmongDesks, PTL DEF Spec

\* What a record calls indexed is the whole document, in chunks on disk and in the index
\* metadata (parse_data_source, index_data_source), under the same conditions.
THEOREM IndexedSourcesAreWhole == Spec => []IndexedIsWhole
<1>1. (desk = "sources" => SourcesInv) => IndexedIsWhole
  BY SourcesImply DEF IndexedIsWhole
<1> QED
  BY <1>1, SourcesAmongDesks, PTL DEF Spec

-----------------------------------------------------------------------------
(* Connectors and their schedules                                           *)

Schedules(n, cs) ==
    [id : 1..n, c : cs, on : BOOLEAN, every : Nat, next : Nat, last : Nat, made : Nat]

\* What a thread has is of the kind its step calls for; n schedules were made.
HasWhatItNeeds(th, n) ==
    /\ th.due \subseteq Nat \X Schedules(n, Connector)
    /\ th.due # {} => th.op = "sync" /\ th.step \in {"config", "sync", "find", "load", "save"}
    /\ th.step \in {"config", "sync", "find"} =>
        /\ th.op = "sync" /\ th.c \in Connector
        /\ th.s # None => th.s \in Schedules(n, {th.c})
    /\ th.step \in {"load", "save"} => th.c \in Connector /\ th.s \in Schedules(n, {th.c})
    /\ th.step = "save" => th.list \in Seq(Schedules(n, {th.c}))
    /\ th.step = "due" => th.c = None

FilesAre(lists, n) ==
    /\ lists = [c \in Connector |-> lists[c]]
    /\ \A c \in Connector : lists[c] \in Seq(Schedules(n, {c}))

ConnectorsTypeOK ==
    /\ thread = [t \in Thread |-> thread[t]]
    /\ \A t \in Thread : HasWhatItNeeds(thread[t], made)
    /\ made \in 0..MaxSchedules /\ now \in Nat
    /\ FilesAre(file, made)
    /\ ran \in [Connector \X (1..MaxSchedules) -> Nat]
    /\ \A x \in Connector \X (1..MaxSchedules) : ran[x] <= now /\ (x[2] > made => ran[x] = 0)

\* The schedules of a connector, each with an id of its own and the time it is due.
Orderly(list) ==
    /\ \A i, j \in DOMAIN list : list[i].id = list[j].id => i = j
    /\ \A i \in DOMAIN list : list[i].next = C!NextRun(list[i])

\* A schedule says when it was last synced, which a sync it was due for is not after.
TellsOf(s, c, served) == served[<<c, s.id>>] <= s.last
Elapsed(s, c, served, time) == served[<<c, s.id>>] = 0 \/ served[<<c, s.id>>] + s.every <= time
MaySync(id, c, list, served, time) ==
    \A i \in DOMAIN list : list[i].id = id => Elapsed(list[i], c, served, time)

\* What a thread has yet to serve is due, and is there once.
DueAt(due, c, list, served, time) ==
    \A d \in due : d[2].c = c =>
        /\ MaySync(d[2].id, c, list, served, time)
        /\ \A e \in due : e[2].c = c /\ e[2].id = d[2].id => e = d

ServingFits(th, c, list, served, time) ==
    /\ MaySync(th.s.id, c, list, served, time)
    /\ \A d \in th.due : d[2].c = c => d[2].id # th.s.id
LoadingFits(th, c, list, served) ==
    /\ th.op # "delete" => TellsOf(th.s, c, served)
    /\ th.op = "create" => \A i \in DOMAIN list : list[i].id # th.s.id
    /\ th.op = "sync" => \A i \in DOMAIN list : list[i].id = th.s.id => list[i].every = th.s.every
SavingFits(th, c, list, served) ==
    /\ Orderly(th.list)
    /\ \A i \in DOMAIN th.list : TellsOf(th.list[i], c, served)
    /\ th.op = "sync" => \A i \in DOMAIN th.list : \E j \in DOMAIN list :
          th.list[i].id = list[j].id /\ th.list[i].every = list[j].every

\* What a thread holds fits connector c, whose file and syncs these are.
Fits(th, c, list, served, time) ==
    /\ DueAt(th.due, c, list, served, time)
    /\ th.c = c =>
        /\ th.step \in {"config", "sync", "find"} /\ th.s # None => ServingFits(th, c, list, served, time)
        /\ th.step = "load" => LoadingFits(th, c, list, served)
        /\ th.step = "save" => SavingFits(th, c, list, served)

\* A file tells of the syncs there were, or who made the last one is about to write it.
Serves(th, c, id) == th.op = "sync" /\ th.step \in {"load", "save"} /\ th.c = c /\ th.s.id = id
FileTells(c, list, threads, served) ==
    /\ Orderly(list)
    /\ \A i \in DOMAIN list :
        TellsOf(list[i], c, served) \/ \E t \in Thread : Serves(threads[t], c, list[i].id)

WorkAlone(c, threads) ==
    \A t, u \in Thread : C!Works(threads[t], c) /\ C!Works(threads[u], c) => t = u

ConnectorsInv ==
    /\ ConnectorsTypeOK
    /\ \A c \in Connector \ mixed :
        /\ FileTells(c, file[c], thread, ran) /\ WorkAlone(c, thread)
        /\ \A t \in Thread : Fits(thread[t], c, file[c], ran, now)

-----------------------------------------------------------------------------

LEMMA WaitingIs ==
    ASSUME NEW op, NEW step, NEW c, NEW ids
    PROVE  LET th == C!Configuring(op, step, c, ids) IN
           th.op = op /\ th.step = step /\ th.c = c /\ th.ids = ids /\ th.due = {}
BY DEF C!Configuring

LEMMA WorkingIs ==
    ASSUME NEW op, NEW step, NEW c, NEW s, NEW list, NEW due
    PROVE  LET th == C!Doing(op, step, c, s, list, due) IN
           th.op = op /\ th.step = step /\ th.c = c /\ th.s = s /\ th.list = list /\ th.due = due
BY DEF C!Doing

LEMMA NextRunIsTime ==
    ASSUME NEW n \in Nat, NEW cs, NEW s \in Schedules(n, cs)
    PROVE  C!NextRun(s) \in Nat
BY DEF Schedules, C!NextRun

LEMMA WithNextIs ==
    ASSUME NEW n \in Nat, NEW cs, NEW s \in Schedules(n, cs)
    PROVE  LET r == C!WithNext(s) IN
           /\ r \in Schedules(n, cs) /\ r.id = s.id /\ r.c = s.c /\ r.every = s.every /\ r.last = s.last
           /\ r.next = C!NextRun(r)
<1> DEFINE next == C!NextRun(s)
           r == [s EXCEPT !.next = next]
<1>1. next \in Nat
  BY NextRunIsTime
<1> HIDE DEF next
<1>2. /\ r \in Schedules(n, cs) /\ r.id = s.id /\ r.c = s.c /\ r.on = s.on /\ r.every = s.every
      /\ r.last = s.last /\ r.made = s.made /\ r.next = next
  BY <1>1 DEF Schedules
<1> HIDE DEF r
<1>3. C!NextRun(r) = C!NextRun(s)
  BY <1>2 DEF C!NextRun
<1>4. C!WithNext(s) = r
  BY Zenon DEF C!WithNext, r, next
<1> QED
  BY <1>2, <1>3, <1>4 DEF next

LEMMA SchedulesGrow ==
    ASSUME NEW n \in Nat, NEW m \in Nat, n <= m
    PROVE  /\ \A cs : Schedules(n, cs) \subseteq Schedules(m, cs)
           /\ \A cs : Seq(Schedules(n, cs)) \subseteq Seq(Schedules(m, cs))
           /\ \A th : HasWhatItNeeds(th, n) => HasWhatItNeeds(th, m)
<1>1. \A cs : Schedules(n, cs) \subseteq Schedules(m, cs)
  BY DEF Schedules
<1>2. \A A, B : A \subseteq B => Seq(A) \subseteq Seq(B)
  OBVIOUS
<1>3. ASSUME NEW th, HasWhatItNeeds(th, n) PROVE HasWhatItNeeds(th, m)
  <2>1. th.due \subseteq Nat \X Schedules(m, Connector)
    BY <1>1, <1>3 DEF HasWhatItNeeds
  <2>2. th.step = "save" => th.list \in Seq(Schedules(m, {th.c}))
    BY <1>1, <1>2, <1>3 DEF HasWhatItNeeds
  <2> QED
    BY <1>1, <1>3, <2>1, <2>2 DEF HasWhatItNeeds
<1> QED
  BY <1>1, <1>2, <1>3

\* What a thread has to serve next, if anything.
LEMMA ThreadGoesOn ==
    ASSUME NEW t \in Thread, NEW due, NEW c, C!GoesOn(t, due, c),
           NEW n \in Nat, due \subseteq Nat \X Schedules(n, Connector)
    PROVE  \E th :
             /\ thread' = [thread EXCEPT ![t] = th] /\ HasWhatItNeeds(th, n)
             /\ \A k, id : ~Serves(th, k, id)
             /\ \A k \in Connector : C!Works(th, k) => \E d \in due : d[2].c = k
             /\ \A k \in Connector : \A list, served, time :
                   DueAt(due, k, list, served, time) => Fits(th, k, list, served, time)
<1>1. CASE due = {} /\ C!Goto(t, C!Idle)
  <2>1. PICK th : th = C!Idle
    OBVIOUS
  <2>2. th.step = "-" /\ th.op = "-" /\ th.due = {}
    BY <2>1, WaitingIs DEF C!Idle
  <2>3. thread' = [thread EXCEPT ![t] = th]
    BY <1>1, <2>1, Zenon DEF C!Goto
  <2> QED
    BY <2>2, <2>3 DEF HasWhatItNeeds, Serves, C!Works, Fits, DueAt
<1>2. CASE \E d \in C!Upcoming(due, c) : C!Goto(t, C!Serve(d[2], due \ {d}))
  <2>1. PICK d \in due : C!Goto(t, C!Serve(d[2], due \ {d}))
    BY <1>2 DEF C!Upcoming
  <2>2. PICK s \in Schedules(n, Connector) : s = d[2]
    OBVIOUS
  <2>3. PICK th : th = C!Serve(s, due \ {d})
    OBVIOUS
  <2>4. /\ th.op = "sync" /\ th.step = "config" /\ th.c = s.c /\ th.s = s /\ th.due = due \ {d}
    BY <2>3, WorkingIs DEF C!Serve
  <2>5. thread' = [thread EXCEPT ![t] = th]
    BY <2>1, <2>2, <2>3, Zenon DEF C!Goto
  <2>6. s \in Schedules(n, {s.c}) /\ s.c \in Connector /\ s.c # None
    BY DesksAssumption DEF Schedules
  <2>7. HasWhatItNeeds(th, n)
    BY <2>4, <2>6 DEF HasWhatItNeeds
  <2>8. \A k \in Connector : C!Works(th, k) => \E e \in due : e[2].c = k
    BY <2>2, <2>4, <2>6 DEF C!Works
  <2>9. ASSUME NEW k \in Connector, NEW list, NEW served, NEW time, DueAt(due, k, list, served, time)
        PROVE  Fits(th, k, list, served, time)
    <3>1. DueAt(th.due, k, list, served, time)
      BY <2>4, <2>9 DEF DueAt
    <3>2. th.c = k => ServingFits(th, k, list, served, time)
      BY <2>2, <2>4, <2>9 DEF DueAt, ServingFits
    <3> QED
      BY <2>4, <3>1, <3>2 DEF Fits
  <2> QED
    BY <2>4, <2>5, <2>7, <2>8, <2>9 DEF Serves
<1> QED
  BY <1>1, <1>2 DEF C!GoesOn

LEMMA FitsStay ==
    ASSUME NEW th, NEW c \in Connector, NEW n \in 0..MaxSchedules, NEW list \in Seq(Schedules(n, {c})),
           NEW served, NEW since, NEW time, HasWhatItNeeds(th, n),
           \A m \in 1..MaxSchedules : since[<<c, m>>] = served[<<c, m>>],
           Fits(th, c, list, served, time)
    PROVE  Fits(th, c, list, since, time)
<1>1. \A s \in Schedules(n, {c}) : since[<<c, s.id>>] = served[<<c, s.id>>]
  BY DesksAssumption DEF Schedules
<1>2. \A i \in DOMAIN list : list[i] \in Schedules(n, {c})
  OBVIOUS
<1>3. \A id : MaySync(id, c, list, served, time) => MaySync(id, c, list, since, time)
  BY <1>1, <1>2 DEF MaySync, Elapsed
<1>4. DueAt(th.due, c, list, since, time)
  BY <1>3 DEF Fits, DueAt
<1>5. ASSUME th.c = c, th.step = "load" PROVE LoadingFits(th, c, list, since)
  BY <1>1, <1>5 DEF Fits, LoadingFits, HasWhatItNeeds, TellsOf
<1>6. ASSUME th.c = c, th.step = "save" PROVE SavingFits(th, c, list, since)
  <2>1. \A i \in DOMAIN th.list : th.list[i] \in Schedules(n, {c})
    BY <1>6 DEF HasWhatItNeeds
  <2> QED
    BY <1>1, <1>6, <2>1 DEF Fits, SavingFits, TellsOf
<1> QED
  BY <1>3, <1>4, <1>5, <1>6 DEF Fits, ServingFits

\* What one thread does to the connectors it works on, no other notices.
LEMMA ConnectorsMove ==
    ASSUME ConnectorsInv, NEW t \in Thread, NEW th, thread' = [thread EXCEPT ![t] = th],
           mixed \subseteq mixed', made' \in 0..MaxSchedules, made <= made', now' = now,
           HasWhatItNeeds(th, made'),
           FilesAre(file', made'),
           ran' \in [Connector \X (1..MaxSchedules) -> Nat],
           \A x \in Connector \X (1..MaxSchedules) : ran'[x] <= now /\ (x[2] > made' => ran'[x] = 0),
           \A c \in Connector \ mixed' :
             /\ Fits(th, c, file'[c], ran', now)
             /\ C!Works(th, c) => C!Works(thread[t], c) \/ \A u \in Thread : ~C!Works(thread[u], c)
             /\ IF C!Works(thread[t], c) THEN FileTells(c, file'[c], thread', ran')
                ELSE /\ file'[c] = file[c]
                     /\ \A n \in 1..MaxSchedules : ran'[<<c, n>>] = ran[<<c, n>>]
    PROVE  ConnectorsInv'
<1>1. \A u \in Thread : thread'[u] = IF u = t THEN th ELSE thread[u]
  BY DEF ConnectorsInv, ConnectorsTypeOK
<1>2. ConnectorsTypeOK'
  <2>1. \A u \in Thread : HasWhatItNeeds(thread[u], made')
    BY SchedulesGrow DEF ConnectorsInv, ConnectorsTypeOK
  <2>2. thread' = [u \in Thread |-> thread'[u]]
    BY DEF ConnectorsInv, ConnectorsTypeOK
  <2>3. \A u \in Thread : HasWhatItNeeds(thread'[u], made')
    BY <1>1, <2>1
  <2> QED
    BY <2>2, <2>3 DEF ConnectorsInv, ConnectorsTypeOK
<1>3. ASSUME NEW c \in Connector \ mixed'
      PROVE  /\ FileTells(c, file'[c], thread', ran') /\ WorkAlone(c, thread')
             /\ \A u \in Thread : Fits(thread'[u], c, file'[c], ran', now)
  <2>1. /\ FileTells(c, file[c], thread, ran) /\ WorkAlone(c, thread)
        /\ \A u \in Thread : Fits(thread[u], c, file[c], ran, now)
    BY DEF ConnectorsInv
  <2>2. WorkAlone(c, thread')
    BY <1>1, <2>1 DEF WorkAlone
  <2>3. CASE C!Works(thread[t], c)
    <3>1. ASSUME NEW u \in Thread, u # t PROVE Fits(thread[u], c, file'[c], ran', now)
      <4>1. ~C!Works(thread[u], c)
        BY <2>1, <2>3, <3>1 DEF WorkAlone
      <4>2. HasWhatItNeeds(thread[u], made)
        BY DEF ConnectorsInv, ConnectorsTypeOK
      <4>3. ~\E d \in thread[u].due : d[2].c = c
        BY <4>1, <4>2 DEF C!Works, HasWhatItNeeds
      <4> QED
        BY <4>1, <4>3 DEF C!Works, Fits, DueAt
    <3>2. FileTells(c, file'[c], thread', ran') /\ Fits(th, c, file'[c], ran', now)
      BY <2>3
    <3>3. \A u \in Thread : Fits(thread'[u], c, file'[c], ran', now)
      BY <1>1, <3>1, <3>2
    <3> QED
      BY <2>2, <3>2, <3>3
  <2>4. CASE ~C!Works(thread[t], c)
    <3>1. file'[c] = file[c] /\ \A n \in 1..MaxSchedules : ran'[<<c, n>>] = ran[<<c, n>>]
      BY <2>4
    <3>2. file[c] \in Seq(Schedules(made, {c})) /\ made \in 0..MaxSchedules
      BY DEF ConnectorsInv, ConnectorsTypeOK, FilesAre
    <3>3. \A u \in Thread : Fits(thread[u], c, file[c], ran', now)
      BY <2>1, <3>1, <3>2, FitsStay DEF ConnectorsInv, ConnectorsTypeOK
    <3>4. \A id : ~Serves(thread[t], c, id)
      BY <2>4 DEF Serves, C!Works
    <3>5. \A i \in DOMAIN file[c] : file[c][i].id \in 1..MaxSchedules
      <4>1. \A s \in Schedules(made, {c}) : s.id \in 1..MaxSchedules
        BY <3>2, DesksAssumption DEF Schedules
      <4>2. \A i \in DOMAIN file[c] : file[c][i] \in Schedules(made, {c})
        BY <3>2
      <4> QED
        BY <4>1, <4>2
    <3>6. \A i \in DOMAIN file[c] : TellsOf(file[c][i], c, ran) => TellsOf(file[c][i], c, ran')
      BY <3>1, <3>5 DEF TellsOf
    <3>7. \A id : (\E u \in Thread : Serves(thread[u], c, id)) => \E u \in Thread : Serves(thread'[u], c, id)
      BY <1>1, <3>4
    <3>8. FileTells(c, file'[c], thread', ran')
      BY <2>1, <3>1, <3>6, <3>7 DEF FileTells
    <3>9. \A u \in Thread : Fits(thread'[u], c, file'[c], ran', now)
      BY <1>1, <3>1, <3>3
    <3> QED
      BY <2>2, <3>8, <3>9
  <2> QED
    BY <2>3, <2>4
<1> QED
  BY <1>2, <1>3 DEF ConnectorsInv

\* A step that leaves the files and the clock alone.
LEMMA ConnectorsGoOn ==
    ASSUME ConnectorsInv, NEW t \in Thread, NEW th, thread' = [thread EXCEPT ![t] = th],
           UNCHANGED <<file, ran, made, now, mixed>>, HasWhatItNeeds(th, made),
           \A c \in Connector \ mixed :
             /\ Fits(th, c, file[c], ran, now)
             /\ C!Works(th, c) => C!Works(thread[t], c)
             /\ \A i \in DOMAIN file[c] :
                   Serves(thread[t], c, file[c][i].id) => Serves(th, c, file[c][i].id)
    PROVE  ConnectorsInv'
<1>1. \A u \in Thread : thread'[u] = IF u = t THEN th ELSE thread[u]
  BY DEF ConnectorsInv, ConnectorsTypeOK
<1>2. ASSUME NEW c \in Connector \ mixed PROVE FileTells(c, file[c], thread', ran)
  <2>1. FileTells(c, file[c], thread, ran)
    BY DEF ConnectorsInv
  <2>2. ASSUME NEW i \in DOMAIN file[c], NEW u \in Thread, Serves(thread[u], c, file[c][i].id)
        PROVE  \E v \in Thread : Serves(thread'[v], c, file[c][i].id)
    BY <1>1, <2>2
  <2> QED
    BY <2>1, <2>2 DEF FileTells
<1>3. /\ made' \in 0..MaxSchedules /\ made <= made'
      /\ FilesAre(file', made')
      /\ ran' \in [Connector \X (1..MaxSchedules) -> Nat]
      /\ \A x \in Connector \X (1..MaxSchedules) : ran'[x] <= now /\ (x[2] > made' => ran'[x] = 0)
  BY DesksAssumption DEF ConnectorsInv, ConnectorsTypeOK
<1> QED
  BY <1>2, <1>3, ConnectorsMove

-----------------------------------------------------------------------------

LEMMA ConnectorsStart == C!Init => ConnectorsInv
<1> SUFFICES ASSUME C!Init PROVE ConnectorsInv
  OBVIOUS
<1>1. \A t \in Thread : thread[t].step = "-" /\ thread[t].due = {}
  BY WaitingIs DEF C!Init, C!Idle
<1>2. \A c \in Connector : file[c] = <<>>
  BY DEF C!Init
<1>3. ConnectorsTypeOK
  BY <1>1, DesksAssumption DEF C!Init, ConnectorsTypeOK, HasWhatItNeeds, FilesAre
<1>4. \A c \in Connector : FileTells(c, file[c], thread, ran)
  BY <1>2 DEF FileTells, Orderly
<1>5. \A c \in Connector : WorkAlone(c, thread)
  BY <1>1 DEF WorkAlone, C!Works
<1>6. \A c \in Connector, t \in Thread : Fits(thread[t], c, file[c], ran, now)
  BY <1>1 DEF Fits, DueAt
<1> QED
  BY <1>3, <1>4, <1>5, <1>6 DEF ConnectorsInv

\* A request finds connectors that nobody works on, or that are mixed from now on.
LEMMA ConnectorsBegin ==
    ASSUME ConnectorsInv, NEW t \in Thread, NEW c, NEW th, C!Begin(t, c, th),
           th.c = c, th.due = {}, made' \in 0..MaxSchedules, made <= made',
           HasWhatItNeeds(th, made'),
           \A k \in Connector \ mixed' : Fits(th, k, file[k], ran, now)
    PROVE  ConnectorsInv'
<1>1. /\ thread' = [thread EXCEPT ![t] = th] /\ UNCHANGED <<file, ran, now>>
      /\ mixed' = mixed \cup {k \in Connector : c \in {k, None} /\ \E u \in Thread : C!WorksOn(u, k)}
  BY Zenon DEF C!Begin, C!Goto, C!disk
<1>2. thread[t].step = "-"
  BY WaitingIs DEF C!Begin, C!Idle
<1>3. \A k \in Connector \ mixed' :
         /\ ~C!Works(thread[t], k)
         /\ C!Works(th, k) => \A u \in Thread : ~C!Works(thread[u], k)
  BY <1>1, <1>2 DEF C!Works, C!WorksOn
<1>4. FilesAre(file', made')
  <2>1. \A cs : Seq(Schedules(made, cs)) \subseteq Seq(Schedules(made', cs))
    BY SchedulesGrow DEF ConnectorsInv, ConnectorsTypeOK
  <2> QED
    BY <1>1, <2>1 DEF ConnectorsInv, ConnectorsTypeOK, FilesAre
<1>5. /\ ran' \in [Connector \X (1..MaxSchedules) -> Nat]
      /\ \A x \in Connector \X (1..MaxSchedules) : ran'[x] <= now /\ (x[2] > made' => ran'[x] = 0)
  BY <1>1, DesksAssumption DEF ConnectorsInv, ConnectorsTypeOK
<1>6. mixed \subseteq mixed'
  BY <1>1
<1> QED
  BY <1>1, <1>3, <1>4, <1>5, <1>6, ConnectorsMove

\* What is on file for a connector nobody works on tells of its syncs.
LEMMA BeginningIsTold ==
    ASSUME ConnectorsInv, NEW t \in Thread, NEW c \in Connector, NEW th, C!Begin(t, c, th), c \notin mixed',
           NEW i \in DOMAIN file[c]
    PROVE  TellsOf(file[c][i], c, ran)
<1>1. mixed' = mixed \cup {k \in Connector : c \in {k, None} /\ \E u \in Thread : C!WorksOn(u, k)}
  BY Zenon DEF C!Begin
<1>2. c \notin mixed /\ \A u \in Thread : ~C!Works(thread[u], c)
  BY <1>1 DEF C!WorksOn
<1>3. FileTells(c, file[c], thread, ran)
  BY <1>2 DEF ConnectorsInv
<1>4. \A u \in Thread : ~Serves(thread[u], c, file[c][i].id)
  BY <1>2 DEF Serves, C!Works
<1> QED
  BY <1>3, <1>4 DEF FileTells, Orderly

LEMMA ConfigsBegin ==
    ASSUME ConnectorsInv, NEW t \in Thread, C!CreateConfig(t) \/ C!UpdateConfig(t) \/ C!RemoveConfig(t)
    PROVE  ConnectorsInv'
<1>1. PICK c, op : C!Begin(t, c, C!Configuring(op, "write", c, {})) /\ made' = made
  BY Zenon DEF C!CreateConfig, C!UpdateConfig, C!RemoveConfig
<1>2. PICK th : th = C!Configuring(op, "write", c, {})
  OBVIOUS
<1>3. th.op = op /\ th.step = "write" /\ th.c = c /\ th.due = {}
  BY <1>2, WaitingIs
<1>4. C!Begin(t, c, th)
  BY <1>1, <1>2, Zenon
<1>5. HasWhatItNeeds(th, made') /\ \A k \in Connector : Fits(th, k, file[k], ran, now)
  BY <1>3 DEF HasWhatItNeeds, Fits, DueAt
<1>6. made' \in 0..MaxSchedules /\ made <= made'
  BY <1>1 DEF ConnectorsInv, ConnectorsTypeOK
<1> QED
  BY <1>3, <1>4, <1>5, <1>6, ConnectorsBegin

LEMMA SyncsBegin ==
    ASSUME ConnectorsInv, NEW t \in Thread, C!TriggerSync(t) \/ C!RunDue(t)
    PROVE  ConnectorsInv'
<1>1. PICK c, op, step : /\ C!Begin(t, c, C!Doing(op, step, c, None, <<>>, {})) /\ made' = made
                         /\ \/ c \in Connector /\ op = "sync" /\ step = "config"
                            \/ c = None /\ step = "due"
  BY Zenon DEF C!TriggerSync, C!RunDue
<1>2. PICK th : th = C!Doing(op, step, c, None, <<>>, {})
  OBVIOUS
<1>3. th.op = op /\ th.step = step /\ th.c = c /\ th.s = None /\ th.due = {}
  BY <1>2, WorkingIs
<1>4. C!Begin(t, c, th)
  BY <1>1, <1>2, Zenon
<1>5. HasWhatItNeeds(th, made') /\ \A k \in Connector : Fits(th, k, file[k], ran, now)
  BY <1>1, <1>3 DEF HasWhatItNeeds, Fits, DueAt
<1>6. made' \in 0..MaxSchedules /\ made <= made'
  BY <1>1 DEF ConnectorsInv, ConnectorsTypeOK
<1> QED
  BY <1>3, <1>4, <1>5, <1>6, ConnectorsBegin

\* A schedule that was made or read to be changed.
LEMMA ChangesBegin ==
    ASSUME ConnectorsInv, NEW t \in Thread, NEW c \in Connector, NEW op \in {"create", "update", "delete"}, NEW s,
           C!Begin(t, c, C!Changing(op, c, s)),
           made' \in 0..MaxSchedules, made <= made', s \in Schedules(made', {c}),
           op # "delete" /\ c \notin mixed' => TellsOf(s, c, ran),
           op = "create" => \A i \in DOMAIN file[c] : file[c][i].id # s.id
    PROVE  ConnectorsInv'
<1>1. PICK th : th = C!Changing(op, c, s)
  OBVIOUS
<1>2. th.op = op /\ th.step = "load" /\ th.c = c /\ th.s = s /\ th.due = {}
  BY <1>1, WorkingIs DEF C!Changing
<1>3. C!Begin(t, c, th)
  BY <1>1, Zenon
<1>4. HasWhatItNeeds(th, made')
  BY <1>2 DEF HasWhatItNeeds
<1>5. c \notin mixed' => LoadingFits(th, c, file[c], ran)
  BY <1>2 DEF LoadingFits
<1>6. \A k \in Connector \ mixed' : Fits(th, k, file[k], ran, now)
  BY <1>2, <1>5 DEF Fits, DueAt
<1> QED
  BY <1>2, <1>3, <1>4, <1>6, ConnectorsBegin

LEMMA SchedulesBegin ==
    ASSUME ConnectorsInv, NEW t \in Thread,
           C!CreateSchedule(t) \/ C!EditSchedule(t) \/ C!ToggleSchedule(t) \/ C!DeleteSchedule(t)
    PROVE  ConnectorsInv'
<1>1. made \in 0..MaxSchedules /\ MaxSchedules \in Nat /\ now \in Nat /\ Every \subseteq Nat
  BY DesksAssumption DEF ConnectorsInv, ConnectorsTypeOK
<1>2. \A c \in Connector : \A i \in DOMAIN file[c] : file[c][i] \in Schedules(made, {c})
  BY DEF ConnectorsInv, ConnectorsTypeOK, FilesAre
<1>3. made \in Nat
  BY <1>1
<1>4. CASE C!CreateSchedule(t)
  <2>1. PICK c \in Connector, every \in Every, on \in BOOLEAN :
            /\ made < MaxSchedules /\ made' = made + 1
            /\ C!Begin(t, c, C!Changing("create", c,
                 [id |-> made + 1, c |-> c, on |-> on, every |-> every,
                  next |-> 0, last |-> 0, made |-> now]))
    BY <1>4, Zenon DEF C!CreateSchedule
  <2>2. PICK s : s = [id |-> made + 1, c |-> c, on |-> on, every |-> every,
                      next |-> 0, last |-> 0, made |-> now]
    OBVIOUS
  <2>3. C!Begin(t, c, C!Changing("create", c, s))
    BY <2>1, <2>2, Zenon
  <2>4. s \in Schedules(made', {c}) /\ s.id = made + 1 /\ s.last = 0
    BY <1>1, <2>1, <2>2 DEF Schedules
  <2>5. \A i \in DOMAIN file[c] : file[c][i].id # s.id
    BY <1>1, <1>2, <2>4 DEF Schedules
  <2>6. TellsOf(s, c, ran)
    <3>1. <<c, made + 1>> \in Connector \X (1..MaxSchedules)
      BY <1>1, <2>1
    <3>2. ran[<<c, made + 1>>] = 0
      BY <1>1, <3>1 DEF ConnectorsInv, ConnectorsTypeOK
    <3> QED
      BY <2>4, <3>2 DEF TellsOf
  <2>7. made' \in 0..MaxSchedules /\ made <= made'
    BY <1>1, <2>1
  <2> QED
    BY <2>3, <2>4, <2>5, <2>6, <2>7, ChangesBegin
<1>5. ASSUME NEW c \in Connector, NEW i \in DOMAIN file[c], NEW every \in Every, made' = made,
             C!Begin(t, c, C!Changing("update", c, [file[c][i] EXCEPT !.every = every]))
      PROVE  ConnectorsInv'
  <2>1. PICK r \in Schedules(made, {c}) : r = file[c][i]
    BY <1>2
  <2>2. PICK s : s = [r EXCEPT !.every = every]
    OBVIOUS
  <2>3. every \in Nat
    BY <1>1
  <2>4. s \in Schedules(made, {c}) /\ s.id = r.id /\ s.last = r.last
    BY <1>3, <2>2, <2>3 DEF Schedules
  <2>5. C!Begin(t, c, C!Changing("update", c, s))
    BY <1>5, <2>1, <2>2, Zenon
  <2>6. c \notin mixed' => TellsOf(s, c, ran)
    BY <2>1, <2>4, <2>5, BeginningIsTold DEF TellsOf
  <2> QED
    BY <1>1, <1>5, <2>4, <2>5, <2>6, ChangesBegin
<1>6. ASSUME NEW c \in Connector, NEW i \in DOMAIN file[c], made' = made,
             C!Begin(t, c, C!Changing("update", c, C!WithNext([file[c][i] EXCEPT !.on = ~@])))
      PROVE  ConnectorsInv'
  <2>1. PICK r \in Schedules(made, {c}) : r = file[c][i]
    BY <1>2
  <2>2. PICK flipped : flipped = [r EXCEPT !.on = ~@]
    OBVIOUS
  <2>3. flipped \in Schedules(made, {c}) /\ flipped.id = r.id /\ flipped.last = r.last
    BY <1>3, <2>2 DEF Schedules
  <2>4. PICK s : s = C!WithNext(flipped)
    OBVIOUS
  <2>5. s \in Schedules(made, {c}) /\ s.id = r.id /\ s.last = r.last
    BY <1>1, <2>3, <2>4, WithNextIs
  <2>6. C!Begin(t, c, C!Changing("update", c, s))
    BY <1>6, <2>1, <2>2, <2>4, Zenon
  <2>7. c \notin mixed' => TellsOf(s, c, ran)
    BY <2>1, <2>5, <2>6, BeginningIsTold DEF TellsOf
  <2> QED
    BY <1>1, <1>6, <2>5, <2>6, <2>7, ChangesBegin
<1>7. ASSUME NEW c \in Connector, NEW i \in DOMAIN file[c], made' = made,
             C!Begin(t, c, C!Changing("delete", c, file[c][i]))
      PROVE  ConnectorsInv'
  <2>1. PICK s \in Schedules(made, {c}) : s = file[c][i]
    BY <1>2
  <2>2. C!Begin(t, c, C!Changing("delete", c, s))
    BY <1>7, <2>1, Zenon
  <2> QED
    BY <1>1, <1>7, <2>2, ChangesBegin
<1>8. CASE C!EditSchedule(t)
  BY <1>5, <1>8, Zenon DEF C!EditSchedule
<1>9. CASE C!ToggleSchedule(t)
  BY <1>6, <1>9, Zenon DEF C!ToggleSchedule
<1>10. CASE C!DeleteSchedule(t)
  BY <1>7, <1>10, Zenon DEF C!DeleteSchedule
<1> QED
  BY <1>4, <1>8, <1>9, <1>10

-----------------------------------------------------------------------------

\* Who lists what is due works on every connector, and so alone on those not mixed.
LEMMA DueIsDue ==
    ASSUME ConnectorsInv, NEW t \in Thread, thread[t].step = "due", NEW c \in Connector \ mixed
    PROVE  DueAt(C!Due, c, file[c], ran, now)
<1>1. FileTells(c, file[c], thread, ran) /\ WorkAlone(c, thread)
  BY DEF ConnectorsInv
<1>2. C!Works(thread[t], c)
  BY DEF ConnectorsInv, ConnectorsTypeOK, HasWhatItNeeds, C!Works
<1>3. \A i \in DOMAIN file[c] : TellsOf(file[c][i], c, ran)
  <2>1. ASSUME NEW u \in Thread, NEW id PROVE ~Serves(thread[u], c, id)
    BY <1>1, <1>2 DEF WorkAlone, Serves, C!Works
  <2> QED
    BY <1>1, <2>1 DEF FileTells
<1>4. PICK list : list = file[c]
  OBVIOUS
<1>5. list \in Seq(Schedules(made, {c})) /\ made \in 0..MaxSchedules /\ now \in Nat
  BY <1>4 DEF ConnectorsInv, ConnectorsTypeOK, FilesAre
<1>6. \A i \in DOMAIN list : list[i] \in Schedules(made, {c})
  BY <1>5
<1>7. ASSUME NEW i \in DOMAIN list, C!IsDue(list[i], now) PROVE Elapsed(list[i], c, ran, now)
  <2>1. PICK s \in Schedules(made, {c}) : s = list[i]
    BY <1>6
  <2>2. TellsOf(s, c, ran) /\ s.next = C!NextRun(s)
    BY <1>1, <1>3, <1>4, <2>1 DEF FileTells, Orderly
  <2>3. PICK last \in Nat : last = ran[<<c, s.id>>]
    <3>1. s.id \in 1..MaxSchedules
      BY <1>5, DesksAssumption DEF Schedules
    <3>2. <<c, s.id>> \in Connector \X (1..MaxSchedules)
      BY <3>1
    <3> QED
      BY <3>2 DEF ConnectorsInv, ConnectorsTypeOK
  <2>4. C!IsDue(s, now)
    BY <1>7, <2>1
  <2>5. s.on /\ C!NextRun(s) # 0 /\ C!NextRun(s) <= now
    <3>1. C!NextRun(s) \in Nat
      BY <1>5, NextRunIsTime
    <3> QED
      BY <1>5, <2>2, <2>4, <3>1 DEF C!IsDue
  <2>6. s.every \in Nat /\ s.last \in Nat /\ s.made \in Nat
    BY DEF Schedules
  <2>7. (IF s.last = 0 THEN s.made ELSE s.last) + s.every <= now
    BY <2>5 DEF C!NextRun
  <2>8. last <= s.last
    BY <2>2, <2>3 DEF TellsOf
  <2>9. last = 0 \/ last + s.every <= now
    BY <1>5, <2>3, <2>6, <2>7, <2>8
  <2> QED
    BY <2>1, <2>3, <2>9 DEF Elapsed
<1>8. ASSUME NEW d \in C!Due, d[2].c = c
      PROVE  \E i \in DOMAIN list : d = <<i, list[i]>> /\ C!IsDue(list[i], now)
  <2>1. PICK k \in Connector : \E i \in DOMAIN file[k] : d = <<i, file[k][i]>> /\ C!IsDue(d[2], now)
    BY DEF C!Due
  <2>2. PICK i \in DOMAIN file[k] : d = <<i, file[k][i]>> /\ C!IsDue(d[2], now)
    BY <2>1
  <2>3. file[k][i] \in Schedules(made, {k})
    BY DEF ConnectorsInv, ConnectorsTypeOK, FilesAre
  <2>4. file[k][i].c = k
    BY <2>3 DEF Schedules
  <2> QED
    BY <1>4, <1>8, <2>2, <2>4
<1>9. \A i, j \in DOMAIN list : list[i].id = list[j].id => i = j
  BY <1>1, <1>4 DEF FileTells, Orderly
<1>10. ASSUME NEW d \in C!Due, d[2].c = c
       PROVE  /\ MaySync(d[2].id, c, list, ran, now)
              /\ \A e \in C!Due : e[2].c = c /\ e[2].id = d[2].id => e = d
  <2>1. PICK i \in DOMAIN list : d = <<i, list[i]>> /\ C!IsDue(list[i], now)
    BY <1>8, <1>10
  <2>2. MaySync(d[2].id, c, list, ran, now)
    BY <1>7, <1>9, <2>1 DEF MaySync
  <2>3. ASSUME NEW e \in C!Due, e[2].c = c, e[2].id = d[2].id PROVE e = d
    <3>1. PICK j \in DOMAIN list : e = <<j, list[j]>> /\ C!IsDue(list[j], now)
      BY <1>8, <2>3
    <3> QED
      BY <1>9, <2>1, <2>3, <3>1
  <2> QED
    BY <2>2, <2>3
<1> QED
  BY <1>4, <1>10 DEF DueAt

LEMMA DueIsOnFile ==
    ASSUME ConnectorsInv
    PROVE  C!Due \subseteq Nat \X Schedules(made, Connector)
<1> SUFFICES ASSUME NEW d \in C!Due PROVE d \in Nat \X Schedules(made, Connector)
  OBVIOUS
<1>1. PICK k \in Connector : \E i \in DOMAIN file[k] : d = <<i, file[k][i]>>
  BY DEF C!Due
<1>2. PICK i \in DOMAIN file[k] : d = <<i, file[k][i]>>
  BY <1>1
<1>3. file[k] \in Seq(Schedules(made, {k}))
  BY DEF ConnectorsInv, ConnectorsTypeOK, FilesAre
<1>4. i \in Nat /\ file[k][i] \in Schedules(made, {k})
  BY <1>3
<1>5. Schedules(made, {k}) \subseteq Schedules(made, Connector)
  BY DEF Schedules
<1> QED
  BY <1>2, <1>4, <1>5

LEMMA ConnectorsListDue ==
    ASSUME ConnectorsInv, NEW t \in Thread, C!ListDue(t)
    PROVE  ConnectorsInv'
<1>1. thread[t].step = "due" /\ C!GoesOn(t, C!Due, None) /\ UNCHANGED <<file, ran, made, now, mixed>>
  BY Zenon DEF C!ListDue, C!At, C!disk, C!counters, C!history
<1>2. made \in Nat
  BY DesksAssumption DEF ConnectorsInv, ConnectorsTypeOK
<1>3. PICK th : /\ thread' = [thread EXCEPT ![t] = th] /\ HasWhatItNeeds(th, made)
                /\ \A k \in Connector : \A list, served, time :
                      DueAt(C!Due, k, list, served, time) => Fits(th, k, list, served, time)
  BY <1>1, <1>2, DueIsOnFile, ThreadGoesOn
<1>4. \A c \in Connector \ mixed : Fits(th, c, file[c], ran, now)
  BY <1>1, <1>3, DueIsDue
<1>5. \A c \in Connector : C!Works(thread[t], c) /\ \A id : ~Serves(thread[t], c, id)
  BY <1>1 DEF ConnectorsInv, ConnectorsTypeOK, HasWhatItNeeds, C!Works, Serves
<1> QED
  BY <1>1, <1>3, <1>4, <1>5, ConnectorsGoOn

\* A request that comes to an end, or to the next schedule that is due.
LEMMA ConnectorsEnd ==
    ASSUME ConnectorsInv, NEW t \in Thread, C!Ends(t), thread[t].step # "-",
           UNCHANGED <<file, ran, made, now, mixed>>,
           \A c \in Connector \ mixed : \A i \in DOMAIN file[c] : ~Serves(thread[t], c, file[c][i].id)
    PROVE  ConnectorsInv'
<1>1. made \in Nat /\ thread[t].due \subseteq Nat \X Schedules(made, Connector)
  <2>1. made \in Nat
    BY DesksAssumption DEF ConnectorsInv, ConnectorsTypeOK
  <2>2. HasWhatItNeeds(thread[t], made)
    BY DEF ConnectorsInv, ConnectorsTypeOK
  <2> QED
    BY <2>1, <2>2 DEF HasWhatItNeeds
<1>2. PICK th : /\ thread' = [thread EXCEPT ![t] = th] /\ HasWhatItNeeds(th, made)
                /\ \A k \in Connector : C!Works(th, k) => \E d \in thread[t].due : d[2].c = k
                /\ \A k \in Connector : \A list, served, time :
                      DueAt(thread[t].due, k, list, served, time) => Fits(th, k, list, served, time)
  BY <1>1, ThreadGoesOn DEF C!Ends
<1>3. \A c \in Connector \ mixed : Fits(th, c, file[c], ran, now)
  BY <1>2 DEF ConnectorsInv, Fits
<1>4. \A c \in Connector : C!Works(th, c) => C!Works(thread[t], c)
  BY <1>2 DEF C!Works
<1> QED
  BY <1>2, <1>3, <1>4, ConnectorsGoOn

LEMMA ConnectorsSync ==
    ASSUME ConnectorsInv, NEW t \in Thread, C!LoadConfig(t) \/ C!RunSync(t)
    PROVE  ConnectorsInv'
<1>1. PICK c : c = thread[t]
  OBVIOUS
<1>2. c.step \in {"config", "sync"} /\ UNCHANGED <<file, ran, made, now, mixed>>
  BY <1>1, Zenon DEF C!LoadConfig, C!RunSync, C!At, C!disk, C!counters, C!history
<1>3. \A k, id : ~Serves(c, k, id)
  BY <1>2 DEF Serves
<1>4. CASE C!Ends(t)
  BY <1>1, <1>2, <1>3, <1>4, ConnectorsEnd
<1>5. ASSUME NEW step \in {"sync", "find"}, C!Goto(t, C!Doing("sync", step, c.c, c.s, <<>>, c.due))
      PROVE  ConnectorsInv'
  <2>1. PICK th : th = C!Doing("sync", step, c.c, c.s, <<>>, c.due)
    OBVIOUS
  <2>2. th.op = "sync" /\ th.step = step /\ th.c = c.c /\ th.s = c.s /\ th.due = c.due
    BY <2>1, WorkingIs
  <2>3. thread' = [thread EXCEPT ![t] = th]
    BY <1>5, <2>1, Zenon DEF C!Goto
  <2>4. HasWhatItNeeds(th, made)
    BY <1>1, <1>2, <2>2 DEF ConnectorsInv, ConnectorsTypeOK, HasWhatItNeeds
  <2>5. ASSUME NEW k \in Connector \ mixed PROVE Fits(th, k, file[k], ran, now)
    <3>1. Fits(c, k, file[k], ran, now)
      BY <1>1 DEF ConnectorsInv
    <3> QED
      BY <1>2, <2>2, <3>1 DEF Fits, ServingFits
  <2>6. \A k \in Connector : C!Works(th, k) => C!Works(c, k)
    BY <1>2, <2>2 DEF C!Works
  <2> QED
    BY <1>1, <1>2, <1>3, <2>3, <2>4, <2>5, <2>6, ConnectorsGoOn
<1>6. CASE C!LoadConfig(t) /\ ~C!Ends(t)
  BY <1>1, <1>5, <1>6, Zenon DEF C!LoadConfig
<1>7. CASE C!RunSync(t) /\ ~C!Ends(t)
  BY <1>1, <1>5, <1>7, Zenon DEF C!RunSync
<1> QED
  BY <1>4, <1>6, <1>7

\* The first schedule of a connector is the one that is synced: what may be recorded of it,
\* and what is still to be served.
LEMMA ConnectorsFind ==
    ASSUME ConnectorsInv, NEW t \in Thread, C!FindSchedule(t)
    PROVE  ConnectorsInv' /\ C!KeepsToInterval
<1>1. PICK c : c = thread[t]
  OBVIOUS
<1>2. /\ c.step = "find" /\ UNCHANGED <<file, made, now, mixed>>
      /\ IF file[c.c] = <<>> THEN C!Ends(t) /\ UNCHANGED ran
         ELSE LET s == Head(file[c.c]) IN
              /\ C!Goto(t, C!Doing("sync", "load", c.c, C!WithNext([s EXCEPT !.last = now]), <<>>, c.due))
              /\ ran' = IF c.s # None /\ c.s.id = s.id THEN [ran EXCEPT ![<<c.c, s.id>>] = now] ELSE ran
  BY <1>1, Zenon DEF C!FindSchedule, C!At, C!disk, C!counters
<1>3. PICK n \in Nat : n = made
  BY DesksAssumption DEF ConnectorsInv, ConnectorsTypeOK
<1>4. HasWhatItNeeds(c, n)
  BY <1>1, <1>3 DEF ConnectorsInv, ConnectorsTypeOK
<1>5. PICK k \in Connector : k = c.c
  BY <1>2, <1>4 DEF HasWhatItNeeds
<1>6. CASE file[k] = <<>>
  <2>1. C!Ends(t) /\ UNCHANGED <<file, ran, made, now, mixed>>
    BY <1>2, <1>5, <1>6
  <2>2. ConnectorsInv'
    BY <1>1, <1>2, <2>1, ConnectorsEnd DEF Serves
  <2> QED
    BY <2>1, <2>2 DEF C!KeepsToInterval
<1>7. CASE file[k] # <<>>
  <2>1. PICK list : list = file[k]
    OBVIOUS
  <2>2. list \in Seq(Schedules(n, {k}))
    BY <1>3, <2>1 DEF ConnectorsInv, ConnectorsTypeOK, FilesAre
  <2>3. PICK first \in Schedules(n, {k}) : first = Head(list) /\ first = list[1] /\ 1 \in DOMAIN list
    BY <1>7, <2>1, <2>2
  <2>4. PICK r : r = [first EXCEPT !.last = now]
    OBVIOUS
  <2>5. now \in Nat
    BY DEF ConnectorsInv, ConnectorsTypeOK
  <2>6. r \in Schedules(n, {k}) /\ r.id = first.id /\ r.every = first.every /\ r.last = now
    BY <1>3, <2>4, <2>5 DEF Schedules
  <2>7. PICK s : s = C!WithNext(r)
    OBVIOUS
  <2>8. s \in Schedules(n, {k}) /\ s.id = first.id /\ s.every = first.every /\ s.last = now
    BY <1>3, <2>6, <2>7, WithNextIs
  <2>9. PICK th : th = C!Doing("sync", "load", k, s, <<>>, c.due)
    OBVIOUS
  <2>10. th.op = "sync" /\ th.step = "load" /\ th.c = k /\ th.s = s /\ th.due = c.due
    BY <2>9, WorkingIs
  <2>11. thread' = [thread EXCEPT ![t] = th]
    BY <1>2, <1>5, <1>7, <2>1, <2>3, <2>4, <2>7, <2>9, Zenon DEF C!Goto
  <2>12. ran' = IF c.s # None /\ c.s.id = first.id THEN [ran EXCEPT ![<<k, first.id>>] = now] ELSE ran
    BY <1>2, <1>5, <1>7, <2>1, <2>3, Zenon
  <2>13. first.id \in 1..made /\ made \in 0..MaxSchedules /\ MaxSchedules \in Nat
    BY <1>3, DesksAssumption DEF Schedules, ConnectorsInv, ConnectorsTypeOK
  <2>14. /\ ran \in [Connector \X (1..MaxSchedules) -> Nat]
         /\ \A x \in Connector \X (1..MaxSchedules) : ran[x] <= now /\ (x[2] > made => ran[x] = 0)
    BY DEF ConnectorsInv, ConnectorsTypeOK
  <2>15. PICK x \in Connector \X (1..MaxSchedules) : x = <<k, first.id>>
    <3>1. PICK m \in 1..MaxSchedules : m = first.id
      BY <2>13
    <3>2. <<k, m>> \in Connector \X (1..MaxSchedules)
      OBVIOUS
    <3> QED
      BY <3>1, <3>2
  <2>16. ran' = ran \/ (c.s # None /\ c.s.id = first.id /\ ran' = [ran EXCEPT ![x] = now])
    BY <2>12, <2>15
  <2>17. /\ ran' \in [Connector \X (1..MaxSchedules) -> Nat]
         /\ \A y \in Connector \X (1..MaxSchedules) : ran'[y] <= now /\ (y[2] > made => ran'[y] = 0)
    BY <2>5, <2>13, <2>14, <2>15, <2>16
  <2>18. ASSUME NEW l \in Connector, NEW m \in 1..MaxSchedules, ran'[<<l, m>>] # ran[<<l, m>>]
         PROVE  l = k /\ m = first.id /\ c.s # None /\ c.s.id = m
    <3>1. PICK y \in Connector \X (1..MaxSchedules) : y = <<l, m>>
      OBVIOUS
    <3>2. ran'[y] # ran[y]
      BY <2>18, <3>1
    <3>3. y = x
      BY <2>14, <2>16, <3>2
    <3> QED
      BY <2>15, <2>16, <2>18, <3>1, <3>3
  <2>19. ASSUME NEW l \in Connector, NEW i \in DOMAIN file[l]
         PROVE  file[l][i] \in Schedules(n, {l}) /\ file[l][i].id \in 1..MaxSchedules
    <3>1. file[l] \in Seq(Schedules(n, {l}))
      BY <1>3 DEF ConnectorsInv, ConnectorsTypeOK, FilesAre
    <3>2. file[l][i] \in Schedules(n, {l})
      BY <3>1
    <3> QED
      BY <1>3, <2>13, <3>2 DEF Schedules
  <2>20. ASSUME NEW l \in Connector \ mixed
         PROVE  /\ Fits(c, l, file[l], ran, now) /\ FileTells(l, file[l], thread, ran)
                /\ WorkAlone(l, thread)
    BY <1>1 DEF ConnectorsInv
  <2>21. ASSUME k \notin mixed PROVE LoadingFits(th, k, list, ran')
    <3>1. TellsOf(s, k, ran')
      BY <2>8, <2>15, <2>17 DEF TellsOf
    <3>2. \A i \in DOMAIN list : list[i].id = s.id => i = 1
      BY <2>1, <2>3, <2>8, <2>20, <2>21 DEF FileTells, Orderly
    <3> QED
      BY <2>3, <2>8, <2>10, <3>1, <3>2 DEF LoadingFits
  <2>22. ASSUME NEW l \in Connector \ mixed PROVE Fits(th, l, file[l], ran', now)
    <3>1. Fits(c, l, file[l], ran, now)
      BY <2>20
    <3>2. ASSUME NEW d \in c.due, d[2].c = l PROVE MaySync(d[2].id, l, file[l], ran', now)
      <4>1. ASSUME NEW i \in DOMAIN file[l], file[l][i].id = d[2].id PROVE Elapsed(file[l][i], l, ran', now)
        <5>1. MaySync(d[2].id, l, file[l], ran, now)
          BY <3>1, <3>2 DEF Fits, DueAt
        <5>2. Elapsed(file[l][i], l, ran, now)
          BY <4>1, <5>1 DEF MaySync
        <5>3. ASSUME ran'[<<l, file[l][i].id>>] # ran[<<l, file[l][i].id>>] PROVE FALSE
          <6>1. l = k /\ c.s # None /\ c.s.id = d[2].id
            BY <2>18, <2>19, <4>1, <5>3
          <6>2. ServingFits(c, l, file[l], ran, now)
            BY <1>2, <1>5, <3>1, <6>1 DEF Fits
          <6> QED
            BY <3>2, <6>1, <6>2 DEF ServingFits
        <5> QED
          BY <5>2, <5>3 DEF Elapsed
      <4> QED
        BY <4>1 DEF MaySync
    <3>3. DueAt(th.due, l, file[l], ran', now)
      BY <2>10, <3>1, <3>2 DEF Fits, DueAt
    <3> QED
      BY <2>1, <2>10, <2>21, <3>3 DEF Fits
  <2>23. \A l \in Connector : C!Works(th, l) <=> C!Works(c, l)
    BY <1>2, <1>5, <2>10 DEF C!Works
  <2>24. \A u \in Thread : thread'[u] = IF u = t THEN th ELSE thread[u]
    BY <2>11 DEF ConnectorsInv, ConnectorsTypeOK
  <2>25. ASSUME NEW l \in Connector \ mixed PROVE FileTells(l, file[l], thread', ran')
    <3>1. ASSUME NEW i \in DOMAIN file[l]
          PROVE  TellsOf(file[l][i], l, ran') \/ \E u \in Thread : Serves(thread'[u], l, file[l][i].id)
      <4>1. CASE l = k /\ file[l][i].id = first.id
        BY <2>8, <2>10, <2>24, <4>1 DEF Serves
      <4>2. CASE ~(l = k /\ file[l][i].id = first.id)
        <5>1. ran'[<<l, file[l][i].id>>] = ran[<<l, file[l][i].id>>]
          BY <2>18, <2>19, <4>2
        <5>2. \A u \in Thread : Serves(thread[u], l, file[l][i].id) => Serves(thread'[u], l, file[l][i].id)
          BY <1>1, <1>2, <2>24 DEF Serves
        <5>3. TellsOf(file[l][i], l, ran) \/ \E u \in Thread : Serves(thread[u], l, file[l][i].id)
          BY <2>20 DEF FileTells
        <5> QED
          BY <5>1, <5>2, <5>3 DEF TellsOf
      <4> QED
        BY <4>1, <4>2
    <3> QED
      BY <2>20, <3>1 DEF FileTells
  <2>26. HasWhatItNeeds(th, n)
    BY <1>2, <1>4, <2>8, <2>10 DEF HasWhatItNeeds
  <2>27. ASSUME NEW l \in Connector, ~C!Works(c, l), NEW m \in 1..MaxSchedules
         PROVE  ran'[<<l, m>>] = ran[<<l, m>>]
    BY <1>2, <1>5, <2>18, <2>27 DEF C!Works
  <2>28. FilesAre(file', made')
    BY <1>2 DEF ConnectorsInv, ConnectorsTypeOK
  <2>29. ConnectorsInv'
    <3>1. /\ mixed \subseteq mixed' /\ made' \in 0..MaxSchedules /\ made <= made' /\ now' = now
          /\ HasWhatItNeeds(th, made')
          /\ \A y \in Connector \X (1..MaxSchedules) : ran'[y] <= now /\ (y[2] > made' => ran'[y] = 0)
      BY <1>2, <1>3, <2>13, <2>17, <2>26
    <3>2. ASSUME NEW l \in Connector \ mixed'
          PROVE  /\ Fits(th, l, file'[l], ran', now)
                 /\ C!Works(th, l) => C!Works(thread[t], l) \/ \A u \in Thread : ~C!Works(thread[u], l)
                 /\ IF C!Works(thread[t], l) THEN FileTells(l, file'[l], thread', ran')
                    ELSE /\ file'[l] = file[l]
                         /\ \A m \in 1..MaxSchedules : ran'[<<l, m>>] = ran[<<l, m>>]
      BY <1>1, <1>2, <2>22, <2>23, <2>25, <2>27
    <3> QED
      BY <2>11, <2>17, <2>28, <3>1, <3>2, ConnectorsMove
  <2>30. ASSUME NEW l \in Connector \ mixed, file[l] # <<>>,
                ran'[<<l, Head(file[l]).id>>] # ran[<<l, Head(file[l]).id>>]
         PROVE  Elapsed(Head(file[l]), l, ran, now)
    <3>1. file[l] \in Seq(Schedules(n, {l}))
      BY <1>3 DEF ConnectorsInv, ConnectorsTypeOK, FilesAre
    <3>2. Head(file[l]) = file[l][1] /\ 1 \in DOMAIN file[l]
      BY <2>30, <3>1
    <3>3. PICK m \in 1..MaxSchedules : m = file[l][1].id
      BY <2>19, <3>2
    <3>4. ran'[<<l, m>>] # ran[<<l, m>>]
      BY <2>30, <3>2, <3>3
    <3>5. l = k /\ c.s # None /\ c.s.id = file[l][1].id
      BY <2>18, <3>3, <3>4
    <3>6. ServingFits(c, l, file[l], ran, now)
      BY <1>2, <1>5, <2>20, <3>5 DEF Fits
    <3> QED
      BY <3>2, <3>5, <3>6 DEF ServingFits, MaySync
  <2> QED
    BY <2>29, <2>30 DEF C!KeepsToInterval, Elapsed
<1> QED
  BY <1>6, <1>7

\* delete_schedule takes out one record.
LEMMA WithoutIs ==
    ASSUME NEW A, NEW list \in Seq(A), NEW id, C!Has(list, id)
    PROVE  LET rest == C!Without(list, id) IN
           /\ rest \in Seq(A) /\ DOMAIN rest = 1..(Len(list) - 1)
           /\ \E k \in DOMAIN list : \A i \in DOMAIN rest : rest[i] = IF i < k THEN list[i] ELSE list[i + 1]
<1>1. PICK k \in DOMAIN list : k = CHOOSE i \in DOMAIN list : list[i].id = id
  BY DEF C!Has
<1>2. k \in 1..Len(list) /\ Len(list) \in Nat
  OBVIOUS
<1> DEFINE before == SubSeq(list, 1, k - 1)
           after == SubSeq(list, k + 1, Len(list))
<1>3. /\ before \in Seq(A) /\ Len(before) = k - 1
      /\ \A i \in 1..(k - 1) : before[i] = list[i]
  <2>1. \A i \in 1..(k - 1) : list[i] \in A
    BY <1>2
  <2>2. /\ before \in Seq(A) /\ Len(before) = IF 1 <= k - 1 THEN (k - 1) - 1 + 1 ELSE 0
        /\ \A i \in 1..((k - 1) - 1 + 1) : before[i] = list[1 + i - 1]
    BY <1>2, <2>1, SubSeqProperties
  <2> QED
    BY <1>2, <2>2
<1>4. /\ after \in Seq(A) /\ Len(after) = Len(list) - k
      /\ \A i \in 1..(Len(list) - k) : after[i] = list[k + i]
  <2>1. \A i \in (k + 1)..Len(list) : list[i] \in A
    BY <1>2
  <2>2. /\ after \in Seq(A) /\ Len(after) = IF k + 1 <= Len(list) THEN Len(list) - (k + 1) + 1 ELSE 0
        /\ \A i \in 1..(Len(list) - (k + 1) + 1) : after[i] = list[(k + 1) + i - 1]
    BY <1>2, <2>1, SubSeqProperties
  <2> QED
    BY <1>2, <2>2
<1> HIDE DEF before, after
<1>5. PICK rest : rest = before \o after
  OBVIOUS
<1>6. /\ rest \in Seq(A) /\ Len(rest) = Len(list) - 1
      /\ \A i \in 1..(Len(list) - 1) : rest[i] = IF i <= k - 1 THEN before[i] ELSE after[i - (k - 1)]
  <2>1. /\ rest \in Seq(A) /\ Len(rest) = Len(before) + Len(after)
        /\ \A i \in 1..(Len(before) + Len(after)) :
              rest[i] = IF i <= Len(before) THEN before[i] ELSE after[i - Len(before)]
    BY <1>3, <1>4, <1>5, ConcatProperties
  <2>2. Len(before) + Len(after) = Len(list) - 1
    BY <1>2, <1>3, <1>4
  <2> QED
    BY <1>3, <2>1, <2>2
<1>7. ASSUME NEW i \in 1..(Len(list) - 1) PROVE rest[i] = IF i < k THEN list[i] ELSE list[i + 1]
  <2>1. CASE i < k
    BY <1>2, <1>3, <1>6, <2>1
  <2>2. CASE ~(i < k)
    <3>1. PICK j \in 1..(Len(list) - k) : j = i - (k - 1)
      BY <1>2, <2>2
    <3>2. k + j = i + 1 /\ ~(i <= k - 1)
      BY <1>2, <2>2, <3>1
    <3>3. rest[i] = after[j] /\ after[j] = list[k + j]
      BY <1>4, <1>6, <3>1, <3>2
    <3> QED
      BY <2>2, <3>2, <3>3
  <2> QED
    BY <2>1, <2>2
<1>8. DOMAIN rest = 1..(Len(list) - 1)
  BY <1>6
<1>9. C!Without(list, id) = rest
  BY <1>1, <1>5, Zenon DEF C!Without, before, after
<1> QED
  BY <1>6, <1>7, <1>8, <1>9

LEMMA ConnectorsLoad ==
    ASSUME ConnectorsInv, NEW t \in Thread, C!LoadList(t)
    PROVE  ConnectorsInv'
<1>1. PICK c : c = thread[t]
  OBVIOUS
<1>2. PICK n \in Nat : n = made
  BY DesksAssumption DEF ConnectorsInv, ConnectorsTypeOK
<1>3. HasWhatItNeeds(c, n)
  BY <1>1, <1>2 DEF ConnectorsInv, ConnectorsTypeOK
<1>4. c.step = "load" /\ UNCHANGED <<file, ran, made, now, mixed>>
  BY <1>1, Zenon DEF C!LoadList, C!At, C!disk, C!counters, C!history
<1>5. PICK k \in Connector : k = c.c
  BY <1>3, <1>4 DEF HasWhatItNeeds
<1>6. PICK s \in Schedules(n, {k}) : s = c.s
  BY <1>3, <1>4, <1>5 DEF HasWhatItNeeds
<1>7. PICK list \in Seq(Schedules(n, {k})) : list = file[k]
  BY <1>2 DEF ConnectorsInv, ConnectorsTypeOK, FilesAre
<1>8. \A i \in DOMAIN list : list[i] \in Schedules(n, {k})
  OBVIOUS
<1>9. ASSUME k \notin mixed
      PROVE  /\ Orderly(list) /\ LoadingFits(c, k, list, ran)
             /\ \A i \in DOMAIN list : TellsOf(list[i], k, ran) \/ (c.op = "sync" /\ list[i].id = s.id)
  <2>1. FileTells(k, list, thread, ran) /\ WorkAlone(k, thread) /\ Fits(c, k, list, ran, now)
    BY <1>1, <1>7, <1>9 DEF ConnectorsInv
  <2>2. LoadingFits(c, k, list, ran)
    BY <1>4, <1>5, <2>1 DEF Fits
  <2>3. ASSUME NEW u \in Thread, NEW id, Serves(thread[u], k, id) PROVE c.op = "sync" /\ id = s.id
    <3>1. C!Works(thread[u], k) /\ C!Works(c, k)
      BY <1>4, <1>5, <2>3 DEF Serves, C!Works
    <3>2. u = t
      BY <1>1, <2>1, <3>1 DEF WorkAlone
    <3> QED
      BY <1>1, <1>6, <2>3, <3>2 DEF Serves
  <2> QED
    BY <2>1, <2>2, <2>3 DEF FileTells
<1>10. ASSUME NEW to \in Seq(Schedules(n, {k})),
              C!Goto(t, C!Doing(c.op, "save", c.c, c.s, to, c.due)),
              k \notin mixed =>
                /\ Orderly(to)
                /\ \A i \in DOMAIN to : TellsOf(to[i], k, ran)
                /\ c.op = "sync" => \A i \in DOMAIN to : \E j \in DOMAIN list :
                      to[i].id = list[j].id /\ to[i].every = list[j].every
       PROVE  ConnectorsInv'
  <2>1. PICK th : th = C!Doing(c.op, "save", c.c, c.s, to, c.due)
    OBVIOUS
  <2>2. th.op = c.op /\ th.step = "save" /\ th.c = k /\ th.s = s /\ th.list = to /\ th.due = c.due
    BY <1>5, <1>6, <2>1, WorkingIs
  <2>3. thread' = [thread EXCEPT ![t] = th]
    BY <1>10, <2>1, Zenon DEF C!Goto
  <2>4. HasWhatItNeeds(th, n)
    BY <1>3, <2>2 DEF HasWhatItNeeds
  <2>5. ASSUME NEW l \in Connector \ mixed PROVE Fits(th, l, file[l], ran, now)
    <3>1. DueAt(th.due, l, file[l], ran, now)
      BY <1>1, <2>2 DEF ConnectorsInv, Fits
    <3>2. th.c = l => SavingFits(th, l, file[l], ran)
      BY <1>7, <1>10, <2>2 DEF SavingFits
    <3> QED
      BY <2>2, <3>1, <3>2 DEF Fits
  <2>6. \A l \in Connector : C!Works(th, l) => C!Works(c, l)
    BY <1>4, <1>5, <2>2 DEF C!Works
  <2>7. \A l, id : Serves(c, l, id) => Serves(th, l, id)
    BY <1>5, <1>6, <2>2 DEF Serves
  <2> QED
    BY <1>1, <1>2, <1>4, <2>3, <2>4, <2>5, <2>6, <2>7, ConnectorsGoOn
<1>11. PICK r : r = C!WithNext(s)
  OBVIOUS
<1>12. /\ r \in Schedules(n, {k}) /\ r.id = s.id /\ r.every = s.every /\ r.last = s.last
       /\ r.next = C!NextRun(r)
  BY <1>11, WithNextIs
<1>13. CASE c.op = "create" /\ C!Goto(t, C!Doing(c.op, "save", c.c, c.s, Append(list, r), c.due))
  <2>1. PICK to : to = Append(list, r)
    OBVIOUS
  <2>2. /\ to \in Seq(Schedules(n, {k})) /\ DOMAIN to = 1..(Len(list) + 1)
        /\ \A i \in DOMAIN to : to[i] = IF i \in DOMAIN list THEN list[i] ELSE r
    BY <1>12, <2>1
  <2>3. ASSUME k \notin mixed PROVE Orderly(to) /\ \A i \in DOMAIN to : TellsOf(to[i], k, ran)
    <3>1. \A i \in DOMAIN list : list[i].id # r.id
      BY <1>6, <1>7, <1>9, <1>12, <1>13, <2>3 DEF LoadingFits
    <3>2. TellsOf(r, k, ran)
      BY <1>6, <1>9, <1>12, <1>13, <2>3 DEF LoadingFits, TellsOf
    <3>3. \A i, j \in DOMAIN to : i \notin DOMAIN list /\ j \notin DOMAIN list => i = j
      BY <2>2
    <3> QED
      BY <1>9, <1>12, <1>13, <2>2, <2>3, <3>1, <3>2, <3>3 DEF Orderly
  <2> QED
    BY <1>10, <1>13, <2>1, <2>2, <2>3
<1>14. CASE ~C!Has(list, s.id) /\ C!Ends(t)
  <2>1. \A l \in Connector : \A i \in DOMAIN file[l] : ~Serves(c, l, file[l][i].id)
    BY <1>5, <1>6, <1>7, <1>14 DEF Serves, C!Has
  <2> QED
    BY <1>1, <1>4, <1>14, <2>1, ConnectorsEnd
<1>15. CASE /\ c.op \in {"update", "sync"}
            /\ C!Goto(t, C!Doing(c.op, "save", c.c, c.s, C!Updated(list, s), c.due))
  <2>1. PICK to : to = C!Updated(list, s)
    OBVIOUS
  <2>2. to = [i \in DOMAIN list |-> IF list[i].id = s.id THEN r ELSE list[i]]
    BY <1>11, <2>1, Zenon DEF C!Updated
  <2>3. /\ to \in Seq(Schedules(n, {k})) /\ DOMAIN to = DOMAIN list
        /\ \A i \in DOMAIN list : to[i] = IF list[i].id = s.id THEN r ELSE list[i]
    BY <1>8, <1>12, <2>2
  <2>4. ASSUME k \notin mixed
        PROVE  /\ Orderly(to)
               /\ \A i \in DOMAIN to : TellsOf(to[i], k, ran)
               /\ c.op = "sync" => \A i \in DOMAIN to : \E j \in DOMAIN list :
                     to[i].id = list[j].id /\ to[i].every = list[j].every
    <3>1. TellsOf(r, k, ran) /\ Orderly(list)
      BY <1>6, <1>9, <1>12, <1>15, <2>4 DEF LoadingFits, TellsOf
    <3>2. \A i \in DOMAIN list : to[i].id = list[i].id
      BY <1>12, <2>3
    <3>3. Orderly(to)
      BY <1>12, <2>3, <3>1, <3>2 DEF Orderly
    <3>4. \A i \in DOMAIN to : TellsOf(to[i], k, ran)
      BY <1>9, <2>3, <2>4, <3>1
    <3>5. c.op = "sync" => \A i \in DOMAIN to : to[i].every = list[i].every
      BY <1>6, <1>9, <1>12, <2>3, <2>4 DEF LoadingFits
    <3> QED
      BY <2>3, <3>2, <3>3, <3>4, <3>5
  <2> QED
    BY <1>10, <1>15, <2>1, <2>3, <2>4
<1>16. CASE /\ c.op = "delete" /\ C!Has(list, s.id)
            /\ C!Goto(t, C!Doing(c.op, "save", c.c, c.s, C!Without(list, s.id), c.due))
  <2>1. PICK to : to = C!Without(list, s.id)
    OBVIOUS
  <2>2. to \in Seq(Schedules(n, {k})) /\ DOMAIN to = 1..(Len(list) - 1)
    BY <1>16, <2>1, WithoutIs
  <2>3. PICK m \in DOMAIN list : \A i \in DOMAIN to : to[i] = IF i < m THEN list[i] ELSE list[i + 1]
    BY <1>16, <2>1, WithoutIs
  <2>4. Len(list) \in Nat /\ DOMAIN list = 1..Len(list)
    OBVIOUS
  <2>5. ASSUME k \notin mixed PROVE Orderly(to) /\ \A i \in DOMAIN to : TellsOf(to[i], k, ran)
    <3>1. \A i, j \in DOMAIN list : list[i].id = list[j].id => i = j
      BY <1>9, <2>5 DEF Orderly
    <3>2. \A i \in DOMAIN list : list[i].next = C!NextRun(list[i]) /\ TellsOf(list[i], k, ran)
      BY <1>9, <1>16, <2>5 DEF Orderly
    <3>3. \A i \in DOMAIN to : i \in DOMAIN list /\ i + 1 \in DOMAIN list
      BY <2>2, <2>4
    <3>4. \A i, j \in DOMAIN to : to[i].id = to[j].id => i = j
      BY <2>2, <2>3, <2>4, <3>1, <3>3
    <3> QED
      BY <2>3, <3>2, <3>3, <3>4 DEF Orderly
  <2> QED
    BY <1>10, <1>16, <2>1, <2>2, <2>5
<1>17. \/ c.op = "create" /\ C!Goto(t, C!Doing(c.op, "save", c.c, c.s, Append(list, r), c.due))
       \/ ~C!Has(list, s.id) /\ C!Ends(t)
       \/ /\ c.op \in {"update", "sync"}
          /\ C!Goto(t, C!Doing(c.op, "save", c.c, c.s, C!Updated(list, s), c.due))
       \/ /\ c.op = "delete" /\ C!Has(list, s.id)
          /\ C!Goto(t, C!Doing(c.op, "save", c.c, c.s, C!Without(list, s.id), c.due))
  BY <1>1, <1>5, <1>6, <1>7, <1>11, Zenon DEF C!LoadList
<1> QED
  BY <1>13, <1>14, <1>15, <1>16, <1>17

LEMMA ConnectorsSave ==
    ASSUME ConnectorsInv, NEW t \in Thread, C!SaveList(t)
    PROVE  ConnectorsInv'
<1>1. PICK c : c = thread[t]
  OBVIOUS
<1>2. PICK n \in Nat : n = made
  BY DesksAssumption DEF ConnectorsInv, ConnectorsTypeOK
<1>3. HasWhatItNeeds(c, n)
  BY <1>1, <1>2 DEF ConnectorsInv, ConnectorsTypeOK
<1>4. /\ c.step = "save" /\ file' = [file EXCEPT ![c.c] = c.list] /\ C!GoesOn(t, c.due, c.c)
      /\ UNCHANGED <<ran, made, now, mixed>>
  BY <1>1, Zenon DEF C!SaveList, C!At, C!Ends, C!counters, C!history
<1>5. PICK k \in Connector : k = c.c
  BY <1>3, <1>4 DEF HasWhatItNeeds
<1>6. PICK list \in Seq(Schedules(n, {k})) : list = c.list
  BY <1>3, <1>4, <1>5 DEF HasWhatItNeeds
<1>7. PICK th : /\ thread' = [thread EXCEPT ![t] = th] /\ HasWhatItNeeds(th, n)
                /\ \A l \in Connector : C!Works(th, l) => \E d \in c.due : d[2].c = l
                /\ \A l \in Connector : \A lists, served, time :
                      DueAt(c.due, l, lists, served, time) => Fits(th, l, lists, served, time)
  BY <1>3, <1>4, ThreadGoesOn DEF HasWhatItNeeds
<1>8. FilesAre(file, n) /\ \A u \in Thread : thread'[u] = IF u = t THEN th ELSE thread[u]
  BY <1>2, <1>7 DEF ConnectorsInv, ConnectorsTypeOK
<1>9. FilesAre(file', n) /\ \A l \in Connector : file'[l] = IF l = k THEN list ELSE file[l]
  BY <1>4, <1>5, <1>6, <1>8 DEF FilesAre
<1>10. ASSUME NEW l \in Connector \ mixed
       PROVE  FileTells(l, file[l], thread, ran) /\ Fits(c, l, file[l], ran, now)
  BY <1>1 DEF ConnectorsInv
<1>11. ASSUME k \notin mixed PROVE SavingFits(c, k, file[k], ran)
  BY <1>4, <1>5, <1>10, <1>11 DEF Fits
<1>12. ASSUME NEW l \in Connector \ mixed PROVE DueAt(c.due, l, file'[l], ran, now)
  <2>1. DueAt(c.due, l, file[l], ran, now)
    BY <1>10 DEF Fits
  <2>2. ASSUME l = k, NEW d \in c.due, d[2].c = l PROVE MaySync(d[2].id, l, list, ran, now)
    <3>1. ASSUME NEW i \in DOMAIN list, list[i].id = d[2].id PROVE Elapsed(list[i], l, ran, now)
      <4>1. c.op = "sync"
        BY <1>3, <2>2 DEF HasWhatItNeeds
      <4>2. PICK j \in DOMAIN file[l] : list[i].id = file[l][j].id /\ list[i].every = file[l][j].every
        BY <1>6, <1>11, <2>2, <3>1, <4>1 DEF SavingFits
      <4>3. Elapsed(file[l][j], l, ran, now)
        BY <2>1, <2>2, <3>1, <4>2 DEF DueAt, MaySync
      <4> QED
        BY <4>2, <4>3 DEF Elapsed
    <3> QED
      BY <3>1 DEF MaySync
  <2> QED
    BY <1>9, <2>1, <2>2 DEF DueAt
<1>13. ASSUME NEW l \in Connector \ mixed PROVE FileTells(l, file'[l], thread', ran)
  <2>1. CASE l = k
    BY <1>6, <1>9, <1>11, <2>1 DEF FileTells, SavingFits
  <2>2. CASE l # k
    <3>1. file'[l] = file[l]
      BY <1>9, <2>2
    <3>2. \A u \in Thread : \A id : Serves(thread[u], l, id) => Serves(thread'[u], l, id)
      BY <1>1, <1>5, <1>8, <2>2 DEF Serves
    <3> QED
      BY <1>10, <3>1, <3>2 DEF FileTells
  <2> QED
    BY <2>1, <2>2
<1>14. /\ mixed \subseteq mixed' /\ made' \in 0..MaxSchedules /\ made <= made' /\ now' = now
       /\ HasWhatItNeeds(th, made') /\ FilesAre(file', made')
       /\ ran' \in [Connector \X (1..MaxSchedules) -> Nat]
       /\ \A x \in Connector \X (1..MaxSchedules) : ran'[x] <= now /\ (x[2] > made' => ran'[x] = 0)
  BY <1>2, <1>4, <1>7, <1>9, DesksAssumption DEF ConnectorsInv, ConnectorsTypeOK
<1>15. ASSUME NEW l \in Connector \ mixed'
       PROVE  /\ Fits(th, l, file'[l], ran', now)
              /\ C!Works(th, l) => C!Works(thread[t], l) \/ \A u \in Thread : ~C!Works(thread[u], l)
              /\ IF C!Works(thread[t], l) THEN FileTells(l, file'[l], thread', ran')
                 ELSE /\ file'[l] = file[l]
                      /\ \A m \in 1..MaxSchedules : ran'[<<l, m>>] = ran[<<l, m>>]
  <2>1. C!Works(th, l) => C!Works(c, l)
    BY <1>4, <1>7 DEF C!Works
  <2>2. ~C!Works(c, l) => l # k
    BY <1>4, <1>5 DEF C!Works
  <2> QED
    BY <1>1, <1>4, <1>7, <1>9, <1>12, <1>13, <2>1, <2>2
<1> QED
  BY <1>7, <1>14, <1>15, ConnectorsMove

\* The files of the configurations say nothing of schedules.
LEMMA ConnectorsConfigure ==
    ASSUME ConnectorsInv, NEW t \in Thread, C!WriteConfig(t) \/ C!LoadIds(t) \/ C!SaveIds(t)
    PROVE  ConnectorsInv'
<1>1. PICK c : c = thread[t]
  OBVIOUS
<1>2. c.step \in {"write", "ids", "list"} /\ UNCHANGED <<file, ran, made, now, mixed>>
  BY <1>1, Zenon DEF C!WriteConfig, C!LoadIds, C!SaveIds, C!At, C!disk, C!counters, C!history
<1>3. PICK th : /\ thread' = [thread EXCEPT ![t] = th]
                /\ \/ th = C!Idle
                   \/ \E step \in {"ids", "list"} : \E ids : th = C!Configuring(c.op, step, c.c, ids)
  BY <1>1, Zenon DEF C!WriteConfig, C!LoadIds, C!SaveIds, C!Goto
<1>4. th.due = {} /\ (th.step = "-" \/ (th.step \in {"ids", "list"} /\ th.c = c.c))
  BY <1>3, WaitingIs DEF C!Idle
<1>5. HasWhatItNeeds(th, made) /\ \A k \in Connector : Fits(th, k, file[k], ran, now)
  BY <1>4 DEF HasWhatItNeeds, Fits, DueAt
<1>6. \A k \in Connector : C!Works(th, k) => C!Works(c, k)
  BY <1>2, <1>4 DEF C!Works
<1>7. \A k, id : ~Serves(c, k, id)
  BY <1>2 DEF Serves
<1> QED
  BY <1>1, <1>2, <1>3, <1>5, <1>6, <1>7, ConnectorsGoOn

LEMMA ConnectorsTick ==
    ASSUME ConnectorsInv, C!Tick
    PROVE  ConnectorsInv'
<1>1. now' = now + 1 /\ UNCHANGED <<file, ran, made, mixed, thread>>
  BY Zenon DEF C!Tick, C!disk, C!counters, C!history
<1>2. PICK n \in 0..MaxSchedules : n = made
  BY DEF ConnectorsInv, ConnectorsTypeOK
<1>3. now \in Nat /\ MaxSchedules \in Nat
  BY DesksAssumption DEF ConnectorsInv, ConnectorsTypeOK
<1>4. ConnectorsTypeOK'
  <2>1. \A x \in Connector \X (1..MaxSchedules) : ran[x] <= now + 1
    BY <1>3 DEF ConnectorsInv, ConnectorsTypeOK
  <2> QED
    BY <1>1, <1>3, <2>1 DEF ConnectorsInv, ConnectorsTypeOK
<1>5. ASSUME NEW c \in Connector, NEW s \in Schedules(n, {c}), Elapsed(s, c, ran, now)
      PROVE  Elapsed(s, c, ran, now + 1)
  <2>1. PICK id \in 1..MaxSchedules : id = s.id
    BY <1>3 DEF Schedules
  <2>2. <<c, id>> \in Connector \X (1..MaxSchedules)
    OBVIOUS
  <2>3. ran[<<c, id>>] \in Nat /\ s.every \in Nat
    BY <2>2 DEF ConnectorsInv, ConnectorsTypeOK, Schedules
  <2> QED
    BY <1>3, <1>5, <2>1, <2>3 DEF Elapsed
<1>6. ASSUME NEW c \in Connector \ mixed, NEW t \in Thread
      PROVE  Fits(thread[t], c, file[c], ran, now + 1)
  <2>1. Fits(thread[t], c, file[c], ran, now)
    BY DEF ConnectorsInv
  <2>2. \A i \in DOMAIN file[c] : file[c][i] \in Schedules(n, {c})
    BY <1>2 DEF ConnectorsInv, ConnectorsTypeOK, FilesAre
  <2>3. \A id : MaySync(id, c, file[c], ran, now) => MaySync(id, c, file[c], ran, now + 1)
    BY <1>5, <2>2 DEF MaySync
  <2> QED
    BY <2>1, <2>3 DEF Fits, DueAt, ServingFits
<1> QED
  BY <1>1, <1>4, <1>6 DEF ConnectorsInv

\* What a process was working on when it died counts as mixed.
LEMMA ConnectorsCrash ==
    ASSUME ConnectorsInv, C!Crash
    PROVE  ConnectorsInv'
<1>1. /\ UNCHANGED <<file, ran, made, now>> /\ thread' = [t \in Thread |-> C!Idle]
      /\ mixed' = mixed \cup {c \in Connector : \E t \in Thread : C!WorksOn(t, c)}
  BY Zenon DEF C!Crash, C!disk
<1>2. \A t \in Thread : thread'[t].step = "-" /\ thread'[t].due = {}
  BY <1>1, WaitingIs DEF C!Idle
<1>3. ConnectorsTypeOK'
  BY <1>1, <1>2 DEF ConnectorsInv, ConnectorsTypeOK, HasWhatItNeeds
<1>4. ASSUME NEW c \in Connector \ mixed'
      PROVE  /\ FileTells(c, file[c], thread', ran) /\ WorkAlone(c, thread')
             /\ \A t \in Thread : Fits(thread'[t], c, file[c], ran, now)
  <2>1. c \notin mixed /\ \A t \in Thread : ~C!Works(thread[t], c)
    BY <1>1 DEF C!WorksOn
  <2>2. \A t \in Thread : \A id : ~Serves(thread[t], c, id)
    BY <2>1 DEF Serves, C!Works
  <2>3. FileTells(c, file[c], thread', ran)
    BY <2>1, <2>2 DEF ConnectorsInv, FileTells
  <2> QED
    BY <1>2, <2>3 DEF WorkAlone, C!Works, Fits, DueAt
<1> QED
  BY <1>1, <1>3, <1>4 DEF ConnectorsInv

LEMMA ConnectorsStep ==
    ConnectorsInv /\ [C!Next]_(C!vars) => ConnectorsInv' /\ [C!KeepsToInterval]_(C!vars)
<1> SUFFICES ASSUME ConnectorsInv, [C!Next]_(C!vars) PROVE ConnectorsInv' /\ [C!KeepsToInterval]_(C!vars)
  OBVIOUS
<1>1. ran' = ran => C!KeepsToInterval
  BY DEF C!KeepsToInterval
<1>2. CASE UNCHANGED C!vars
  <2>1. UNCHANGED <<file, ran, made, now, mixed, thread>>
    BY <1>2 DEF C!vars, C!disk, C!counters, C!history
  <2>2. ConnectorsInv'
    BY <2>1 DEF ConnectorsInv, ConnectorsTypeOK
  <2> QED
    BY <1>2, <2>2
<1>3. CASE C!Tick
  BY <1>1, <1>3, ConnectorsTick DEF C!Tick, C!history
<1>4. CASE C!Crash
  BY <1>1, <1>4, ConnectorsCrash DEF C!Crash
<1>5. ASSUME NEW t \in Thread PROVE \A c, th : C!Begin(t, c, th) => C!KeepsToInterval
  BY <1>1 DEF C!Begin
<1>6. ASSUME NEW t \in Thread, C!CreateConfig(t) \/ C!UpdateConfig(t) \/ C!RemoveConfig(t)
      PROVE  ConnectorsInv' /\ C!KeepsToInterval
  BY <1>5, <1>6, ConfigsBegin DEF C!CreateConfig, C!UpdateConfig, C!RemoveConfig
<1>7. ASSUME NEW t \in Thread,
             C!CreateSchedule(t) \/ C!EditSchedule(t) \/ C!ToggleSchedule(t) \/ C!DeleteSchedule(t)
      PROVE  ConnectorsInv' /\ C!KeepsToInterval
  <2>1. \E c, th : C!Begin(t, c, th)
    BY <1>7, Zenon DEF C!CreateSchedule, C!EditSchedule, C!ToggleSchedule, C!DeleteSchedule
  <2> QED
    BY <1>5, <1>7, <2>1, SchedulesBegin
<1>8. ASSUME NEW t \in Thread, C!TriggerSync(t) \/ C!RunDue(t)
      PROVE  ConnectorsInv' /\ C!KeepsToInterval
  BY <1>5, <1>8, SyncsBegin DEF C!TriggerSync, C!RunDue
<1>9. ASSUME NEW t \in Thread, C!ListDue(t)
      PROVE  ConnectorsInv' /\ C!KeepsToInterval
  BY <1>1, <1>9, ConnectorsListDue DEF C!ListDue, C!history
<1>10. ASSUME NEW t \in Thread, C!LoadConfig(t) \/ C!RunSync(t)
       PROVE  ConnectorsInv' /\ C!KeepsToInterval
  BY <1>1, <1>10, ConnectorsSync DEF C!LoadConfig, C!RunSync, C!history
<1>11. ASSUME NEW t \in Thread, C!FindSchedule(t)
       PROVE  ConnectorsInv' /\ C!KeepsToInterval
  BY <1>11, ConnectorsFind
<1>12. ASSUME NEW t \in Thread, C!LoadList(t)
       PROVE  ConnectorsInv' /\ C!KeepsToInterval
  BY <1>1, <1>12, ConnectorsLoad DEF C!LoadList, C!history
<1>13. ASSUME NEW t \in Thread, C!SaveList(t)
       PROVE  ConnectorsInv' /\ C!KeepsToInterval
  BY <1>1, <1>13, ConnectorsSave DEF C!SaveList, C!history
<1>14. ASSUME NEW t \in Thread, C!WriteConfig(t) \/ C!LoadIds(t) \/ C!SaveIds(t)
       PROVE  ConnectorsInv' /\ C!KeepsToInterval
  BY <1>1, <1>14, ConnectorsConfigure DEF C!WriteConfig, C!LoadIds, C!SaveIds, C!history
<1> QED
  BY <1>2, <1>3, <1>4, <1>6, <1>7, <1>8, <1>9, <1>10, <1>11, <1>12, <1>13, <1>14, Zenon DEF C!Next

LEMMA ConnectorsAmongDesks ==
    /\ Init => (desk = "connectors" => ConnectorsInv)
    /\ (desk = "connectors" => ConnectorsInv) /\ [Next]_vars =>
          /\ (desk = "connectors" => ConnectorsInv)'
          /\ [desk = "connectors" => C!KeepsToInterval]_vars
<1>1. Init /\ desk = "connectors" => C!Init
  BY DEF Init, InitReviews, InitSources, InitConnectors, InitWorkflows, InitRegistries,
         InitGraph, InitClaims, InitRooms, InitStore, InitRules
<1>2. [Next]_vars => /\ desk' = desk
                     /\ desk = "connectors" => C!Next \/ UNCHANGED C!vars
  BY DEF Next, NextReviews, NextSources, NextConnectors, NextWorkflows, NextRegistries, NextGraph,
         NextClaims, NextRooms, NextStore, vars, shared, ofConnectors, C!vars, C!disk, C!counters, C!history
<1>3. UNCHANGED C!vars => C!KeepsToInterval
  BY DEF C!vars, C!history, C!KeepsToInterval
<1> QED
  BY <1>1, <1>2, <1>3, ConnectorsStart, ConnectorsStep

\* Between two successful syncs that run_due_schedules makes for the first schedule of a connector its
\* interval goes by, whatever was edited, toggled or synced by hand in between, if no two threads
\* worked on the connector at once and none died on it.
THEOREM ConnectorsKeepToIntervals == Spec => ServedAtItsInterval
<1>1. (desk = "connectors" => ConnectorsInv) /\ [Next]_vars => [desk = "connectors" => C!KeepsToInterval]_vars
  BY ConnectorsAmongDesks
<1> QED
  BY <1>1, ConnectorsAmongDesks, PTL DEF Spec, ServedAtItsInterval
=============================================================================
