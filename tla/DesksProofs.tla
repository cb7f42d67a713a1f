----------------------------- MODULE DesksProofs -----------------------------
(***************************************************************************)
(* Proofs about the stores of a workspace: the desks of Desks, one after     *)
(* the other.  For each desk there is an invariant that its requests keep    *)
(* however they interleave, what it implies of its files, and the theorem    *)
(* that it holds in every behaviour of the composition.                     *)
(***************************************************************************)
EXTENDS Desks, FiniteSetTheorems, SequenceTheorems, WellFoundedInduction, TLAPS

-----------------------------------------------------------------------------
(* Reviews                                                                  *)

ReviewStatus == {"none", "pending_review", "approved", "rejected", "changes_requested"}
ReviewRecord == [exec : Exec \cup {None}, status : ReviewStatus, action : R!Action \cup {None}]
ExecutionStatus == {"none", "running", "awaiting_review", "completed", "failed", "rejected"}

ReviewsTypeOK ==
    /\ file \in [Exec -> [status : ExecutionStatus, review : Review \cup {None}]]
    /\ outs \in [Exec -> SUBSET Review]
    /\ review \in [Review -> ReviewRecord]
    /\ thread \in [Thread -> [review : Review \cup {None}, action : R!Action \cup {None},
                              copy : ReviewRecord]]

\* The gates of an execution name reviews that are on record for it.
OutsAreOwn == \A e \in Exec : \A r \in outs[e] : review[r].exec = e

\* What waits to be resolved is of an execution and says nothing of an action.
PendingIsOpen ==
    \A r \in Review : review[r].status = "pending_review" =>
        review[r].exec \in Exec /\ review[r].action = None

Resolving(t, r) == thread[t] # R!Idle /\ thread[t].review = r

\* A thread that resolves a review has loaded it, and none has saved it since, unless
\* two threads were let in; a review keeps its execution even then.
LoadedIsCurrent ==
    \A t \in Thread : thread[t] # R!Idle =>
        LET r == thread[t].review IN
        /\ r \in Review
        /\ review[r].exec \in Exec /\ thread[t].copy.exec = review[r].exec
        /\ r \notin mixed => review[r] = thread[t].copy /\ review[r].status = "pending_review"

\* Two threads that resolve one review are on record as such.
OverlapsAreKnown ==
    \A t, u \in Thread : \A r \in Review :
        t # u /\ Resolving(t, r) /\ Resolving(u, r) => r \in mixed

ReviewsInv ==
    /\ ReviewsTypeOK /\ OutsAreOwn /\ PendingIsOpen /\ LoadedIsCurrent /\ OverlapsAreKnown
    /\ R!AwaitsItsOwnReview

LEMMA ReviewsStart == R!Init => ReviewsInv
BY DesksAssumption
   DEF R!Init, R!NoFile, R!NoReview, R!Idle, ReviewsInv, ReviewsTypeOK, ReviewRecord, ReviewStatus,
       ExecutionStatus, R!Action, OutsAreOwn, PendingIsOpen, LoadedIsCurrent, OverlapsAreKnown,
       Resolving, R!AwaitsItsOwnReview

LEMMA ReviewsStep == ReviewsInv /\ R!Next => ReviewsInv' /\ R!KeepsResolutions
<1> SUFFICES ASSUME ReviewsInv, R!Next PROVE ReviewsInv' /\ R!KeepsResolutions
  OBVIOUS
<1> USE DesksAssumption
    DEF ReviewsInv, ReviewsTypeOK, ReviewRecord, ReviewStatus, ExecutionStatus, R!Action,
        OutsAreOwn, PendingIsOpen, LoadedIsCurrent, OverlapsAreKnown, Resolving,
        R!AwaitsItsOwnReview, R!KeepsResolutions, R!Idle, R!NoReview
\* The engine writes the file of an execution, not the reviews.
<1>1. ASSUME NEW e \in Exec, R!Execute(e) \/ R!Finish(e) \/ R!Break(e) \/ R!Resume(e)
                             \/ R!ResumeEnds(e) \/ R!Delete(e)
      PROVE  ReviewsInv' /\ R!KeepsResolutions
  <2>1. UNCHANGED <<outs, review, thread, mixed>>
    BY <1>1 DEF R!Execute, R!Finish, R!Break, R!Resume, R!ResumeEnds, R!Delete
  <2>2. \E s \in ExecutionStatus \ {"awaiting_review"}, r \in Review \cup {None} :
           file' = [file EXCEPT ![e] = [status |-> s, review |-> r]]
    BY <1>1 DEF R!Execute, R!Finish, R!Break, R!Resume, R!ResumeEnds, R!Delete, R!Save, R!NoFile
  <2>4. ReviewsTypeOK'
    BY <2>1, <2>2
  <2>5. R!AwaitsItsOwnReview'
    BY <2>1, <2>2
  <2>6. OutsAreOwn' /\ PendingIsOpen' /\ LoadedIsCurrent' /\ OverlapsAreKnown' /\ R!KeepsResolutions
    BY <2>1
  <2> QED
    BY <2>4, <2>5, <2>6
<1>2. ASSUME NEW e \in Exec, R!PauseForReview(e) PROVE ReviewsInv' /\ R!KeepsResolutions
  BY <1>2 DEF R!PauseForReview, R!Save
<1>3. ASSUME NEW e \in Exec, NEW r \in Review, R!GateAsks(e, r)
      PROVE  ReviewsInv' /\ R!KeepsResolutions
  BY <1>3 DEF R!GateAsks, R!Save, R!Asked
<1>4. ASSUME NEW t \in Thread, R!SaveReview(t) PROVE ReviewsInv' /\ R!KeepsResolutions
  <2>1. R!StatusFor(thread[t].action) \in {"approved", "rejected", "changes_requested"}
    BY Zenon DEF R!StatusFor
  <2>2. /\ thread[t].review \in Review /\ thread[t] # R!Idle
        /\ thread[t].copy.exec = review[thread[t].review].exec
        /\ \A u \in Thread : u # t /\ Resolving(u, thread[t].review) => thread[t].review \in mixed
    BY <1>4 DEF R!SaveReview
  <2>3. ReviewsTypeOK'
    BY <1>4, <2>1, <2>2 DEF R!SaveReview, R!engine
  <2>4. OutsAreOwn' /\ R!AwaitsItsOwnReview'
    BY <1>4, <2>1, <2>2 DEF R!SaveReview, R!engine
  <2>5. PendingIsOpen'
    BY <1>4, <2>1, <2>2 DEF R!SaveReview, R!engine
  <2>7. LoadedIsCurrent'
    BY <1>4, <2>1, <2>2 DEF R!SaveReview, R!engine
  <2>6. OverlapsAreKnown'
    BY <1>4, <2>1, <2>2 DEF R!SaveReview, R!engine
  <2>8. R!KeepsResolutions
    BY <1>4, <2>1, <2>2 DEF R!SaveReview, R!engine
  <2> QED
    BY <2>3, <2>4, <2>5, <2>6, <2>7, <2>8
<1>5. ASSUME NEW t \in Thread, NEW r \in Review, NEW a \in R!Action, R!LoadReview(t, r, a)
      PROVE  ReviewsInv' /\ R!KeepsResolutions
  <2>1. /\ thread' = [thread EXCEPT ![t] = [review |-> r, action |-> a, copy |-> review[r]]]
        /\ review[r].status = "pending_review" /\ thread[t] = R!Idle
        /\ UNCHANGED <<file, outs, review>>
    BY <1>5 DEF R!LoadReview, R!engine
  <2>2. review[r].exec \in Exec
    BY <2>1
  <2>3. ReviewsTypeOK' /\ OutsAreOwn' /\ PendingIsOpen' /\ R!AwaitsItsOwnReview' /\ R!KeepsResolutions
    BY <2>1
  <2>4. LoadedIsCurrent'
    BY <1>5, <2>1, <2>2 DEF R!LoadReview
  <2>5. mixed \subseteq mixed' /\ \A u \in Thread : Resolving(u, r) => r \in mixed'
    BY <1>5 DEF R!LoadReview
  <2>6. ASSUME NEW u \in Thread, NEW v \in Thread, NEW q \in Review,
               u # v, Resolving(u, q)', Resolving(v, q)'
        PROVE  q \in mixed'
    <3>1. CASE u = t
      BY <2>1, <2>5, <2>6, <3>1
    <3>2. CASE v = t
      BY <2>1, <2>5, <2>6, <3>2
    <3>3. CASE u # t /\ v # t
      <4>1. thread'[u] = thread[u] /\ thread'[v] = thread[v]
        BY <2>1, <3>3
      <4>2. Resolving(u, q) /\ Resolving(v, q)
        BY <2>6, <4>1
      <4> QED
        BY <2>5, <2>6, <4>2
    <3> QED
      BY <3>1, <3>2, <3>3
  <2> QED
    BY <2>3, <2>4, <2>6
<1>6. ASSUME R!Crash PROVE ReviewsInv' /\ R!KeepsResolutions
  BY <1>6 DEF R!Crash
<1> QED
  BY SMTT(40), <1>1, <1>2, <1>3, <1>4, <1>5, <1>6 DEF R!Next

LEMMA ReviewsRest == ReviewsInv /\ UNCHANGED R!vars => ReviewsInv' /\ R!KeepsResolutions
BY DEF R!vars, R!engine, ReviewsInv, ReviewsTypeOK, OutsAreOwn, PendingIsOpen, LoadedIsCurrent,
       OverlapsAreKnown, Resolving, R!AwaitsItsOwnReview, R!KeepsResolutions

LEMMA ReviewsAmongDesks ==
    /\ Init => (desk = "reviews" => ReviewsInv)
    /\ (desk = "reviews" => ReviewsInv) /\ [Next]_vars =>
           (desk = "reviews" => ReviewsInv)' /\ (desk = "reviews" => R!KeepsResolutions)
<1>1. Init /\ desk = "reviews" => R!Init
  BY DEF Init, InitReviews, InitSources, InitConnectors, InitWorkflows, InitRegistries,
         InitGraph, InitClaims, InitRooms, InitStore, InitRules
<1>2. [Next]_vars => desk' = desk /\ (desk = "reviews" => R!Next \/ UNCHANGED R!vars)
  BY DEF Next, NextReviews, NextSources, NextConnectors, NextWorkflows, NextRegistries, NextGraph,
         NextClaims, NextRooms, NextStore, vars, shared, ofReviews, R!vars, R!engine
<1> QED
  BY <1>1, <1>2, ReviewsStart, ReviewsStep, ReviewsRest

\* An execution that waits for a review names one that is on record for it, whatever the
\* engine, the review routes and crashes do (ReviewGateNode, resolve_review).
THEOREM ExecutionsAwaitTheirOwnReview == Spec => []AwaitsItsOwnReview
<1>1. (desk = "reviews" => ReviewsInv) => AwaitsItsOwnReview
  BY DEF ReviewsInv, AwaitsItsOwnReview
<1> QED
  BY <1>1, ReviewsAmongDesks, PTL DEF Spec

\* What one reviewer decided, a later request does not change (resolve_review).
THEOREM ResolutionsAreFinal == Spec => ResolutionIsFinal
<1>1. (desk = "reviews" => ReviewsInv) /\ [Next]_vars => [desk = "reviews" => R!KeepsResolutions]_vars
  BY ReviewsAmongDesks
<1> QED
  BY <1>1, ReviewsAmongDesks, PTL DEF Spec, ResolutionIsFinal

-----------------------------------------------------------------------------
(* Registries                                                               *)

\* What is left of a request, from what it checks to what it writes.
Checking == {<<"get">>, <<"get", "load", "truncate", "write">>, <<"who", "load", "truncate", "write">>}
Changing == {<<"load", "truncate", "write">>, <<"truncate", "write">>, <<"write">>}

RegistryOp == {"read", "ensure", "create", "change", "delete"}
RegistryRecord == [id : Id, by : Nat]
RegistryWork == [todo : Checking \cup Changing, op : RegistryOp, f : G!RegistryFile, id : Id, by : Nat,
                 copy : SUBSET RegistryRecord]

RegistriesTypeOK ==
    /\ file \in [G!RegistryFile -> SUBSET RegistryRecord]
    /\ thread \in [Thread -> RegistryWork \cup {G!Idle}]
    /\ torn \subseteq G!RegistryFile /\ mixed \subseteq G!RegistryFile
    /\ requests \in Nat /\ crashes \in Nat

\* Whoever is about to change a file may write it, in the eyes of later requests too.
WritersMayWrite ==
    \A t \in Thread :
        /\ thread[t].todo \in Changing \cup (Checking \ {<<"get">>}) =>
               G!MayWrite(thread[t].op, thread[t].f)
        /\ thread[t].todo = <<"get">> => thread[t].op = "read"

\* Two requests that may write a file are on record as such.
WritersAreKnown ==
    \A t, u \in Thread :
        /\ t # u /\ thread[t] # G!Idle /\ thread[u] # G!Idle /\ thread[t].f = thread[u].f
        /\ G!MayWrite(thread[t].op, thread[t].f) /\ G!MayWrite(thread[u].op, thread[u].f)
        => thread[t].f \in mixed

\* A file is truncated while someone writes it, and nobody else.
TornIsWritten ==
    \A f \in torn : \E t \in Thread : thread[t].todo = <<"write">> /\ thread[t].f = f

\* What is about to be written has the records of others as they are in the file.
CopyHoldsOthers ==
    \A t \in Thread :
        thread[t].todo \in {<<"truncate", "write">>, <<"write">>} /\ thread[t].f \notin mixed =>
            \A r \in file[thread[t].f] : r.id # thread[t].id => r \in thread[t].copy

RegistriesInv ==
    /\ RegistriesTypeOK /\ WritersMayWrite /\ WritersAreKnown /\ TornIsWritten /\ CopyHoldsOthers

\* Short programs put one after the other.
LEMMA ConcatTuples ==
    ASSUME NEW a, NEW b, NEW c, NEW d
    PROVE  /\ <<a>> \o <<c, d>> = <<a, c, d>>
           /\ <<a, b>> \o <<c, d>> = <<a, b, c, d>>
<1> DEFINE P == {a, b, c, d}
<1>1. /\ <<a>> \in Seq(P) /\ <<a, b>> \in Seq(P) /\ <<c, d>> \in Seq(P)
      /\ <<a, c, d>> \in Seq(P) /\ <<a, b, c, d>> \in Seq(P)
  OBVIOUS
<1>2. Len(<<a>>) = 1 /\ Len(<<a, b>>) = 2 /\ Len(<<a, c, d>>) = 3 /\ Len(<<a, b, c, d>>) = 4
  OBVIOUS
<1>3. <<a>> \o <<c, d>> \in Seq(P) /\ <<a, b>> \o <<c, d>> \in Seq(P)
  BY <1>1, ConcatProperties
<1>4. Len(<<a>> \o <<c, d>>) = 3 /\ \A i \in 1..3 : (<<a>> \o <<c, d>>)[i] = <<a, c, d>>[i]
  BY <1>1, <1>2, ConcatProperties
<1>5. Len(<<a, b>> \o <<c, d>>) = 4 /\ \A i \in 1..4 : (<<a, b>> \o <<c, d>>)[i] = <<a, b, c, d>>[i]
  BY <1>1, <1>2, ConcatProperties
<1> QED
  BY <1>1, <1>2, <1>3, <1>4, <1>5, SeqEqual, ZenonT(40)

LEMMA RegistryPrograms ==
    ASSUME NEW op \in RegistryOp, NEW f \in G!RegistryFile
    PROVE  /\ G!Program(op, f) \in Checking \cup Changing
           /\ G!Program(op, f) \notin {<<"truncate", "write">>, <<"write">>}
           /\ G!Program(op, f) = <<"get">> <=> op = "read"
<1> DEFINE full == <<"get", "load", "truncate", "write">>
           who == <<"who", "load", "truncate", "write">>
           plain == <<"load", "truncate", "write">>
<1>1. /\ <<"get", "load">> \o G!Write = full /\ <<"who", "load">> \o G!Write = who
      /\ <<"load">> \o G!Write = plain
  BY ConcatTuples DEF G!Write
<1>2. op = "read" => G!Program(op, f) = <<"get">>
  BY DEF G!Program
<1>3. op # "read" => G!Program(op, f) \in {full, who, plain}
  BY <1>1, Zenon DEF G!Program
<1>4. <<"get">> \notin {full, who, plain}
  OBVIOUS
<1>5. {full, who, plain} \cap {<<"truncate", "write">>, <<"write">>} = {}
  OBVIOUS
<1> HIDE DEF full, who, plain
<1> QED
  BY <1>2, <1>3, <1>4, <1>5 DEF Checking, Changing, full, who, plain

LEMMA RegistrySteps ==
    ASSUME NEW s \in Checking \cup Changing
    PROVE  /\ s # <<>>
           /\ Head(s) = "get" => s = <<"get">> \/ Tail(s) = <<"load", "truncate", "write">>
           /\ Head(s) = "who" => s # <<"get">> /\ Tail(s) = <<"load", "truncate", "write">>
           /\ Head(s) = "load" <=> s = <<"load", "truncate", "write">>
           /\ Head(s) = "load" => Tail(s) = <<"truncate", "write">>
           /\ Head(s) = "truncate" <=> s = <<"truncate", "write">>
           /\ Head(s) = "truncate" => Tail(s) = <<"write">>
           /\ Head(s) = "write" <=> s = <<"write">>
<1>1. CASE s = <<"get">>
  BY <1>1
<1>2. CASE s = <<"get", "load", "truncate", "write">>
  BY <1>2
<1>3. CASE s = <<"who", "load", "truncate", "write">>
  BY <1>3
<1>4. CASE s = <<"load", "truncate", "write">>
  BY <1>4
<1>5. CASE s = <<"truncate", "write">>
  BY <1>5
<1>6. CASE s = <<"write">>
  BY <1>6
<1> QED
  BY <1>1, <1>2, <1>3, <1>4, <1>5, <1>6 DEF Checking, Changing

LEMMA RegistriesStart == G!Init => RegistriesInv
<1> SUFFICES ASSUME G!Init PROVE RegistriesInv
  OBVIOUS
<1>1. RegistriesTypeOK
  BY DesksAssumption DEF G!Init, RegistriesTypeOK, RegistryRecord
<1>2. G!Idle.todo \notin Checking \cup Changing
  BY DEF G!Idle, Checking, Changing
<1>3. \A t \in Thread : thread[t] = G!Idle
  BY DEF G!Init
<1>4. WritersMayWrite /\ CopyHoldsOthers
  BY <1>2, <1>3 DEF WritersMayWrite, CopyHoldsOthers, Checking, Changing, G!Idle
<1> QED
  BY <1>1, <1>3, <1>4 DEF G!Init, RegistriesInv, WritersAreKnown, TornIsWritten

\* What a thread does next while its request goes on or ends, and the file stays as it is.
GoesOn(t, th) ==
    /\ thread[t] \in RegistryWork /\ th \in RegistryWork \cup {G!Idle}
    /\ th # G!Idle =>
           /\ th.f = thread[t].f /\ th.op = thread[t].op /\ th.id = thread[t].id
           /\ G!MayWrite(th.op, th.f) /\ th.todo # <<"get">>
           /\ \/ th.todo \notin {<<"truncate", "write">>, <<"write">>} \/ th.f \in mixed
              \/ \A r \in file[th.f] : r.id # th.id => r \in th.copy
    /\ \/ torn' = torn /\ thread[t].todo # <<"write">>
       \/ torn' = torn \cup {th.f} /\ th \in RegistryWork /\ th.todo = <<"write">>
    /\ thread' = [thread EXCEPT ![t] = th]
    /\ UNCHANGED <<demo, file, requests, crashes, mixed>>

LEMMA RegistriesStep == RegistriesInv /\ G!Next => RegistriesInv' /\ G!ChangesOwnRecord
<1> SUFFICES ASSUME RegistriesInv, G!Next PROVE RegistriesInv' /\ G!ChangesOwnRecord
  OBVIOUS
<1> USE DEF RegistriesInv
\* A request begins.
<1>1. ASSUME NEW t \in Thread, NEW op \in RegistryOp, NEW f \in G!RegistryFile, NEW id \in Id,
             op # "read" => G!MayWrite(op, f), G!Begin(t, op, f, id)
      PROVE  RegistriesInv' /\ G!ChangesOwnRecord
  <2> DEFINE th == [todo |-> G!Program(op, f), op |-> op, f |-> f, id |-> id, by |-> requests', copy |-> {}]
  <2>1. /\ thread[t] = G!Idle /\ thread' = [thread EXCEPT ![t] = th]
        /\ requests' = requests + 1 /\ UNCHANGED <<demo, file, torn, crashes>>
    BY <1>1 DEF G!Begin, G!Idle
  <2>2. th \in RegistryWork
    BY <2>1, RegistryPrograms DEF RegistriesTypeOK, RegistryWork
  <2>3. /\ mixed \subseteq mixed' /\ mixed' \subseteq mixed \cup {f}
        /\ \A u \in Thread : /\ G!MayWrite(op, f) /\ thread[u].f = f
                              /\ G!MayWrite(thread[u].op, f) => f \in mixed'
    BY <1>1 DEF G!Begin
  <2> HIDE DEF th
  <2>4. RegistriesTypeOK'
    BY <2>1, <2>2, <2>3 DEF RegistriesTypeOK
  <2>5. WritersMayWrite'
    <3>1. /\ th.todo \in Changing \cup (Checking \ {<<"get">>}) => G!MayWrite(th.op, th.f)
          /\ th.todo = <<"get">> => th.op = "read"
      <4>1. <<"get">> \notin Changing
        BY DEF Changing
      <4> QED
        BY <1>1, <4>1, RegistryPrograms DEF th
    <3> QED
      BY <2>1, <3>1 DEF WritersMayWrite, RegistriesTypeOK, G!MayWrite
  <2>6. WritersAreKnown'
    BY <2>1, <2>3 DEF WritersAreKnown, RegistriesTypeOK, th, G!MayWrite
  <2>7. TornIsWritten'
      <3>1. G!Idle.todo # <<"write">>
      BY DEF G!Idle
    <3>2. ASSUME NEW g \in torn PROVE \E u \in Thread : thread'[u].todo = <<"write">> /\ thread'[u].f = g
      <4>1. PICK u \in Thread : thread[u].todo = <<"write">> /\ thread[u].f = g
        BY DEF TornIsWritten
      <4> QED
        BY <2>1, <3>1, <4>1 DEF RegistriesTypeOK
    <3> QED
      BY <2>1, <3>2 DEF TornIsWritten
  <2>8. CopyHoldsOthers'
    BY <2>1, <2>3, RegistryPrograms DEF CopyHoldsOthers, th, RegistriesTypeOK
  <2> QED
    BY <2>1, <2>4, <2>5, <2>6, <2>7, <2>8 DEF G!ChangesOwnRecord
\* A request goes on, and the file stays as it is.
<1>2. ASSUME NEW t \in Thread, NEW th, GoesOn(t, th) PROVE RegistriesInv' /\ G!ChangesOwnRecord
  <2> USE DEF GoesOn
  <2>1. RegistriesTypeOK'
    BY <1>2 DEF RegistriesTypeOK, RegistryWork
  <2>2. G!Idle.todo \notin Checking \cup Changing
    BY DEF G!Idle, Checking, Changing
  <2>3. WritersMayWrite'
    <3>1. G!Idle.todo # <<"get">>
      BY DEF G!Idle
    <3> QED
      BY <1>2, <2>2, <3>1 DEF WritersMayWrite, RegistriesTypeOK, G!MayWrite
  <2>4. thread[t] # G!Idle
    BY <1>2, <2>2 DEF RegistryWork
  <2>5. G!MayWrite(thread[t].op, thread[t].f) \/ th = G!Idle
    BY <1>2
  <2>6. WritersAreKnown'
    BY <1>2, <2>4, <2>5 DEF WritersAreKnown, RegistriesTypeOK, G!MayWrite
  <2>7. TornIsWritten'
    <3>1. ASSUME NEW g \in torn PROVE \E u \in Thread : thread'[u].todo = <<"write">> /\ thread'[u].f = g
      <4>1. PICK u \in Thread : thread[u].todo = <<"write">> /\ thread[u].f = g
        BY DEF TornIsWritten
      <4>2. CASE u # t
        BY <1>2, <4>1, <4>2 DEF RegistriesTypeOK
      <4>3. CASE u = t
        BY <1>2, <2>2, <4>1, <4>3 DEF RegistriesTypeOK, RegistryWork
      <4> QED
        BY <4>2, <4>3
    <3>2. CASE torn' = torn
      BY <3>1, <3>2 DEF TornIsWritten
    <3>3. CASE torn' = torn \cup {th.f} /\ th.todo = <<"write">>
      <4>1. thread'[t] = th
        BY <1>2 DEF RegistriesTypeOK
      <4> QED
        BY <3>1, <3>3, <4>1 DEF TornIsWritten
    <3> QED
      BY <1>2, <3>2, <3>3
  <2>8. CopyHoldsOthers'
    BY <1>2, <2>2 DEF CopyHoldsOthers, RegistriesTypeOK, Changing
  <2> QED
    BY <1>2, <2>1, <2>3, <2>6, <2>7, <2>8 DEF G!ChangesOwnRecord
<1>3. ASSUME NEW t \in Thread, NEW do, G!Does(t, do)
      PROVE  thread[t] \in RegistryWork /\ Head(thread[t].todo) = do
  BY <1>3 DEF G!Does, RegistriesTypeOK, G!Idle
\* A request that goes on is the same request.
<1>4. ASSUME NEW w \in RegistryWork, Tail(w.todo) \in Changing, NEW x, x = [w EXCEPT !.todo = Tail(@)]
      PROVE  /\ x \in RegistryWork /\ x.todo = Tail(w.todo) /\ x.copy = w.copy
             /\ x.f = w.f /\ x.op = w.op /\ x.id = w.id
  BY <1>4 DEF RegistryWork
<1>5. ASSUME NEW t \in Thread, G!Get(t) PROVE RegistriesInv' /\ G!ChangesOwnRecord
  <2> DEFINE th == [thread[t] EXCEPT !.todo = Tail(@)]
  <2>1. G!Does(t, "get") /\ UNCHANGED <<demo, file, torn, requests, crashes, mixed>>
    BY <1>5 DEF G!Get
  <2>2. thread[t] \in RegistryWork /\ Head(thread[t].todo) = "get"
    BY <1>3, <2>1
  <2>3. thread[t].todo \in Checking \cup Changing /\ thread[t].todo # <<"write">>
    BY <2>2, RegistrySteps DEF RegistryWork
  <2>4. CASE thread' = [thread EXCEPT ![t] = G!Idle]
    <3>1. GoesOn(t, G!Idle)
      BY <2>1, <2>2, <2>3, <2>4 DEF GoesOn
    <3> QED
      BY <1>2, <3>1
  <2>5. CASE thread' = [thread EXCEPT ![t] = th] /\ thread[t].op # "read"
    <3>1. thread[t].todo # <<"get">>
      BY <2>5 DEF WritersMayWrite
    <3>2. Tail(thread[t].todo) = <<"load", "truncate", "write">>
      BY <2>2, <2>3, <3>1, RegistrySteps
    <3>3. G!MayWrite(thread[t].op, thread[t].f)
      BY <2>2, <3>1 DEF WritersMayWrite, RegistryWork
    <3> HIDE DEF th
    <3>4. /\ th \in RegistryWork /\ th.todo = <<"load", "truncate", "write">>
          /\ th.f = thread[t].f /\ th.op = thread[t].op /\ th.id = thread[t].id
      BY <2>2, <3>2, <1>4 DEF Changing, th
    <3>5. GoesOn(t, th)
      BY <2>1, <2>2, <2>3, <2>5, <3>3, <3>4 DEF GoesOn, th
    <3> QED
      BY <1>2, <3>5
  <2> QED
    BY <1>5, <2>4, <2>5 DEF G!Get, G!Then, G!Ends
<1>6. ASSUME NEW t \in Thread, G!GetUser(t) PROVE RegistriesInv' /\ G!ChangesOwnRecord
  <2> DEFINE th == [thread[t] EXCEPT !.todo = Tail(@)]
  <2>1. G!Does(t, "who") /\ UNCHANGED <<demo, file, torn, requests, crashes, mixed>>
    BY <1>6 DEF G!GetUser
  <2>2. thread[t] \in RegistryWork /\ Head(thread[t].todo) = "who"
    BY <1>3, <2>1
  <2>3. /\ thread[t].todo \in Checking \cup Changing
        /\ thread[t].todo \notin {<<"write">>, <<"get">>}
        /\ Tail(thread[t].todo) = <<"load", "truncate", "write">>
    BY <2>2, RegistrySteps DEF RegistryWork
  <2>4. CASE thread' = [thread EXCEPT ![t] = G!Idle]
    <3>1. GoesOn(t, G!Idle)
      BY <2>1, <2>2, <2>3, <2>4 DEF GoesOn
    <3> QED
      BY <1>2, <3>1
  <2>5. CASE thread' = [thread EXCEPT ![t] = th]
    <3>3. G!MayWrite(thread[t].op, thread[t].f)
      BY <2>2, <2>3 DEF WritersMayWrite, RegistryWork
    <3> HIDE DEF th
    <3>4. /\ th \in RegistryWork /\ th.todo = <<"load", "truncate", "write">>
          /\ th.f = thread[t].f /\ th.op = thread[t].op /\ th.id = thread[t].id
      BY <2>2, <2>3, <1>4 DEF Changing, th
    <3>5. GoesOn(t, th)
      BY <2>1, <2>2, <2>3, <2>5, <3>3, <3>4 DEF GoesOn, th
    <3> QED
      BY <1>2, <3>5
  <2> QED
    BY <1>6, <2>4, <2>5 DEF G!GetUser, G!Then, G!Ends
<1>7. ASSUME NEW t \in Thread, G!Load(t) PROVE RegistriesInv' /\ G!ChangesOwnRecord
  <2> DEFINE w == thread[t]
             records == G!Seen(w.f)
             copy == IF w.op = "delete" THEN G!Without(records, w.id) ELSE G!Saved(w, records)
             c == [w EXCEPT !.copy = copy]
             th == [c EXCEPT !.todo = Tail(@)]
  <2>1. G!Does(t, "load") /\ UNCHANGED <<demo, file, torn, requests, crashes, mixed>>
    BY <1>7 DEF G!Load
  <2>2. w \in RegistryWork /\ Head(w.todo) = "load"
    BY <1>3, <2>1
  <2>3. /\ w.todo \in Checking \cup Changing /\ w.todo = <<"load", "truncate", "write">>
        /\ Tail(w.todo) = <<"truncate", "write">>
    BY <2>2, RegistrySteps DEF RegistryWork
  <2>4. CASE thread' = [thread EXCEPT ![t] = G!Idle]
    <3>1. GoesOn(t, G!Idle)
      BY <2>1, <2>2, <2>3, <2>4 DEF GoesOn
    <3> QED
      BY <1>2, <3>1
  <2>5. CASE thread' = [thread EXCEPT ![t] = th]
    <3>1. records \subseteq RegistryRecord /\ (w.f \notin torn => records = file[w.f])
      BY <2>2 DEF RegistriesTypeOK, RegistryWork, G!Seen
    <3>2. copy \subseteq RegistryRecord /\ \A r \in records : r.id # w.id => r \in copy
      BY <2>2, <3>1 DEF RegistryWork, RegistryRecord, G!Without, G!Saved
    <3>3. G!MayWrite(w.op, w.f)
      BY <2>2, <2>3 DEF WritersMayWrite, Changing
    \* While someone else has truncated it, two requests that may write it overlap.
    <3>4. w.f \in torn => w.f \in mixed
      <4>1. SUFFICES ASSUME w.f \in torn PROVE w.f \in mixed
        OBVIOUS
      <4>2. PICK u \in Thread : thread[u].todo = <<"write">> /\ thread[u].f = w.f
        BY <4>1 DEF TornIsWritten
      <4>3. u # t /\ G!MayWrite(thread[u].op, thread[u].f)
        <5>1. <<"load", "truncate", "write">> # <<"write">>
          OBVIOUS
        <5> QED
          BY <2>3, <4>2, <5>1 DEF WritersMayWrite, Changing
      <4>4. w # G!Idle /\ thread[u] # G!Idle
        BY SMTT(40), <2>3, <4>2 DEF G!Idle
      <4> QED
        BY <3>3, <4>2, <4>3, <4>4 DEF WritersAreKnown
    <3> HIDE DEF copy, records
    <3>5. /\ c \in RegistryWork /\ c.todo = w.todo /\ c.copy = copy
          /\ c.f = w.f /\ c.op = w.op /\ c.id = w.id
      BY <2>2, <3>2 DEF RegistryWork
    <3> HIDE DEF c
    <3>6. /\ th \in RegistryWork /\ th.todo = <<"truncate", "write">> /\ th.copy = copy
          /\ th.f = w.f /\ th.op = w.op /\ th.id = w.id
      BY <2>3, <3>5, <1>4 DEF Changing
    <3> HIDE DEF th
    <3>7. th.f \in mixed \/ \A r \in file[th.f] : r.id # th.id => r \in th.copy
      BY <3>1, <3>2, <3>4, <3>6
    <3>8. GoesOn(t, th)
      BY <2>1, <2>2, <2>3, <2>5, <3>3, <3>6, <3>7 DEF GoesOn
    <3> QED
      BY <1>2, <3>8
  <2> QED
    BY <1>7, <2>4, <2>5 DEF G!Load, G!Then, G!Ends
<1>8. ASSUME NEW t \in Thread, G!Truncate(t) PROVE RegistriesInv' /\ G!ChangesOwnRecord
  <2> DEFINE th == [thread[t] EXCEPT !.todo = Tail(@)]
  <2>1. /\ G!Does(t, "truncate") /\ torn' = torn \cup {thread[t].f}
        /\ thread' = [thread EXCEPT ![t] = th]
        /\ UNCHANGED <<demo, file, requests, crashes, mixed>>
    BY <1>8 DEF G!Truncate, G!Then
  <2>2. thread[t] \in RegistryWork /\ Head(thread[t].todo) = "truncate"
    BY <1>3, <2>1
  <2>3. /\ thread[t].todo = <<"truncate", "write">> /\ Tail(thread[t].todo) = <<"write">>
    BY <2>2, RegistrySteps DEF RegistryWork
  <2>4. /\ G!MayWrite(thread[t].op, thread[t].f)
        /\ \/ thread[t].f \in mixed
           \/ \A r \in file[thread[t].f] : r.id # thread[t].id => r \in thread[t].copy
    BY <2>3 DEF WritersMayWrite, CopyHoldsOthers, Changing
  <2> HIDE DEF th
  <2>5. /\ th \in RegistryWork /\ th.todo = <<"write">> /\ th.copy = thread[t].copy
        /\ th.f = thread[t].f /\ th.op = thread[t].op /\ th.id = thread[t].id
    BY <2>2, <2>3, <1>4 DEF Changing, th
  <2>6. GoesOn(t, th)
    BY <2>1, <2>2, <2>4, <2>5 DEF GoesOn
  <2> QED
    BY <1>2, <2>6
\* What is written is what the file held of the others.
<1>9. ASSUME NEW t \in Thread, G!Store(t) PROVE RegistriesInv' /\ G!ChangesOwnRecord
  <2> DEFINE w == thread[t]
  <2>1. /\ G!Does(t, "write") /\ file' = [file EXCEPT ![w.f] = w.copy] /\ torn' = torn \ {w.f}
        /\ thread' = [thread EXCEPT ![t] = G!Idle] /\ UNCHANGED <<demo, requests, crashes, mixed>>
    BY <1>9 DEF G!Store, G!Ends
  <2>2. w \in RegistryWork /\ Head(w.todo) = "write"
    BY <1>3, <2>1
  <2>3. w.todo = <<"write">> /\ w.f \in G!RegistryFile /\ w # G!Idle
    BY <2>2, RegistrySteps DEF RegistryWork, G!Idle
  <2>4. w.f \in mixed \/ \A r \in file[w.f] : r.id # w.id => r \in w.copy
    BY <2>3 DEF CopyHoldsOthers
  <2>5. RegistriesTypeOK'
    BY <2>1, <2>2 DEF RegistriesTypeOK, RegistryWork
  <2>6. G!Idle.todo \notin Checking \cup Changing
    BY DEF G!Idle, Checking, Changing
  <2>7. WritersMayWrite'
    <3>1. G!Idle.todo # <<"get">>
      BY DEF G!Idle
    <3> QED
      BY <2>1, <2>6, <3>1 DEF WritersMayWrite, RegistriesTypeOK, G!MayWrite
  <2>8. WritersAreKnown'
    BY <2>1 DEF WritersAreKnown, RegistriesTypeOK, G!MayWrite
  <2>9. TornIsWritten'
    <3>1. ASSUME NEW g \in torn' PROVE \E u \in Thread : thread'[u].todo = <<"write">> /\ thread'[u].f = g
      <4>1. PICK u \in Thread : thread[u].todo = <<"write">> /\ thread[u].f = g
        BY <2>1, <3>1 DEF TornIsWritten
      <4>2. u # t
        BY <2>1, <3>1, <4>1
      <4> QED
        BY <2>1, <4>1, <4>2 DEF RegistriesTypeOK
    <3> QED
      BY <3>1 DEF TornIsWritten
  \* Another request that is writing this file overlaps with this one.
  <2>10. CopyHoldsOthers'
    <3>1. SUFFICES ASSUME NEW u \in Thread,
                          thread'[u].todo \in {<<"truncate", "write">>, <<"write">>},
                          thread'[u].f \notin mixed'
                   PROVE  \A r \in file'[thread'[u].f] : r.id # thread'[u].id => r \in thread'[u].copy
      BY DEF CopyHoldsOthers
    <3>2. u # t /\ thread'[u] = thread[u]
      BY <2>1, <2>6, <3>1 DEF RegistriesTypeOK, Changing
    <3>3. thread[u] # G!Idle
      BY <2>6, <3>1, <3>2 DEF Changing
    <3>4. G!MayWrite(w.op, w.f) /\ G!MayWrite(thread[u].op, thread[u].f)
      BY <2>3, <3>1, <3>2 DEF WritersMayWrite, Changing
    <3>5. thread[u].f # w.f
      BY <2>1, <2>3, <3>1, <3>2, <3>3, <3>4 DEF WritersAreKnown
    <3>6. file'[thread[u].f] = file[thread[u].f]
      BY <2>1, <3>3, <3>5 DEF RegistriesTypeOK, RegistryWork
    <3> QED
      BY <2>1, <3>1, <3>2, <3>6 DEF CopyHoldsOthers
  <2>11. G!ChangesOwnRecord
    BY <2>1, <2>3, <2>4 DEF G!ChangesOwnRecord, RegistriesTypeOK
  <2> QED
    BY <2>5, <2>7, <2>8, <2>9, <2>10, <2>11
\* Those who die writing leave a file without records.
<1>10. CASE G!Crash
  <2>1. /\ file' = [f \in G!RegistryFile |-> G!Seen(f)] /\ torn' = {} /\ crashes' = crashes + 1
        /\ thread' = [t \in Thread |-> G!Idle] /\ UNCHANGED <<demo, requests, mixed>>
    BY <1>10 DEF G!Crash
  <2>2. RegistriesTypeOK'
    BY <2>1 DEF RegistriesTypeOK, G!Seen
  <2>3. G!Idle.todo \notin Checking \cup Changing /\ G!Idle.todo # <<"get">>
    BY DEF G!Idle, Checking, Changing
  <2>4. WritersMayWrite' /\ CopyHoldsOthers'
    BY <2>1, <2>3 DEF WritersMayWrite, CopyHoldsOthers, Changing
  <2>5. WritersAreKnown' /\ TornIsWritten'
    BY <2>1 DEF WritersAreKnown, TornIsWritten
  <2>6. G!ChangesOwnRecord
    BY <2>1 DEF G!ChangesOwnRecord, RegistriesTypeOK, G!Seen
  <2> QED
    BY <2>2, <2>4, <2>5, <2>6
<1>11. ASSUME NEW t \in Thread, G!Create(t) \/ G!Change(t) \/ G!Delete(t) \/ G!EnsureOwner(t) \/ G!Read(t)
       PROVE  RegistriesInv' /\ G!ChangesOwnRecord
  <2>1. PICK op \in RegistryOp, f \in G!RegistryFile, id \in Id :
            (op # "read" => G!MayWrite(op, f)) /\ G!Begin(t, op, f, id)
    <3>1. CASE G!Create(t)
      BY <3>1 DEF G!Create, RegistryOp, G!MayWrite
    <3>2. CASE G!Change(t)
      BY <3>2 DEF G!Change, RegistryOp, G!MayWrite
    <3>3. CASE G!Delete(t)
      BY <3>3 DEF G!Delete, RegistryOp, G!MayWrite, G!RegistryFile
    <3>4. CASE G!EnsureOwner(t)
      BY <3>4, DesksAssumption DEF G!EnsureOwner, RegistryOp, G!MayWrite, G!RegistryFile
    <3>5. CASE G!Read(t)
      BY <3>5, DesksAssumption DEF G!Read, RegistryOp, G!MayWrite
    <3> QED
      BY <1>11, <3>1, <3>2, <3>3, <3>4, <3>5
  <2> QED
    BY <1>1, <2>1
<1> QED
  BY <1>5, <1>6, <1>7, <1>8, <1>9, <1>10, <1>11 DEF G!Next

LEMMA RegistriesRest == RegistriesInv /\ UNCHANGED G!vars => RegistriesInv' /\ G!ChangesOwnRecord
BY DEF G!vars, RegistriesInv, RegistriesTypeOK, WritersMayWrite, WritersAreKnown, TornIsWritten,
       CopyHoldsOthers, G!MayWrite, G!ChangesOwnRecord

LEMMA RegistriesAmongDesks ==
    /\ Init => (desk = "registries" => RegistriesInv)
    /\ (desk = "registries" => RegistriesInv) /\ [Next]_vars =>
           (desk = "registries" => RegistriesInv)' /\ (desk = "registries" => G!ChangesOwnRecord)
<1>1. Init /\ desk = "registries" => G!Init
  BY DEF Init, InitReviews, InitSources, InitConnectors, InitWorkflows, InitRegistries,
         InitGraph, InitClaims, InitRooms, InitStore, InitRules
<1>2. [Next]_vars => desk' = desk /\ (desk = "registries" => G!Next \/ UNCHANGED G!vars)
  BY DEF Next, NextReviews, NextSources, NextConnectors, NextWorkflows, NextRegistries, NextGraph,
         NextClaims, NextRooms, NextStore, vars, shared, ofRegistries, G!vars
<1> QED
  BY <1>1, <1>2, RegistriesStart, RegistriesStep, RegistriesRest

\* A request changes its own record and no other, even of a file it finds truncated: unless two
\* requests that may write overlapped, or one died writing (identity/store.py, approvals.py).
THEOREM OtherRecordsStand == Spec => UntouchedStand
<1>1. (desk = "registries" => RegistriesInv) /\ [Next]_vars => [desk = "registries" => G!ChangesOwnRecord]_vars
  BY RegistriesAmongDesks
<1> QED
  BY <1>1, RegistriesAmongDesks, PTL DEF Spec, UntouchedStand

-----------------------------------------------------------------------------
(* Workflows                                                                *)

Storing == {"ids", "list", "numbers", "version", "index"}

Served(w) == w \in Workflow \ mixed   \* by one request at a time
Stores(t, w) == thread[t].w = w /\ thread[t].at \in Storing
Of(w) == {s \in schedules : s.w = w}

\* The latest version of a workflow is what is on file of it.
Told(w) ==
    index[w] # {} /\ versions[w][W!LatestNumber(index[w])] = stored[w].def

WorkflowsTypeOK ==
    /\ DOMAIN stored = Workflow /\ DOMAIN index = Workflow /\ DOMAIN versions = Workflow
    /\ \A w \in Workflow : DOMAIN versions[w] = 1..MaxRequests
    /\ requests \in 0..MaxRequests /\ DOMAIN thread = Thread
    /\ \A t \in Thread : thread[t].at # "-" => thread[t].w \in Workflow /\ requests # 0

\* Two requests that work on one workflow are on record as such.
SharersAreKnown ==
    \A t, u \in Thread : t # u /\ thread[t].w = thread[u].w => thread[t].w \in mixed \cup {None}

\* There are as many versions as requests at most, one less while a request goes to make another.
NumbersAreRequests ==
    \A w \in Workflow : Served(w) =>
        /\ index[w] \subseteq 1..requests
        /\ \A t \in Thread : Stores(t, w) \/ (thread[t].w = w /\ thread[t].at = "write") =>
               index[w] \subseteq 1..(requests - 1)

\* A request finds the files as it left them, if nobody disturbs it.
AsLeft(t) ==
    LET th == thread[t]
        w == thread[t].w IN
    /\ th.at \in Storing \cup {"schedules", "schedule", "latest", "run"} => stored[w] = th.new
    /\ th.at \in {"latest", "run"} => th.new # None
    /\ th.at \in {"version", "index"} => th.ids = index[w] /\ th.n = W!NextNumber(index[w])
    /\ th.at = "index" => versions[w][th.n] = th.new.def
    /\ th.at = "schedules" => Told(w)
    /\ th.at = "run" => th.n = W!LatestNumber(index[w])

FilesAreAsLeft == \A t \in Thread : Served(thread[t].w) => AsLeft(t)

VersionsAreTold ==
    \A w \in Workflow : Served(w) /\ w \notin torn /\ stored[w] # None =>
        Told(w) \/ \E t \in Thread : Stores(t, w)

\* What an execution is linked to is a version in the index, and stays one.
LinksStand ==
    \A e \in executions : e.w \in Workflow /\ (Served(e.w) /\ ~e.torn =>
        e.linked \in index[e.w] /\ versions[e.w][e.linked] = e.ran)

SchedulesAreOwn ==
    \A t \in Thread :
        /\ thread[t].at = "schedule" <=> thread[t].save \cup thread[t].drop # {}
        /\ \A s \in thread[t].save \cup thread[t].drop : s.w = thread[t].w

\* No node has two schedules, nor gets a second one.
NodesHaveOne ==
    \A w \in Workflow : Served(w) =>
        /\ \A r, s \in Of(w) : r.node = s.node => r = s
        /\ \A t \in Thread : thread[t].w = w =>
               \A r \in thread[t].save : \A s \in Of(w) \cup thread[t].save : r.node = s.node => r = s

\* What is still to be saved and deleted makes the schedules those of the definition.
RestIsToDo ==
    \A t \in Thread : Served(thread[t].w) /\ thread[t].at = "schedule" =>
        /\ W!Nodes((Of(thread[t].w) \ thread[t].drop) \cup thread[t].save) = thread[t].new.def
        /\ \A s \in thread[t].drop : s.node \notin thread[t].new.def

SchedulesAreAll ==
    \A w \in Workflow : Served(w) /\ w \notin torn /\ stored[w] # None =>
        \/ W!Nodes(Of(w)) = stored[w].def
        \/ \E t \in Thread : thread[t].w = w /\ thread[t].at \in Storing \cup {"schedules", "schedule"}

WorkflowsInv ==
    /\ WorkflowsTypeOK /\ SharersAreKnown /\ NumbersAreRequests /\ FilesAreAsLeft
    /\ VersionsAreTold /\ LinksStand /\ SchedulesAreOwn /\ NodesHaveOne /\ RestIsToDo /\ SchedulesAreAll

\* Max is the greatest of a set of numbers that has a bound.
LEMMA Greatest ==
    ASSUME NEW k \in Nat, NEW N \in SUBSET (1..k), N # {}
    PROVE  W!Max(N) \in N /\ \A y \in N : y <= W!Max(N)
<1> DEFINE T == {i..k : i \in N}
<1>1. T \subseteq FiniteSubsetsOf(1..k) /\ T # {}
  <2>1. \A i \in N : i..k \subseteq 1..k
    OBVIOUS
  <2>2. IsFiniteSet(1..k)
    BY FS_Interval
  <2>3. T \subseteq SUBSET (1..k) /\ T # {}
    BY <2>1
  <2> QED
    BY <2>2, <2>3, FS_FiniteSubsetsOfFinite
<1>2. IsWellFoundedOn(StrictSubsetOrdering(1..k), FiniteSubsetsOf(1..k))
  BY FS_StrictSubsetOrderingWellFounded
<1> HIDE DEF T
<1>3. PICK x \in T : \A y \in T : ~ (<<y, x>> \in StrictSubsetOrdering(1..k))
  BY <1>1, <1>2, WFMin
<1>4. PICK m \in N : x = m..k
  BY <1>3 DEF T
<1>5. ASSUME NEW i \in N, m < i PROVE FALSE
  <2>1. i..k \in T
    BY DEF T
  <2>2. i..k \subseteq m..k /\ m \in m..k /\ m \notin i..k /\ m..k \subseteq 1..k
    BY <1>5
  <2>3. <<i..k, m..k>> \in StrictSubsetOrdering(1..k)
    BY <2>2 DEF StrictSubsetOrdering
  <2> QED
    BY <1>3, <1>4, <2>1, <2>3
<1>6. \A y \in N : m >= y
  BY <1>5
<1> QED
  BY <1>6 DEF W!Max

LEMMA VersionNumbers ==
    ASSUME NEW k \in Nat, NEW N \in SUBSET (1..k)
    PROVE  /\ N # {} => W!LatestNumber(N) \in N
           /\ W!NextNumber(N) \in 1..(k + 1) /\ W!NextNumber(N) \notin N
           /\ W!LatestNumber(N \cup {W!NextNumber(N)}) = W!NextNumber(N)
<1> DEFINE n == W!NextNumber(N)
<1>1. n \in 1..(k + 1) /\ \A y \in N : y < n
  <2>1. CASE N = {}
    BY <2>1 DEF W!NextNumber
  <2>2. CASE N # {}
    <3>1. W!Max(N) \in N /\ \A y \in N : y <= W!Max(N)
      BY <2>2, Greatest
    <3>2. n = W!Max(N) + 1
      BY <2>2, Zenon DEF W!NextNumber
    <3>3. \A m \in 1..k : m + 1 \in 1..(k + 1) /\ \A y \in 1..k : y <= m => y < m + 1
      OBVIOUS
    <3>4. W!Max(N) \in 1..k /\ \A y \in N : y \in 1..k /\ y <= W!Max(N)
      BY <3>1, Zenon
    <3> HIDE DEF n
    <3> QED
      BY <3>2, <3>3, <3>4, Zenon
  <2> QED
    BY <2>1, <2>2
<1> HIDE DEF n
<1>2. W!Max(N \cup {n}) \in N \cup {n} /\ \A y \in N \cup {n} : y <= W!Max(N \cup {n})
  <2>1. N \cup {n} \in SUBSET (1..(k + 1)) /\ N \cup {n} # {} /\ k + 1 \in Nat
    BY <1>1
  <2> QED
    BY <2>1, Greatest
<1>3. W!Max(N \cup {n}) = n
  <2>1. \A m \in N \cup {n} : m >= n => m = n
    BY <1>1
  <2> QED
    BY <1>1, <1>2, <2>1
<1>4. W!LatestNumber(N \cup {n}) = n
  BY <1>3, Zenon DEF W!LatestNumber
<1>5. N # {} => W!LatestNumber(N) \in N
  BY Greatest DEF W!LatestNumber
<1> QED
  BY <1>1, <1>4, <1>5 DEF n

LEMMA WorkflowsStart == W!Init => WorkflowsInv
<1> SUFFICES ASSUME W!Init PROVE WorkflowsInv
  OBVIOUS
<1>1. /\ \A t \in Thread : /\ thread[t].at = "-" /\ thread[t].w = None
                           /\ thread[t].save = {} /\ thread[t].drop = {}
      /\ \A w \in Workflow : index[w] = {} /\ stored[w] = None
      /\ schedules = {} /\ executions = {} /\ requests = 0
  BY DEF W!Init, W!Idle
<1>2. None \notin Workflow
  BY DesksAssumption
<1>3. WorkflowsTypeOK
  BY <1>1, DesksAssumption DEF W!Init, W!Number, WorkflowsTypeOK
<1>4. SharersAreKnown /\ NumbersAreRequests /\ VersionsAreTold /\ LinksStand /\ SchedulesAreAll
  BY <1>1, <1>2 DEF SharersAreKnown, NumbersAreRequests, VersionsAreTold, LinksStand, SchedulesAreAll,
                    Stores, Served
<1>5. FilesAreAsLeft /\ SchedulesAreOwn /\ NodesHaveOne /\ RestIsToDo
  BY <1>1, <1>2 DEF FilesAreAsLeft, AsLeft, SchedulesAreOwn, NodesHaveOne, RestIsToDo, Served, Of, Storing
<1> QED
  BY <1>3, <1>4, <1>5 DEF WorkflowsInv

\* What a thread's request becomes, and that the others' stay.
Became(t, at, ids, n, save, drop) ==
    /\ DOMAIN thread' = Thread /\ \A u \in Thread \ {t} : thread'[u] = thread[u]
    /\ thread'[t].at = at /\ thread'[t].w = thread[t].w /\ thread'[t].new = thread[t].new
    /\ thread'[t].ids = ids /\ thread'[t].n = n
    /\ thread'[t].save = save /\ thread'[t].drop = drop

LEMMA Becomes ==
    ASSUME WorkflowsTypeOK, NEW t \in Thread
    PROVE  /\ \A at, ids, n : W!Goes(t, at, ids, n) => Became(t, at, ids, n, {}, {})
           /\ \A save, drop : W!Scheduling(t, save, drop) =>
                  Became(t, IF save \cup drop = {} THEN "end" ELSE "schedule", {}, 0, save, drop)
<1>1. DOMAIN thread = Thread
  BY DEF WorkflowsTypeOK
<1>2. ASSUME NEW at, NEW ids, NEW n, W!Goes(t, at, ids, n)
      PROVE  Became(t, at, ids, n, {}, {})
  BY <1>1, <1>2 DEF W!Goes, Became
<1>3. ASSUME NEW save, NEW drop, W!Scheduling(t, save, drop)
      PROVE  Became(t, IF save \cup drop = {} THEN "end" ELSE "schedule", {}, 0, save, drop)
  BY <1>1, <1>3 DEF W!Scheduling, Became
<1> QED
  BY <1>2, <1>3

\* A request goes on, and the files that the invariant is about stay as they are.
LEMMA WorkflowsMove ==
    ASSUME WorkflowsInv, NEW t \in Thread, NEW at, NEW ids, NEW n, Became(t, at, ids, n, {}, {}),
           UNCHANGED <<stored, versions, index, schedules, executions, requests, mixed, torn>>,
           thread[t].at \in {"ids", "list", "numbers", "unids", "unlist", "latest"},
           at \in {"list", "numbers", "version", "run", "unlist", "end"},
           at \in Storing <=> thread[t].at \in Storing,
           at = "version" => ids = index[thread[t].w] /\ n = W!NextNumber(index[thread[t].w]),
           at = "run" => thread[t].at = "latest" /\ n = W!LatestNumber(index[thread[t].w])
    PROVE  WorkflowsInv'
<1> USE DEF WorkflowsInv, Became
<1>1. /\ thread'[t].w = thread[t].w /\ thread'[t].at \notin {"write", "index", "schedules", "schedule", "latest", "-"}
      /\ \A u \in Thread : thread'[u].w = thread[u].w
      /\ \A w : Served(w)' = Served(w) /\ Of(w)' = Of(w) /\ Told(w)' = Told(w)
      /\ \A u \in Thread : \A w : Stores(u, w)' = Stores(u, w)
  BY DEF Served, Of, Told, Stores
<1>2. WorkflowsTypeOK'
  BY <1>1 DEF WorkflowsTypeOK
<1>3. SharersAreKnown'
  BY <1>1 DEF SharersAreKnown
<1>4. NumbersAreRequests'
  BY <1>1 DEF NumbersAreRequests
<1>5. FilesAreAsLeft'
  BY <1>1 DEF FilesAreAsLeft, AsLeft, Storing
<1>6. VersionsAreTold'
  BY <1>1 DEF VersionsAreTold
<1>7. LinksStand'
  BY <1>1 DEF LinksStand
<1>8. SchedulesAreOwn'
  BY <1>1 DEF SchedulesAreOwn
<1>9. NodesHaveOne'
  BY <1>1 DEF NodesHaveOne
<1>10. RestIsToDo'
  BY <1>1 DEF RestIsToDo
<1>11. SchedulesAreAll'
  BY <1>1 DEF SchedulesAreAll, Storing
<1> QED
  BY <1>2, <1>3, <1>4, <1>5, <1>6, <1>7, <1>8, <1>9, <1>10, <1>11

\* A request begins: nobody else is at its workflow, or that is on record.
LEMMA WorkflowsBegin ==
    ASSUME WorkflowsInv, NEW t \in Thread, NEW w \in Workflow, NEW at, NEW new,
           W!Begin(t, w, at, new), at \in {"write", "unlink", "latest"},
           at = "latest" => new = stored[w] /\ new # None
    PROVE  WorkflowsInv'
<1> USE DEF WorkflowsInv
<1>1. /\ DOMAIN thread' = Thread /\ \A u \in Thread \ {t} : thread'[u] = thread[u]
      /\ thread'[t].at = at /\ thread'[t].w = w /\ thread'[t].new = new
      /\ thread'[t].save = {} /\ thread'[t].drop = {}
  BY DEF W!Begin, WorkflowsTypeOK
<1>2. /\ requests' = requests + 1 /\ requests < MaxRequests
      /\ UNCHANGED <<stored, versions, index, schedules, executions, torn>>
  BY DEF W!Begin, W!disk
<1>3. requests \in Nat /\ requests' \in Nat /\ requests' <= MaxRequests /\ requests = requests' - 1
      /\ 1..requests \subseteq 1..requests' /\ 1..(requests - 1) \subseteq 1..(requests' - 1)
  BY <1>2, DesksAssumption DEF WorkflowsTypeOK
<1>4. mixed \subseteq mixed' /\ (w \notin mixed' => \A u \in Thread : thread[u].w # w)
  BY DEF W!Begin
<1>5. /\ \A v : Served(v)' => Served(v)
      /\ \A v : Of(v)' = Of(v) /\ Told(v)' = Told(v)
      /\ \A v : Served(v)' => \A u \in Thread : Stores(u, v)' <=> Stores(u, v)
  BY <1>1, <1>2, <1>4 DEF Served, Of, Told, Stores, Storing, W!Begin, W!Idle
<1>6. WorkflowsTypeOK'
  BY <1>1, <1>2, <1>3 DEF WorkflowsTypeOK
<1>7. SharersAreKnown'
  BY <1>1, <1>4 DEF SharersAreKnown
<1>8. NumbersAreRequests'
  <2>1. SUFFICES ASSUME NEW v \in Workflow, Served(v)'
        PROVE  /\ index[v] \subseteq 1..requests'
               /\ \A u \in Thread : Stores(u, v)' \/ (thread'[u].w = v /\ thread'[u].at = "write") =>
                      index[v] \subseteq 1..(requests' - 1)
    BY <1>2 DEF NumbersAreRequests
  <2>2. index[v] \subseteq 1..requests
    BY <1>5, <2>1 DEF NumbersAreRequests
  <2> QED
    BY <1>3, <2>2
<1>9. FilesAreAsLeft'
  <2>1. AsLeft(t)'
    BY <1>1, <1>2 DEF AsLeft, Storing
  <2>2. ASSUME NEW u \in Thread, u # t, AsLeft(u) PROVE AsLeft(u)'
    BY <1>1, <1>2, <1>5, <2>2 DEF AsLeft
  <2>3. \A u \in Thread : u # t /\ Served(thread[u].w)' => Served(thread[u].w)
    BY <1>1, <1>5
  <2> QED
    BY <2>1, <2>2, <2>3 DEF FilesAreAsLeft
<1>10. VersionsAreTold'
  BY <1>1, <1>2, <1>5 DEF VersionsAreTold
<1>11. LinksStand'
  BY <1>2, <1>5 DEF LinksStand
<1>12. SchedulesAreOwn'
  BY <1>1 DEF SchedulesAreOwn
<1>13. NodesHaveOne'
  BY <1>1, <1>5 DEF NodesHaveOne
<1>14. RestIsToDo'
  BY <1>1, <1>5 DEF RestIsToDo
<1>15. SchedulesAreAll'
  <2>1. SUFFICES ASSUME NEW v \in Workflow, Served(v)', v \notin torn, stored[v] # None,
                        W!Nodes(Of(v)) # stored[v].def
        PROVE  \E u \in Thread : thread'[u].w = v /\ thread'[u].at \in Storing \cup {"schedules", "schedule"}
    BY <1>2, <1>5 DEF SchedulesAreAll
  <2>2. PICK u \in Thread : thread[u].w = v /\ thread[u].at \in Storing \cup {"schedules", "schedule"}
    BY <1>5, <2>1 DEF SchedulesAreAll
  <2>3. u # t
    BY <1>4, <2>1, <2>2 DEF W!Begin, W!Idle, Storing
  <2> QED
    BY <1>1, <2>2, <2>3
<1> QED
  BY <1>6, <1>7, <1>8, <1>9, <1>10, <1>11, <1>12, <1>13, <1>14, <1>15

LEMMA WorkflowsAnswer ==
    ASSUME WorkflowsInv, NEW t \in Thread, W!Answer(t)
    PROVE  WorkflowsInv'
<1> USE DEF WorkflowsInv
<1>1. /\ DOMAIN thread' = Thread /\ \A u \in Thread \ {t} : thread'[u] = thread[u]
      /\ thread[t].at = "end" /\ thread'[t].at = "-" /\ thread'[t].w = None
      /\ thread'[t].save = {} /\ thread'[t].drop = {}
      /\ UNCHANGED <<stored, versions, index, schedules, executions, requests, mixed, torn>>
  BY DEF W!Answer, W!At, W!Idle, W!disk, W!counters, WorkflowsTypeOK
<1>2. None \notin Workflow
  BY DesksAssumption
<1>3. /\ \A w : Served(w)' = Served(w) /\ Of(w)' = Of(w) /\ Told(w)' = Told(w)
      /\ \A u \in Thread : \A w : Stores(u, w)' = Stores(u, w)
      /\ ~Served(None)
  BY <1>1, <1>2 DEF Served, Of, Told, Stores, Storing
<1>4. WorkflowsTypeOK' /\ SharersAreKnown'
  BY <1>1 DEF WorkflowsTypeOK, SharersAreKnown
<1>5. NumbersAreRequests' /\ VersionsAreTold'
  BY <1>1, <1>3 DEF NumbersAreRequests, VersionsAreTold
<1>6. FilesAreAsLeft'
  BY <1>1, <1>3 DEF FilesAreAsLeft, AsLeft
<1>7. LinksStand' /\ SchedulesAreOwn'
  BY <1>1, <1>3 DEF LinksStand, SchedulesAreOwn
<1>8. NodesHaveOne' /\ RestIsToDo'
  BY <1>1, <1>3 DEF NodesHaveOne, RestIsToDo
<1>9. SchedulesAreAll'
  BY <1>1, <1>3 DEF SchedulesAreAll, Storing
<1> QED
  BY <1>4, <1>5, <1>6, <1>7, <1>8, <1>9

\* The workflow's file: whoever writes it stores from here on, and who deletes leaves none.
LEMMA WorkflowsWrite ==
    ASSUME WorkflowsInv, NEW t \in Thread, W!WriteWorkflow(t)
    PROVE  WorkflowsInv'
<1> USE DEF WorkflowsInv
<1> DEFINE w == thread[t].w
<1>1. /\ UNCHANGED <<versions, index, schedules, executions, requests, mixed, torn>>
      /\ DOMAIN stored' = Workflow /\ w \in Workflow
      /\ \A v \in Workflow \ {w} : stored'[v] = stored[v]
      /\ \/ thread[t].at = "write" /\ stored'[w] = thread[t].new /\ Became(t, "ids", {}, 0, {}, {})
         \/ thread[t].at = "unlink" /\ stored'[w] = None /\ Became(t, "unids", {}, 0, {}, {})
  BY Becomes DEF W!WriteWorkflow, W!At, W!counters, WorkflowsTypeOK
<1>2. /\ DOMAIN thread' = Thread /\ \A u \in Thread \ {t} : thread'[u] = thread[u]
      /\ thread'[t].w = w /\ thread'[t].new = thread[t].new /\ thread'[t].save = {} /\ thread'[t].drop = {}
      /\ thread'[t].at \in {"ids", "unids"} /\ thread[t].at \in {"write", "unlink"}
      /\ thread'[t].at = "ids" => thread[t].at = "write" /\ stored'[w] = thread[t].new
      /\ thread'[t].at = "unids" => stored'[w] = None
  BY <1>1 DEF Became
<1>3. Served(w) => \A u \in Thread \ {t} : thread[u].w # w
  BY DesksAssumption DEF SharersAreKnown, Served
<1> HIDE DEF w
<1>4. /\ \A v : Served(v)' = Served(v) /\ Of(v)' = Of(v)
      /\ \A v \in Workflow \ {w} : Told(v)' = Told(v)
      /\ \A v \in Workflow \ {w} : \A u \in Thread : Stores(u, v)' = Stores(u, v)
  BY <1>1, <1>2 DEF Served, Of, Told, Stores, Storing, w
<1>5. WorkflowsTypeOK'
  BY <1>1, <1>2 DEF WorkflowsTypeOK, w
<1>6. SharersAreKnown'
  BY <1>1, <1>2 DEF SharersAreKnown, w
<1>7. NumbersAreRequests'
  <2>1. SUFFICES ASSUME NEW v \in Workflow, Served(v), NEW u \in Thread,
                        Stores(u, v)' \/ (thread'[u].w = v /\ thread'[u].at = "write")
        PROVE  index[v] \subseteq 1..(requests - 1)
    BY <1>1, <1>4 DEF NumbersAreRequests
  <2>2. CASE u = t
    BY <1>2, <2>1, <2>2 DEF NumbersAreRequests, Stores, Storing, w
  <2>3. CASE u # t
    BY <1>2, <2>1, <2>3 DEF NumbersAreRequests, Stores
  <2> QED
    BY <2>2, <2>3
<1>8. FilesAreAsLeft'
  <2>1. AsLeft(t)'
    BY <1>2 DEF AsLeft, Storing
  <2>2. ASSUME NEW u \in Thread, u # t, Served(thread[u].w), AsLeft(u) PROVE AsLeft(u)'
    <3>1. thread[u].w \in Workflow \ {w}
      BY <1>3, <2>2 DEF Served, w
    <3> QED
      BY <1>1, <1>2, <1>4, <2>2, <3>1 DEF AsLeft
  <2>3. \A u \in Thread : u # t /\ Served(thread[u].w)' => Served(thread[u].w)
    BY <1>1, <1>2, <1>4
  <2> QED
    BY <2>1, <2>2, <2>3 DEF FilesAreAsLeft
<1>9. VersionsAreTold'
  <2>1. SUFFICES ASSUME NEW v \in Workflow, Served(v), v \notin torn, stored'[v] # None
        PROVE  Told(v)' \/ \E u \in Thread : Stores(u, v)'
    BY <1>1, <1>4 DEF VersionsAreTold
  <2>2. CASE v = w
    BY <1>2, <2>1, <2>2 DEF Stores, Storing
  <2>3. CASE v # w
    BY <1>1, <1>4, <2>1, <2>3 DEF VersionsAreTold
  <2> QED
    BY <2>2, <2>3
<1>10. LinksStand' /\ SchedulesAreOwn'
  BY <1>1, <1>2, <1>4 DEF LinksStand, SchedulesAreOwn
<1>11. NodesHaveOne' /\ RestIsToDo'
  BY <1>1, <1>2, <1>4 DEF NodesHaveOne, RestIsToDo
<1>12. SchedulesAreAll'
  <2>1. SUFFICES ASSUME NEW v \in Workflow, Served(v), v \notin torn, stored'[v] # None,
                        W!Nodes(Of(v)) # stored'[v].def
        PROVE  \E u \in Thread : thread'[u].w = v /\ thread'[u].at \in Storing \cup {"schedules", "schedule"}
    BY <1>1, <1>4 DEF SchedulesAreAll
  <2>2. CASE v = w
    BY <1>2, <2>1, <2>2 DEF Storing
  <2>3. CASE v # w
    BY <1>1, <1>2, <2>1, <2>3 DEF SchedulesAreAll, w
  <2> QED
    BY <2>2, <2>3
<1> QED
  BY <1>5, <1>6, <1>7, <1>8, <1>9, <1>10, <1>11, <1>12

\* The file of a version: its number is none that an execution is linked to.
LEMMA WorkflowsWriteVersion ==
    ASSUME WorkflowsInv, NEW t \in Thread, W!WriteVersion(t)
    PROVE  WorkflowsInv'
<1> USE DEF WorkflowsInv
<1>0. PICK w, n : w = thread[t].w /\ n = thread[t].n
  OBVIOUS
<1>1. /\ UNCHANGED <<stored, index, schedules, executions, requests, mixed, torn>>
      /\ thread[t].at = "version" /\ w \in Workflow /\ DOMAIN versions' = Workflow
      /\ \A v \in Workflow \ {w} : versions'[v] = versions[v]
      /\ versions'[w] = [versions[w] EXCEPT ![n] = thread[t].new.def]
      /\ Became(t, "index", thread[t].ids, n, {}, {})
  BY <1>0, Becomes DEF W!WriteVersion, W!At, W!counters, WorkflowsTypeOK
<1>2. /\ DOMAIN thread' = Thread /\ \A u \in Thread \ {t} : thread'[u] = thread[u]
      /\ thread'[t].at = "index" /\ thread'[t].w = w /\ thread'[t].new = thread[t].new
      /\ thread'[t].ids = thread[t].ids /\ thread'[t].n = n
      /\ thread'[t].save = {} /\ thread'[t].drop = {}
  BY <1>0, <1>1 DEF Became
<1>3. DOMAIN versions'[w] = 1..MaxRequests /\ \A m \in (1..MaxRequests) \ {n} : versions'[w][m] = versions[w][m]
  BY <1>1 DEF WorkflowsTypeOK
<1>4. Served(w) => /\ index[w] \subseteq 1..(requests - 1) /\ requests - 1 \in Nat /\ requests <= MaxRequests
                   /\ n = W!NextNumber(index[w]) /\ thread[t].ids = index[w] /\ stored[w] = thread[t].new
                   /\ \A u \in Thread \ {t} : thread[u].w # w
  <2>1. requests - 1 \in Nat /\ requests <= MaxRequests
    BY <1>0, <1>1, DesksAssumption DEF WorkflowsTypeOK
  <2>2. Served(w) => index[w] \subseteq 1..(requests - 1)
    BY <1>0, <1>1 DEF NumbersAreRequests, Stores, Storing
  <2>3. Served(w) => n = W!NextNumber(index[w]) /\ thread[t].ids = index[w] /\ stored[w] = thread[t].new
    BY <1>0, <1>1 DEF FilesAreAsLeft, AsLeft, Storing
  <2>4. Served(w) => \A u \in Thread \ {t} : thread[u].w # w
    BY <1>0, DesksAssumption DEF SharersAreKnown, Served
  <2> QED
    BY <2>1, <2>2, <2>3, <2>4
<1>5. Served(w) => /\ n \in 1..MaxRequests /\ n \notin index[w] /\ index[w] \subseteq 1..MaxRequests
                   /\ versions'[w][n] = thread[t].new.def
  <2>1. SUFFICES ASSUME Served(w)
                 PROVE  /\ n \in 1..MaxRequests /\ n \notin index[w] /\ index[w] \subseteq 1..MaxRequests
                        /\ versions'[w][n] = thread[t].new.def
    OBVIOUS
  <2>2. n \in 1..((requests - 1) + 1) /\ n \notin index[w]
    <3>1. index[w] \in SUBSET (1..(requests - 1)) /\ n = W!NextNumber(index[w]) /\ requests - 1 \in Nat
      BY <1>4, <2>1
    <3>2. W!NextNumber(index[w]) \in 1..((requests - 1) + 1) /\ W!NextNumber(index[w]) \notin index[w]
      BY <3>1, VersionNumbers
    <3> QED
      BY <3>1, <3>2, Zenon
  <2>3. n \in 1..MaxRequests /\ index[w] \subseteq 1..MaxRequests
    BY <1>4, <2>1, <2>2, DesksAssumption DEF WorkflowsTypeOK
  <2> QED
    BY <1>1, <2>2, <2>3 DEF WorkflowsTypeOK
<1>6. /\ \A v : Served(v)' = Served(v) /\ Of(v)' = Of(v)
      /\ \A v \in Workflow \ {w} : Told(v)' = Told(v)
      /\ \A v : \A u \in Thread : Stores(u, v)' = Stores(u, v)
  BY <1>0, <1>1, <1>2 DEF Served, Of, Told, Stores, Storing
<1>7. WorkflowsTypeOK' /\ SharersAreKnown'
  BY <1>0, <1>1, <1>2, <1>3 DEF WorkflowsTypeOK, SharersAreKnown
<1>8. NumbersAreRequests'
  BY <1>0, <1>1, <1>2, <1>6 DEF NumbersAreRequests
<1>9. FilesAreAsLeft'
  <2>1. Served(w) => AsLeft(t)'
    BY <1>1, <1>2, <1>4, <1>5 DEF AsLeft, Storing
  <2>2. ASSUME NEW u \in Thread, u # t, Served(thread[u].w), AsLeft(u) PROVE AsLeft(u)'
    <3>1. thread[u].w \in Workflow \ {w}
      BY <1>0, <1>4, <2>2 DEF Served
    <3> QED
      BY <1>1, <1>2, <1>6, <2>2, <3>1 DEF AsLeft
  <2>3. \A u \in Thread : Served(thread[u].w)' => Served(thread[u].w)
    BY <1>0, <1>1, <1>2, <1>6
  <2>4. Served(thread[t].w)' => Served(w)
    BY <1>0, <2>3
  <2> QED
    BY <2>1, <2>2, <2>3, <2>4 DEF FilesAreAsLeft
<1>10. VersionsAreTold'
  <2>1. Stores(t, w)
    BY <1>0, <1>1 DEF Stores, Storing
  <2> QED
    BY <1>1, <1>6, <2>1 DEF VersionsAreTold
<1>11. LinksStand'
  <2>1. ASSUME NEW e \in executions, Served(e.w), ~e.torn
        PROVE  e.linked \in index[e.w] /\ versions'[e.w][e.linked] = e.ran
    <3>1. e.w \in Workflow /\ e.linked \in index[e.w] /\ versions[e.w][e.linked] = e.ran
      BY <2>1 DEF LinksStand
    <3>2. CASE e.w = w
      BY <1>3, <1>5, <2>1, <3>1, <3>2
    <3> QED
      BY <1>1, <3>1, <3>2
  <2> QED
    BY <1>1, <1>6, <2>1 DEF LinksStand
<1>12. SchedulesAreOwn' /\ NodesHaveOne'
  BY <1>0, <1>1, <1>2, <1>6 DEF SchedulesAreOwn, NodesHaveOne
<1>13. RestIsToDo'
  <2>1. \A u \in Thread : thread'[u].at = "schedule" => u # t /\ thread'[u] = thread[u]
    BY <1>2
  <2> QED
    BY <1>1, <1>6, <2>1 DEF RestIsToDo
<1>14. SchedulesAreAll'
  BY <1>0, <1>1, <1>2, <1>6 DEF SchedulesAreAll, Storing
<1> QED
  BY <1>7, <1>8, <1>9, <1>10, <1>11, <1>12, <1>13, <1>14

\* The index of versions, in which the new one is the latest.
LEMMA WorkflowsSaveNumbers ==
    ASSUME WorkflowsInv, NEW t \in Thread, W!SaveNumbers(t)
    PROVE  WorkflowsInv'
<1> USE DEF WorkflowsInv
<1>0. PICK w, n : w = thread[t].w /\ n = thread[t].n
  OBVIOUS
<1>1. /\ UNCHANGED <<stored, versions, schedules, executions, requests, mixed, torn>>
      /\ thread[t].at = "index" /\ w \in Workflow /\ DOMAIN index' = Workflow
      /\ \A v \in Workflow \ {w} : index'[v] = index[v]
      /\ index'[w] = thread[t].ids \cup {n}
      /\ Became(t, "schedules", {}, 0, {}, {})
  BY <1>0, Becomes DEF W!SaveNumbers, W!At, W!counters, WorkflowsTypeOK
<1>2. /\ DOMAIN thread' = Thread /\ \A u \in Thread \ {t} : thread'[u] = thread[u]
      /\ thread'[t].at = "schedules" /\ thread'[t].w = w /\ thread'[t].new = thread[t].new
      /\ thread'[t].save = {} /\ thread'[t].drop = {}
  BY <1>0, <1>1 DEF Became
<1>4. Served(w) => /\ index[w] \subseteq 1..(requests - 1) /\ requests - 1 \in Nat
                   /\ n = W!NextNumber(index[w]) /\ thread[t].ids = index[w] /\ stored[w] = thread[t].new
                   /\ versions[w][n] = thread[t].new.def
                   /\ \A u \in Thread \ {t} : thread[u].w # w
  <2>1. requests - 1 \in Nat
    BY <1>0, <1>1, DesksAssumption DEF WorkflowsTypeOK
  <2>2. Served(w) => index[w] \subseteq 1..(requests - 1)
    BY <1>0, <1>1 DEF NumbersAreRequests, Stores, Storing
  <2>3. Served(w) => /\ n = W!NextNumber(index[w]) /\ thread[t].ids = index[w] /\ stored[w] = thread[t].new
                     /\ versions[w][n] = thread[t].new.def
    BY <1>0, <1>1 DEF FilesAreAsLeft, AsLeft, Storing
  <2>4. Served(w) => \A u \in Thread \ {t} : thread[u].w # w
    BY <1>0, DesksAssumption DEF SharersAreKnown, Served
  <2> QED
    BY <2>1, <2>2, <2>3, <2>4
<1>5. Served(w) => /\ index'[w] \subseteq 1..requests /\ index[w] \subseteq index'[w]
                   /\ Told(w)'
  <2>1. SUFFICES ASSUME Served(w)
                 PROVE  /\ index'[w] \subseteq 1..requests /\ index[w] \subseteq index'[w]
                        /\ Told(w)'
    OBVIOUS
  <2>2. /\ n \in 1..((requests - 1) + 1) /\ index'[w] = index[w] \cup {n}
        /\ W!LatestNumber(index'[w]) = n
    <3>1. index[w] \in SUBSET (1..(requests - 1)) /\ n = W!NextNumber(index[w]) /\ requests - 1 \in Nat
      BY <1>4, <2>1
    <3>2. /\ W!NextNumber(index[w]) \in 1..((requests - 1) + 1)
          /\ W!LatestNumber(index[w] \cup {W!NextNumber(index[w])}) = W!NextNumber(index[w])
      BY <3>1, VersionNumbers
    <3>3. index'[w] = index[w] \cup {n}
      BY <1>1, <1>4, <2>1
    <3> QED
      BY <3>1, <3>2, <3>3, Zenon
  <2>3. index'[w] \subseteq 1..requests
    BY <1>1, <1>4, <2>1, <2>2 DEF WorkflowsTypeOK
  <2> QED
    BY <1>1, <1>4, <2>1, <2>2, <2>3 DEF Told
<1>6. /\ \A v : Served(v)' = Served(v) /\ Of(v)' = Of(v)
      /\ \A v \in Workflow \ {w} : Told(v)' = Told(v)
      /\ \A v : \A u \in Thread \ {t} : Stores(u, v)' = Stores(u, v)
      /\ \A v : v # w => Stores(t, v)' = Stores(t, v)
      /\ ~Stores(t, w)'
  BY <1>0, <1>1, <1>2 DEF Served, Of, Told, Stores, Storing
<1>7. WorkflowsTypeOK' /\ SharersAreKnown'
  BY <1>0, <1>1, <1>2 DEF WorkflowsTypeOK, SharersAreKnown
<1>8. NumbersAreRequests'
  <2>1. ASSUME NEW v \in Workflow, Served(v)
        PROVE  /\ index'[v] \subseteq 1..requests
               /\ \A u \in Thread : Stores(u, v)' \/ (thread'[u].w = v /\ thread'[u].at = "write") =>
                      index'[v] \subseteq 1..(requests - 1)
    <3>1. CASE v = w
      BY <1>2, <1>4, <1>5, <1>6, <2>1, <3>1 DEF Stores
    <3>2. CASE v # w
      BY <1>1, <1>2, <1>6, <2>1, <3>2 DEF NumbersAreRequests
    <3> QED
      BY <3>1, <3>2
  <2> QED
    BY <1>1, <1>6, <2>1 DEF NumbersAreRequests
<1>9. FilesAreAsLeft'
  <2>1. Served(w) => AsLeft(t)'
    BY <1>1, <1>2, <1>4, <1>5 DEF AsLeft, Storing
  <2>2. ASSUME NEW u \in Thread, u # t, Served(thread[u].w), AsLeft(u) PROVE AsLeft(u)'
    <3>1. thread[u].w \in Workflow \ {w}
      BY <1>0, <1>4, <2>2 DEF Served
    <3> QED
      BY <1>1, <1>2, <1>6, <2>2, <3>1 DEF AsLeft
  <2>3. \A u \in Thread : Served(thread[u].w)' => Served(thread[u].w)
    BY <1>0, <1>1, <1>2, <1>6
  <2>4. Served(thread[t].w)' => Served(w)
    BY <1>0, <2>3
  <2> QED
    BY <2>1, <2>2, <2>3, <2>4 DEF FilesAreAsLeft
<1>10. VersionsAreTold'
  <2>1. ASSUME NEW v \in Workflow, Served(v), v \notin torn, stored[v] # None
        PROVE  Told(v)' \/ \E u \in Thread : Stores(u, v)'
    <3>1. CASE v = w
      BY <1>5, <2>1, <3>1
    <3>2. CASE v # w
      BY <1>6, <2>1, <3>2 DEF VersionsAreTold
    <3> QED
      BY <3>1, <3>2
  <2> QED
    BY <1>1, <1>6, <2>1 DEF VersionsAreTold
<1>11. LinksStand'
  <2>1. ASSUME NEW e \in executions, Served(e.w), ~e.torn
        PROVE  e.linked \in index'[e.w] /\ versions[e.w][e.linked] = e.ran
    <3>1. e.w \in Workflow /\ e.linked \in index[e.w] /\ versions[e.w][e.linked] = e.ran
      BY <2>1 DEF LinksStand
    <3>2. CASE e.w = w
      BY <1>5, <2>1, <3>1, <3>2
    <3> QED
      BY <1>1, <3>1, <3>2
  <2> QED
    BY <1>1, <1>6, <2>1 DEF LinksStand
<1>12. SchedulesAreOwn' /\ NodesHaveOne'
  BY <1>0, <1>1, <1>2, <1>6 DEF SchedulesAreOwn, NodesHaveOne
<1>13. RestIsToDo'
  <2>1. \A u \in Thread : thread'[u].at = "schedule" => u # t /\ thread'[u] = thread[u]
    BY <1>2
  <2> QED
    BY <1>1, <1>6, <2>1 DEF RestIsToDo
<1>14. SchedulesAreAll'
  BY <1>0, <1>1, <1>2, <1>6 DEF SchedulesAreAll, Storing
<1> QED
  BY <1>7, <1>8, <1>9, <1>10, <1>11, <1>12, <1>13, <1>14

\* A request that has stored a definition looks at the schedules there are.
LEMMA WorkflowsListSchedules ==
    ASSUME WorkflowsInv, NEW t \in Thread, W!ListSchedules(t)
    PROVE  WorkflowsInv'
<1> USE DEF WorkflowsInv
<1>0. PICK w, def : w = thread[t].w /\ def = thread[t].new.def
  OBVIOUS
<1>1. /\ UNCHANGED <<stored, versions, index, schedules, executions, requests, mixed>>
      /\ thread[t].at = "schedules" /\ w \in Workflow /\ torn' = torn \ {w}
  BY <1>0 DEF W!ListSchedules, W!At, W!disk, WorkflowsTypeOK
<1>2. PICK kept, new :
          /\ kept \in W!OneOfEach(Of(w))
          /\ new = {[id |-> made, w |-> w, node |-> n] : n \in def \ W!Nodes(kept)}
          /\ W!Scheduling(t, {s \in kept : s.node \in def} \cup new, {s \in kept : s.node \notin def})
  BY <1>0 DEF W!ListSchedules, Of
<1>3. PICK save, drop : /\ save = {s \in kept : s.node \in def} \cup new
                        /\ drop = {s \in kept : s.node \notin def}
  OBVIOUS
<1>4. Became(t, IF save \cup drop = {} THEN "end" ELSE "schedule", {}, 0, save, drop)
  BY <1>2, <1>3, Becomes
<1>5. kept \subseteq Of(w) /\ W!Nodes(kept) = W!Nodes(Of(w))
  BY <1>2 DEF W!OneOfEach
<1>6. Served(w) => /\ \A u \in Thread \ {t} : thread[u].w # w
                   /\ stored[w] = thread[t].new /\ Told(w)
                   /\ \A r, s \in Of(w) : r.node = s.node => r = s
  <2>1. Served(w) => \A u \in Thread \ {t} : thread[u].w # w
    BY <1>0, DesksAssumption DEF SharersAreKnown, Served
  <2>2. Served(w) => stored[w] = thread[t].new /\ Told(w)
    BY <1>0, <1>1 DEF FilesAreAsLeft, AsLeft
  <2>3. Served(w) => \A r, s \in Of(w) : r.node = s.node => r = s
    BY <1>1 DEF NodesHaveOne
  <2> QED
    BY <2>1, <2>2, <2>3
\* The schedules of a node that has one are kept.
<1>7. Served(w) => kept = Of(w)
  <2>1. SUFFICES ASSUME Served(w), NEW s \in Of(w) PROVE s \in kept
    BY <1>5
  <2>2. s.node \in W!Nodes(kept)
    BY <1>5, <2>1 DEF W!Nodes
  <2>3. PICK k \in kept : k.node = s.node
    BY <2>2 DEF W!Nodes
  <2> QED
    BY <1>5, <1>6, <2>1, <2>3
<1>8. /\ \A r \in new : r.w = w /\ r.node \in def /\ r.node \notin W!Nodes(kept)
      /\ \A r, s \in new : r.node = s.node => r = s
      /\ \A n \in def \ W!Nodes(kept) : \E r \in new : r.node = n
  <2>1. \A r \in new : \E n \in def \ W!Nodes(kept) : r = [id |-> made, w |-> w, node |-> n]
    BY <1>2
  <2>2. \A r \in new : r.w = w /\ r.node \in def /\ r.node \notin W!Nodes(kept)
    BY <2>1
  <2>3. ASSUME NEW r \in new, NEW s \in new, r.node = s.node PROVE r = s
    BY <2>1, <2>3
  <2>4. ASSUME NEW n \in def \ W!Nodes(kept) PROVE \E r \in new : r.node = n
    <3>1. [id |-> made, w |-> w, node |-> n] \in new
      BY <1>2, <2>4
    <3> QED
      BY <3>1
  <2> QED
    BY <2>2, <2>3, <2>4
<1>9. \A s \in save \cup drop : s.w = w
  BY <1>3, <1>5, <1>8 DEF Of
<1>10. Served(w) => \A r \in save : \A s \in Of(w) \cup save : r.node = s.node => r = s
  <2>1. SUFFICES ASSUME Served(w), NEW r \in save, NEW s \in kept \cup new, r.node = s.node
                 PROVE  r = s
    BY <1>3, <1>7
  <2>2. r \in kept \cup new
    BY <1>3, <2>1
  <2>3. \A k \in kept : k.node \in W!Nodes(kept)
    BY DEF W!Nodes
  <2> QED
    BY <1>6, <1>7, <1>8, <2>1, <2>2, <2>3
<1>11. /\ Served(w) => W!Nodes((Of(w) \ drop) \cup save) = def
       /\ \A s \in drop : s.node \notin def
  <2>1. ASSUME Served(w), NEW n \in W!Nodes((Of(w) \ drop) \cup save) PROVE n \in def
    <3>1. PICK s \in (Of(w) \ drop) \cup save : s.node = n
      BY <2>1 DEF W!Nodes
    <3> QED
      BY <1>3, <1>7, <1>8, <2>1, <3>1
  <2>2. ASSUME Served(w), NEW n \in def PROVE n \in W!Nodes((Of(w) \ drop) \cup save)
    <3>1. \E s \in save : s.node = n
      <4>1. CASE n \in W!Nodes(kept)
        BY <1>3, <2>2, <4>1 DEF W!Nodes
      <4>2. CASE n \notin W!Nodes(kept)
        BY <1>3, <1>8, <2>2, <4>2
      <4> QED
        BY <4>1, <4>2
    <3> QED
      BY <3>1 DEF W!Nodes
  <2>3. \A s \in drop : s.node \notin def
    BY <1>3
  <2> QED
    BY <2>1, <2>2, <2>3
<1>12. /\ DOMAIN thread' = Thread /\ \A u \in Thread \ {t} : thread'[u] = thread[u]
       /\ thread'[t].w = w /\ thread'[t].new = thread[t].new
       /\ thread'[t].save = save /\ thread'[t].drop = drop
       /\ thread'[t].at \in {"end", "schedule"} /\ (thread'[t].at = "schedule" <=> save \cup drop # {})
  BY <1>0, <1>4 DEF Became
<1>13. /\ \A v : Served(v)' = Served(v) /\ Of(v)' = Of(v) /\ Told(v)' = Told(v)
       /\ \A v : \A u \in Thread : Stores(u, v)' = Stores(u, v)
  BY <1>0, <1>1, <1>12 DEF Served, Of, Told, Stores, Storing
<1>14. WorkflowsTypeOK' /\ SharersAreKnown'
  BY <1>0, <1>1, <1>12 DEF WorkflowsTypeOK, SharersAreKnown
<1>15. NumbersAreRequests'
  BY <1>0, <1>1, <1>12, <1>13 DEF NumbersAreRequests
<1>16. FilesAreAsLeft'
  <2>1. Served(w) => AsLeft(t)'
    BY <1>0, <1>1, <1>6, <1>12 DEF AsLeft, Storing
  <2>2. ASSUME NEW u \in Thread, u # t, Served(thread[u].w), AsLeft(u) PROVE AsLeft(u)'
    BY <1>1, <1>12, <1>13, <2>2 DEF AsLeft
  <2>3. \A u \in Thread : Served(thread[u].w)' => Served(thread[u].w)
    BY <1>0, <1>1, <1>12, <1>13
  <2>4. Served(thread[t].w)' => Served(w)
    BY <1>0, <2>3
  <2> QED
    BY <2>1, <2>2, <2>3, <2>4 DEF FilesAreAsLeft
<1>17. VersionsAreTold'
  BY <1>1, <1>6, <1>13 DEF VersionsAreTold
<1>18. LinksStand' /\ SchedulesAreOwn'
  BY <1>1, <1>9, <1>12, <1>13 DEF LinksStand, SchedulesAreOwn
<1>19. NodesHaveOne'
  <2>1. SUFFICES ASSUME NEW v \in Workflow, Served(v)
                 PROVE  /\ \A r, s \in Of(v) : r.node = s.node => r = s
                        /\ \A u \in Thread : thread'[u].w = v =>
                               \A r \in thread'[u].save : \A s \in Of(v) \cup thread'[u].save :
                                   r.node = s.node => r = s
    BY <1>13 DEF NodesHaveOne
  <2>2. CASE v = w
    BY <1>6, <1>10, <1>12, <2>1, <2>2
  <2>3. CASE v # w
    BY <1>12, <2>1, <2>3 DEF NodesHaveOne
  <2> QED
    BY <2>2, <2>3
<1>20. RestIsToDo'
  <2>1. SUFFICES ASSUME NEW u \in Thread, Served(thread'[u].w), thread'[u].at = "schedule"
                 PROVE  /\ W!Nodes((Of(thread'[u].w) \ thread'[u].drop) \cup thread'[u].save) = thread'[u].new.def
                        /\ \A s \in thread'[u].drop : s.node \notin thread'[u].new.def
    <3>1. \A u \in Thread : Served(thread[u].w)' = Served(thread'[u].w) /\ Of(thread[u].w)' = Of(thread'[u].w)
      BY <1>1 DEF Served, Of
    <3> QED
      BY <2>1, <3>1 DEF RestIsToDo
  <2>2. CASE u = t
    BY <1>0, <1>11, <1>12, <2>1, <2>2
  <2>3. CASE u # t
    BY <1>12, <2>1, <2>3 DEF RestIsToDo
  <2> QED
    BY <2>2, <2>3
<1>21. SchedulesAreAll'
  <2>1. SUFFICES ASSUME NEW v \in Workflow, Served(v), v \notin torn', stored[v] # None
                 PROVE  \/ W!Nodes(Of(v)) = stored[v].def
                        \/ \E u \in Thread : /\ thread'[u].w = v
                                             /\ thread'[u].at \in Storing \cup {"schedules", "schedule"}
    BY <1>1, <1>13 DEF SchedulesAreAll
  <2>2. CASE v = w /\ thread'[t].at = "schedule"
    BY <1>12, <2>2
  <2>3. CASE v = w /\ thread'[t].at # "schedule"
    <3>1. (Of(w) \ drop) \cup save = Of(w)
      BY <1>12, <2>3
    <3> QED
      BY <1>0, <1>6, <1>11, <2>1, <2>3, <3>1
  <2>4. CASE v # w
    BY <1>0, <1>1, <1>12, <2>1, <2>4 DEF SchedulesAreAll
  <2> QED
    BY <2>2, <2>3, <2>4
<1> QED
  BY <1>14, <1>15, <1>16, <1>17, <1>18, <1>19, <1>20, <1>21

\* One schedule more or less, and less to do: the sum stays the same.
LEMMA WorkflowsSaveSchedule ==
    ASSUME WorkflowsInv, NEW t \in Thread, W!SaveSchedule(t)
    PROVE  WorkflowsInv'
<1> USE DEF WorkflowsInv
<1>0. PICK w, def, save, drop :
          w = thread[t].w /\ def = thread[t].new.def /\ save = thread[t].save /\ drop = thread[t].drop
  OBVIOUS
<1>1. /\ UNCHANGED <<stored, versions, index, executions, requests, mixed, torn>>
      /\ thread[t].at = "schedule" /\ w \in Workflow /\ save \cup drop # {}
  BY <1>0 DEF W!SaveSchedule, W!At, W!counters, WorkflowsTypeOK, SchedulesAreOwn
<1>2. \E s2, d2 :
         /\ Became(t, IF s2 \cup d2 = {} THEN "end" ELSE "schedule", {}, 0, s2, d2)
         /\ \/ \E s \in save : schedules' = schedules \cup {s} /\ s2 = save \ {s} /\ d2 = drop
            \/ save = {} /\ \E d \in drop : schedules' = schedules \ {d} /\ s2 = {} /\ d2 = drop \ {d}
  <2>1. CASE save # {}
    <3>1. PICK s : s = CHOOSE x \in save : TRUE
      OBVIOUS
    <3>2. s \in save
      BY <2>1, <3>1
    <3>3. schedules' = schedules \cup {s} /\ W!Scheduling(t, save \ {s}, drop)
      BY <1>0, <2>1, <3>1, Zenon DEF W!SaveSchedule
    <3>4. Became(t, IF (save \ {s}) \cup drop = {} THEN "end" ELSE "schedule", {}, 0, save \ {s}, drop)
      BY <3>3, Becomes
    <3> QED
      BY <3>2, <3>3, <3>4
  <2>2. CASE save = {}
    <3>1. PICK d : d = CHOOSE x \in drop : TRUE
      OBVIOUS
    <3>2. d \in drop
      BY <1>1, <2>2, <3>1
    <3>3. schedules' = schedules \ {d} /\ W!Scheduling(t, {}, drop \ {d})
      BY <1>0, <2>2, <3>1, Zenon DEF W!SaveSchedule
    <3>4. Became(t, IF {} \cup (drop \ {d}) = {} THEN "end" ELSE "schedule", {}, 0, {}, drop \ {d})
      BY <3>3, Becomes
    <3> QED
      BY <2>2, <3>2, <3>3, <3>4
  <2> QED
    BY <2>1, <2>2
<1>3. PICK s2, d2 :
         /\ Became(t, IF s2 \cup d2 = {} THEN "end" ELSE "schedule", {}, 0, s2, d2)
         /\ \/ \E s \in save : schedules' = schedules \cup {s} /\ s2 = save \ {s} /\ d2 = drop
            \/ save = {} /\ \E d \in drop : schedules' = schedules \ {d} /\ s2 = {} /\ d2 = drop \ {d}
  BY <1>2
<1>4. s2 \subseteq save /\ d2 \subseteq drop
  BY <1>3
<1>5. \A s \in save \cup drop : s.w = w
  BY <1>0 DEF SchedulesAreOwn
<1>6. Served(w) => /\ \A u \in Thread \ {t} : thread[u].w # w
                   /\ stored[w] = thread[t].new
                   /\ \A r, s \in Of(w) : r.node = s.node => r = s
                   /\ \A r \in save : \A s \in Of(w) \cup save : r.node = s.node => r = s
                   /\ W!Nodes((Of(w) \ drop) \cup save) = def
                   /\ \A s \in drop : s.node \notin def
  <2>1. Served(w) => \A u \in Thread \ {t} : thread[u].w # w
    BY <1>0, DesksAssumption DEF SharersAreKnown, Served
  <2>2. Served(w) => stored[w] = thread[t].new
    BY <1>0, <1>1 DEF FilesAreAsLeft, AsLeft
  <2>3. Served(w) => /\ \A r, s \in Of(w) : r.node = s.node => r = s
                     /\ \A r \in save : \A s \in Of(w) \cup save : r.node = s.node => r = s
    BY <1>0, <1>1 DEF NodesHaveOne
  <2>4. Served(w) => W!Nodes((Of(w) \ drop) \cup save) = def /\ \A s \in drop : s.node \notin def
    BY <1>0, <1>1 DEF RestIsToDo
  <2> QED
    BY <2>1, <2>2, <2>3, <2>4
<1>7. \A v \in Workflow \ {w} : Of(v)' = Of(v)
  BY <1>3, <1>5 DEF Of
<1>8. PICK of2 : of2 = {s \in schedules' : s.w = w}
  OBVIOUS
<1>9. Served(w) =>
         /\ W!Nodes((of2 \ d2) \cup s2) = def /\ \A s \in d2 : s.node \notin def
         /\ \A r, s \in of2 : r.node = s.node => r = s
         /\ \A r \in s2 : \A s \in of2 \cup s2 : r.node = s.node => r = s
  <2>1. SUFFICES ASSUME Served(w)
        PROVE
         /\ W!Nodes((of2 \ d2) \cup s2) = def /\ \A s \in d2 : s.node \notin def
         /\ \A r, s \in of2 : r.node = s.node => r = s
         /\ \A r \in s2 : \A s \in of2 \cup s2 : r.node = s.node => r = s
    OBVIOUS
  <2>2. ASSUME NEW s \in save, schedules' = schedules \cup {s}, s2 = save \ {s}, d2 = drop
        PROVE  /\ (of2 \ d2) \cup s2 = (Of(w) \ drop) \cup save
               /\ of2 \subseteq Of(w) \cup save
    <3>1. of2 = Of(w) \cup {s}
      BY <1>5, <1>8, <2>2 DEF Of
    <3>2. s.node \in W!Nodes((Of(w) \ drop) \cup save)
      BY DEF W!Nodes
    <3>3. s \notin drop
      BY <1>6, <2>1, <3>2
    <3> QED
      BY <2>2, <3>1, <3>3
  <2>3. ASSUME NEW d \in drop, schedules' = schedules \ {d}, save = {}, s2 = {}, d2 = drop \ {d}
        PROVE  /\ (of2 \ d2) \cup s2 = (Of(w) \ drop) \cup save
               /\ of2 \subseteq Of(w) \cup save
    <3>1. of2 = Of(w) \ {d}
      BY <1>5, <1>8, <2>3 DEF Of
    <3> QED
      BY <2>3, <3>1
  <2>4. (of2 \ d2) \cup s2 = (Of(w) \ drop) \cup save /\ of2 \subseteq Of(w) \cup save
    BY <1>3, <2>2, <2>3
  <2>5. \A r, s \in Of(w) \cup save : r.node = s.node => r = s
    BY <1>6, <2>1
  <2> QED
    BY <1>4, <1>6, <2>1, <2>4, <2>5
<1>12. /\ DOMAIN thread' = Thread /\ \A u \in Thread \ {t} : thread'[u] = thread[u]
       /\ thread'[t].w = w /\ thread'[t].new = thread[t].new
       /\ thread'[t].save = s2 /\ thread'[t].drop = d2
       /\ thread'[t].at \in {"end", "schedule"} /\ (thread'[t].at = "schedule" <=> s2 \cup d2 # {})
  BY <1>0, <1>3 DEF Became
<1>13. /\ \A v : Served(v)' = Served(v) /\ Told(v)' = Told(v)
       /\ \A v : \A u \in Thread : Stores(u, v)' = Stores(u, v)
       /\ \A v : v = w => Of(v)' = of2
  BY <1>0, <1>1, <1>8, <1>12 DEF Served, Told, Stores, Storing, Of
<1>14. WorkflowsTypeOK' /\ SharersAreKnown'
  BY <1>0, <1>1, <1>12 DEF WorkflowsTypeOK, SharersAreKnown
<1>15. NumbersAreRequests'
  BY <1>0, <1>1, <1>12, <1>13 DEF NumbersAreRequests
<1>16. FilesAreAsLeft'
  <2>1. Served(w) => AsLeft(t)'
    BY <1>0, <1>1, <1>6, <1>12 DEF AsLeft, Storing
  <2>2. ASSUME NEW u \in Thread, u # t, Served(thread[u].w), AsLeft(u) PROVE AsLeft(u)'
    BY <1>1, <1>12, <1>13, <2>2 DEF AsLeft
  <2>3. \A u \in Thread : Served(thread[u].w)' => Served(thread[u].w)
    BY <1>0, <1>1, <1>12, <1>13
  <2>4. Served(thread[t].w)' => Served(w)
    BY <1>0, <2>3
  <2> QED
    BY <2>1, <2>2, <2>3, <2>4 DEF FilesAreAsLeft
<1>17. VersionsAreTold'
  BY <1>1, <1>13 DEF VersionsAreTold
<1>18. LinksStand' /\ SchedulesAreOwn'
  BY <1>1, <1>4, <1>5, <1>12, <1>13 DEF LinksStand, SchedulesAreOwn
<1>19. NodesHaveOne'
  <2>1. SUFFICES ASSUME NEW v \in Workflow, Served(v), NEW o, o = Of(v)'
                 PROVE  /\ \A r, s \in o : r.node = s.node => r = s
                        /\ \A u \in Thread : thread'[u].w = v =>
                               \A r \in thread'[u].save : \A s \in o \cup thread'[u].save :
                                   r.node = s.node => r = s
    BY <1>13 DEF NodesHaveOne
  <2>2. CASE v = w
    BY <1>6, <1>9, <1>12, <1>13, <2>1, <2>2
  <2>3. CASE v # w
    BY <1>7, <1>12, <2>1, <2>3 DEF NodesHaveOne
  <2> QED
    BY <2>2, <2>3
<1>20. RestIsToDo'
  <2>1. SUFFICES ASSUME NEW u \in Thread, Served(thread'[u].w), thread'[u].at = "schedule",
                        NEW o, o = {s \in schedules' : s.w = thread'[u].w}
                 PROVE  /\ W!Nodes((o \ thread'[u].drop) \cup thread'[u].save) = thread'[u].new.def
                        /\ \A s \in thread'[u].drop : s.node \notin thread'[u].new.def
    <3>1. \A u \in Thread : /\ Served(thread[u].w)' = Served(thread'[u].w)
                            /\ Of(thread[u].w)' = {s \in schedules' : s.w = thread'[u].w}
      BY <1>1 DEF Served, Of
    <3> QED
      BY <2>1, <3>1 DEF RestIsToDo
  <2>2. CASE u = t
    BY <1>0, <1>8, <1>9, <1>12, <2>1, <2>2, ZenonT(60)
  <2>3. CASE u # t
    <3>1. thread'[u] = thread[u] /\ Served(thread[u].w) /\ thread[u].w \in Workflow \ {w}
      BY <1>6, <1>12, <2>1, <2>3 DEF Served
    <3>2. o = Of(thread[u].w)
      BY <1>3, <1>5, <2>1, <3>1 DEF Of
    <3> QED
      BY <2>1, <3>1, <3>2 DEF RestIsToDo
  <2> QED
    BY <2>2, <2>3
<1>21. SchedulesAreAll'
  <2>1. SUFFICES ASSUME NEW v \in Workflow, Served(v), v \notin torn, stored[v] # None, NEW o, o = Of(v)'
                 PROVE  \/ W!Nodes(o) = stored[v].def
                        \/ \E u \in Thread : /\ thread'[u].w = v
                                             /\ thread'[u].at \in Storing \cup {"schedules", "schedule"}
    BY <1>1, <1>13 DEF SchedulesAreAll
  <2>2. CASE v = w /\ thread'[t].at = "schedule"
    BY <1>12, <2>2
  <2>3. CASE v = w /\ thread'[t].at # "schedule"
    <3>1. (of2 \ d2) \cup s2 = of2
      BY <1>12, <2>3
    <3> QED
      BY <1>0, <1>6, <1>9, <1>13, <2>1, <2>3, <3>1
  <2>4. CASE v # w
    BY <1>0, <1>7, <1>12, <2>1, <2>4 DEF SchedulesAreAll
  <2> QED
    BY <2>2, <2>3, <2>4
<1> QED
  BY <1>14, <1>15, <1>16, <1>17, <1>18, <1>19, <1>20, <1>21

\* An execution is linked to the latest version, which is told to be what it runs.
LEMMA WorkflowsRun ==
    ASSUME WorkflowsInv, NEW t \in Thread, W!Run(t)
    PROVE  WorkflowsInv'
<1> USE DEF WorkflowsInv
<1>0. PICK w, new, n : w = thread[t].w /\ new = thread[t].new /\ n = thread[t].n
  OBVIOUS
<1>1. /\ UNCHANGED <<stored, versions, index, schedules, requests, mixed, torn>>
      /\ thread[t].at = "run" /\ w \in Workflow
      /\ executions' = executions \cup {[w |-> w, ran |-> new.def, linked |-> n, torn |-> w \in torn]}
      /\ Became(t, "end", {}, 0, {}, {})
  BY <1>0, Becomes DEF W!Run, W!At, W!counters, WorkflowsTypeOK
<1>2. /\ DOMAIN thread' = Thread /\ \A u \in Thread \ {t} : thread'[u] = thread[u]
      /\ thread'[t].w = w /\ thread'[t].at = "end" /\ thread'[t].save = {} /\ thread'[t].drop = {}
  BY <1>0, <1>1 DEF Became
<1>3. /\ \A v : Served(v)' = Served(v) /\ Of(v)' = Of(v) /\ Told(v)' = Told(v)
      /\ \A v : \A u \in Thread : Stores(u, v)' = Stores(u, v)
  BY <1>0, <1>1, <1>2 DEF Served, Of, Told, Stores, Storing
<1>4. WorkflowsTypeOK' /\ SharersAreKnown'
  BY <1>0, <1>1, <1>2 DEF WorkflowsTypeOK, SharersAreKnown
<1>5. NumbersAreRequests' /\ VersionsAreTold'
  BY <1>1, <1>2, <1>3 DEF NumbersAreRequests, VersionsAreTold
<1>6. FilesAreAsLeft'
  <2>1. AsLeft(t)'
    BY <1>2 DEF AsLeft, Storing
  <2>2. ASSUME NEW u \in Thread, u # t, Served(thread[u].w), AsLeft(u) PROVE AsLeft(u)'
    BY <1>1, <1>2, <1>3, <2>2 DEF AsLeft
  <2>3. \A u \in Thread : Served(thread[u].w)' => Served(thread[u].w)
    BY <1>0, <1>1, <1>2, <1>3
  <2> QED
    BY <2>1, <2>2, <2>3 DEF FilesAreAsLeft
<1>7. LinksStand'
  <2>1. ASSUME Served(w), w \notin torn PROVE n \in index[w] /\ versions[w][n] = new.def
    <3>1. stored[w] = new /\ stored[w] # None /\ n = W!LatestNumber(index[w])
      BY <1>0, <1>1, <2>1 DEF FilesAreAsLeft, AsLeft
    <3>2. \A u \in Thread : ~Stores(u, w)
      BY <1>0, <1>1, <2>1, DesksAssumption DEF SharersAreKnown, Served, Stores, Storing
    <3>3. Told(w)
      BY <1>1, <2>1, <3>1, <3>2 DEF VersionsAreTold
    <3>4. index[w] \in SUBSET (1..requests) /\ index[w] # {} /\ requests \in Nat
      BY <1>1, <2>1, <3>3 DEF Told, NumbersAreRequests, WorkflowsTypeOK
    <3>5. W!LatestNumber(index[w]) \in index[w]
      BY <3>4, VersionNumbers
    <3> QED
      BY <3>1, <3>3, <3>5 DEF Told
  <2>2. ASSUME NEW e \in executions'
        PROVE  e.w \in Workflow /\ (Served(e.w) /\ ~e.torn =>
                   e.linked \in index[e.w] /\ versions[e.w][e.linked] = e.ran)
    <3>1. CASE e \in executions
      BY <3>1 DEF LinksStand
    <3>2. CASE e = [w |-> w, ran |-> new.def, linked |-> n, torn |-> w \in torn]
      <4>1. e.w = w /\ e.ran = new.def /\ e.linked = n /\ (e.torn <=> w \in torn)
        BY <3>2
      <4> QED
        BY <1>1, <2>1, <4>1
    <3> QED
      BY <1>1, <2>2, <3>1, <3>2
  <2> QED
    BY <1>1, <1>3, <2>2 DEF LinksStand
<1>8. SchedulesAreOwn' /\ NodesHaveOne'
  BY <1>1, <1>2, <1>3 DEF SchedulesAreOwn, NodesHaveOne
<1>9. RestIsToDo'
  <2>1. \A u \in Thread : thread'[u].at = "schedule" => u # t /\ thread'[u] = thread[u]
    BY <1>2
  <2> QED
    BY <1>1, <1>3, <2>1 DEF RestIsToDo
<1>10. SchedulesAreAll'
  BY <1>1, <1>2, <1>3 DEF SchedulesAreAll, Storing
<1> QED
  BY <1>4, <1>5, <1>6, <1>7, <1>8, <1>9, <1>10

\* Whoever dies leaves a workflow of which nothing is said until it is stored again.
LEMMA WorkflowsCrash == WorkflowsInv /\ W!Crash => WorkflowsInv'
<1> SUFFICES ASSUME WorkflowsInv, W!Crash PROVE WorkflowsInv'
  OBVIOUS
<1> USE DEF WorkflowsInv
<1>1. /\ DOMAIN thread' = Thread /\ None \notin Workflow
      /\ \A t \in Thread : /\ thread'[t].at = "-" /\ thread'[t].w = None
                           /\ thread'[t].save = {} /\ thread'[t].drop = {}
  BY DesksAssumption DEF W!Crash, W!Idle
<1>2. /\ UNCHANGED <<stored, versions, index, schedules, executions, requests, mixed>>
      /\ torn \subseteq torn' /\ \A w \in Workflow \ torn' : \A t \in Thread : thread[t].w # w
  BY <1>1 DEF W!Crash, W!disk
<1>3. /\ \A w : Served(w)' = Served(w) /\ Of(w)' = Of(w) /\ Told(w)' = Told(w)
      /\ \A w : \A t \in Thread : ~Stores(t, w)'
      /\ ~Served(None)
  BY <1>1, <1>2 DEF Served, Of, Told, Stores, Storing
<1>4. WorkflowsTypeOK' /\ SharersAreKnown' /\ SchedulesAreOwn'
  BY <1>1, <1>2 DEF WorkflowsTypeOK, SharersAreKnown, SchedulesAreOwn
<1>5. NumbersAreRequests' /\ NodesHaveOne' /\ LinksStand'
  BY <1>1, <1>2, <1>3 DEF NumbersAreRequests, NodesHaveOne, LinksStand
<1>6. FilesAreAsLeft' /\ RestIsToDo'
  BY <1>1, <1>2, <1>3 DEF FilesAreAsLeft, RestIsToDo, AsLeft, Storing
<1>7. VersionsAreTold'
  BY <1>2, <1>3 DEF VersionsAreTold, Stores
<1>8. SchedulesAreAll'
  BY <1>2, <1>3 DEF SchedulesAreAll
<1> QED
  BY <1>4, <1>5, <1>6, <1>7, <1>8

LEMMA WorkflowsStep == WorkflowsInv /\ W!Next => WorkflowsInv'
<1> SUFFICES ASSUME WorkflowsInv, W!Next PROVE WorkflowsInv'
  OBVIOUS
<1>1. ASSUME NEW t \in Thread, W!Create(t) \/ W!Update(t) \/ W!Delete(t) \/ W!BeginExecute(t)
      PROVE  WorkflowsInv'
  <2>1. \E w \in Workflow : \E at \in {"write", "unlink", "latest"} : \E new :
           W!Begin(t, w, at, new) /\ (at = "latest" => new = stored[w] /\ new # None)
    <3>1. CASE W!Create(t) \/ W!Update(t)
      <4>1. \E w \in Workflow : \E new : W!Begin(t, w, "write", new)
        BY <3>1 DEF W!Create, W!Update
      <4> QED
        BY <4>1
    <3>2. CASE W!Delete(t)
      <4>1. \E w \in Workflow : W!Begin(t, w, "unlink", None)
        BY <3>2 DEF W!Delete
      <4> QED
        BY <4>1
    <3>3. CASE W!BeginExecute(t)
      <4>1. \E w \in Workflow : W!Begin(t, w, "latest", stored[w]) /\ stored[w] # None
        BY <3>3 DEF W!BeginExecute
      <4> QED
        BY <4>1
    <3> QED
      BY <1>1, <3>1, <3>2, <3>3
  <2> QED
    BY <2>1, WorkflowsBegin
<1>2. ASSUME NEW t \in Thread, W!LoadIds(t) \/ W!SaveIds(t) \/ W!LoadNumbers(t) \/ W!FindVersion(t)
      PROVE  WorkflowsInv'
  <2>1. /\ WorkflowsTypeOK
        /\ UNCHANGED <<stored, versions, index, schedules, executions, requests, mixed, torn>>
    BY <1>2 DEF WorkflowsInv, W!LoadIds, W!SaveIds, W!LoadNumbers, W!FindVersion, W!disk, W!counters
  <2>2. CASE W!LoadIds(t) \/ W!SaveIds(t)
    <3>1. PICK at, ids :
              /\ at \in {"list", "numbers", "unlist", "end"}
              /\ W!Goes(t, at, ids, 0)
              /\ thread[t].at \in {"ids", "list", "unids", "unlist"}
              /\ at \in {"list", "numbers"} <=> thread[t].at \in {"ids", "list"}
      BY <2>2 DEF W!LoadIds, W!SaveIds, W!At
    <3>2. Became(t, at, ids, 0, {}, {})
      BY <2>1, <3>1, Becomes
    <3>3. at \in Storing <=> thread[t].at \in Storing
      BY <3>1 DEF Storing
    <3> QED
      BY <2>1, <3>1, <3>2, <3>3, WorkflowsMove
  <2>3. CASE W!LoadNumbers(t)
    <3>1. /\ thread[t].at = "numbers"
          /\ Became(t, "version", index[thread[t].w], W!NextNumber(index[thread[t].w]), {}, {})
      BY <2>1, <2>3, Becomes DEF W!LoadNumbers, W!At
    <3> QED
      BY <2>1, <3>1, WorkflowsMove DEF Storing
  <2>4. CASE W!FindVersion(t)
    <3>1. /\ thread[t].at = "latest"
          /\ Became(t, "run", {}, W!LatestNumber(index[thread[t].w]), {}, {})
      BY <2>1, <2>4, Becomes DEF W!FindVersion, W!At
    <3> QED
      BY <2>1, <3>1, WorkflowsMove DEF Storing
  <2> QED
    BY <1>2, <2>2, <2>3, <2>4
<1> QED
  BY <1>1, <1>2, WorkflowsAnswer, WorkflowsWrite, WorkflowsWriteVersion, WorkflowsSaveNumbers,
     WorkflowsListSchedules, WorkflowsSaveSchedule, WorkflowsRun, WorkflowsCrash DEF W!Next

LEMMA WorkflowsRest == WorkflowsInv /\ UNCHANGED W!vars => WorkflowsInv'
<1> SUFFICES ASSUME WorkflowsInv, UNCHANGED W!vars PROVE WorkflowsInv'
  OBVIOUS
<1> USE DEF WorkflowsInv
<1>1. UNCHANGED <<stored, versions, index, schedules, executions, requests, mixed, torn, thread>>
  BY DEF W!vars, W!disk, W!counters
<1>2. /\ \A w : Served(w)' = Served(w) /\ Of(w)' = Of(w) /\ Told(w)' = Told(w)
      /\ \A w : \A t \in Thread : Stores(t, w)' = Stores(t, w)
      /\ \A t \in Thread : AsLeft(t)' = AsLeft(t)
  BY <1>1 DEF Served, Of, Told, Stores, AsLeft
<1>3. WorkflowsTypeOK' /\ SharersAreKnown' /\ NumbersAreRequests' /\ SchedulesAreOwn'
  BY <1>1, <1>2 DEF WorkflowsTypeOK, SharersAreKnown, NumbersAreRequests, SchedulesAreOwn
<1>4. FilesAreAsLeft' /\ VersionsAreTold' /\ LinksStand'
  BY <1>1, <1>2 DEF FilesAreAsLeft, VersionsAreTold, LinksStand
<1>5. NodesHaveOne' /\ RestIsToDo' /\ SchedulesAreAll'
  BY <1>1, <1>2 DEF NodesHaveOne, RestIsToDo, SchedulesAreAll
<1> QED
  BY <1>3, <1>4, <1>5

LEMMA WorkflowsAmongDesks ==
    /\ Init => (desk = "workflows" => WorkflowsInv)
    /\ (desk = "workflows" => WorkflowsInv) /\ [Next]_vars => (desk = "workflows" => WorkflowsInv)'
<1>1. Init /\ desk = "workflows" => W!Init
  BY DEF Init, InitReviews, InitSources, InitConnectors, InitWorkflows, InitRegistries,
         InitGraph, InitClaims, InitRooms, InitStore, InitRules
<1>2. [Next]_vars => desk' = desk /\ (desk = "workflows" => W!Next \/ UNCHANGED W!vars)
  BY DEF Next, NextReviews, NextSources, NextConnectors, NextWorkflows, NextRegistries, NextGraph,
         NextClaims, NextRooms, NextStore, vars, shared, ofWorkflows, W!vars, W!disk, W!counters
<1> QED
  BY <1>1, <1>2, WorkflowsStart, WorkflowsStep, WorkflowsRest

LEMMA WorkflowsImply == WorkflowsInv => W!RunsWhatItNames /\ W!OneScheduleEach
<1> SUFFICES ASSUME WorkflowsInv PROVE W!RunsWhatItNames /\ W!OneScheduleEach
  OBVIOUS
<1> USE DEF WorkflowsInv
<1>1. W!RunsWhatItNames
  <2>1. \A w \in Workflow : Served(w) => 0 \notin index[w]
    BY DEF NumbersAreRequests, WorkflowsTypeOK
  <2> QED
    BY <2>1 DEF W!RunsWhatItNames, LinksStand, Served
<1>2. ASSUME NEW w \in Workflow \ (mixed \cup torn), stored[w] # None, W!Quiet(w)
      PROVE  /\ {s.node : s \in {x \in schedules : x.w = w}} = stored[w].def
             /\ \A r, s \in schedules : r.w = w /\ s.w = w /\ r.node = s.node => r = s
  <2>1. W!Nodes(Of(w)) = stored[w].def
    BY <1>2 DEF SchedulesAreAll, Served, W!Quiet
  <2>2. \A r, s \in Of(w) : r.node = s.node => r = s
    BY <1>2 DEF NodesHaveOne, Served
  <2> QED
    BY <2>1, <2>2 DEF W!Nodes, Of
<1> QED
  BY <1>1, <1>2 DEF W!OneScheduleEach

\* The version an execution is linked to is the definition it ran, and a workflow has one
\* schedule for each of its trigger nodes, wherever an update dies: unless two requests worked
\* on the workflow at once (execute_workflow, create_version, _sync_workflow_schedules).
THEOREM ExecutionsRunWhatTheyName == Spec => []RunsWhatItNames
<1>1. (desk = "workflows" => WorkflowsInv) => RunsWhatItNames
  BY WorkflowsImply DEF RunsWhatItNames
<1> QED
  BY <1>1, WorkflowsAmongDesks, PTL DEF Spec

-----------------------------------------------------------------------------
(* The SQLite store                                                         *)

Filling == {"import", "force"}
StoreOp == {"-", "init", "add", "post", "use", "export", "import", "force", "collect"}
StoreStage == {"-", "name", "again", "create", "activate", "active", "row", "write", "open", "clash",
               "drop", "remove", "fill", "known", "add"}
Bundle == [id : Name, artifacts : SUBSET File]
StoreRow == [id : Name, active : BOOLEAN]
StoreCommand == [at : StoreStage, op : StoreOp, name : Name \cup {None}, id : Name \cup {None},
                 read : SUBSET File, bundle : Bundle \cup {None}]

StoreTypeOK ==
    /\ slug \in [Name -> Name]
    /\ stored \in [Name -> StoreRow \cup {None}]
    /\ artifacts \in [File -> Name \cup {None}]
    /\ bundles \in [Name -> Bundle \cup {None}]
    /\ thread \in [Thread -> StoreCommand]
    /\ requests \in Nat /\ crashes \in Nat /\ mixed \in BOOLEAN

\* The steps a command of each kind may be at, and what it has found out by then.
Planned(th) ==
    /\ th.op = "-" => th.at = "-"
    /\ th.op = "add" => th.at \in {"name", "create"}
    /\ th.op = "init" => th.at \in {"name", "create", "activate"}
    /\ th.op = "post" => th.at \in {"name", "again", "create", "activate"}
    /\ th.op = "use" => th.at \in {"name", "activate"}
    /\ th.op = "export" => th.at \in {"active", "row", "write"}
    /\ th.op = "import" => th.at \in {"open", "clash", "create", "fill"}
    /\ th.op = "force" => th.at \in {"open", "clash", "drop", "remove", "create", "fill"}
    /\ th.op = "collect" => th.at \in {"active", "known", "add"}
    /\ th.op \notin {"-", "export", "collect"} \/ th.at = "write" => th.name \in Name
    /\ th.at \notin {"-", "name", "active", "open"} => th.id \in Name
    /\ th.op \in Filling /\ th.at # "open" => th.bundle \in Bundle
CommandsArePlanned == \A t \in Thread : Planned(thread[t])

\* Commands that disturb each other are on record as such.
DisturbancesAreKnown ==
    \A t, u \in Thread : t # u /\ S!Disturb(thread[t].op, thread[u].op) => mixed

IdsDiffer == \A n, m \in S!Rows : stored[n].id = stored[m].id => n = m

\* What the artifacts refer to is there.
ArtifactsHaveRows == \A f \in File : artifacts[f] # None => S!WithId(artifacts[f]) # {}

\* One workspace is active, and those just created that are about to be activated.
OneOrCreated ==
    crashes = 0 => \E a \in Name \cup {None} : \A n \in S!Active :
        n = a \/ \E t \in Thread : S!Created(t) /\ thread[t].name = n

\* A collection has every file but those it is yet to add, and an import finds a workspace
\* without artifacts, unless they were disturbed.
FilesAreComing ==
    \A t \in Thread : S!At(t, "add") /\ ~mixed =>
        \A f \in File \ thread[t].read : artifacts[f] = thread[t].id
NothingIsThere == \A t \in Thread : S!At(t, "fill") /\ ~mixed => S!Of(thread[t].id) = {}

StoreInv ==
    /\ StoreTypeOK /\ CommandsArePlanned /\ DisturbancesAreKnown /\ IdsDiffer
    /\ ArtifactsHaveRows /\ OneOrCreated /\ FilesAreComing /\ NothingIsThere

LEMMA StoreStart == S!Init => StoreInv
<1> SUFFICES ASSUME S!Init PROVE StoreInv
  OBVIOUS
<1>1. /\ thread = [t \in Thread |-> S!Idle] /\ requests = 0 /\ crashes = 0 /\ mixed = FALSE
      /\ slug \in [Name -> Name]
  BY Zenon DEF S!Init
<1>2. PICK has \in SUBSET Name : \E active \in has \cup {None} :
          /\ S!IsInjective([n \in has |-> slug[n]])
          /\ stored = [n \in Name |-> IF n \in has THEN [id |-> slug[n], active |-> n = active] ELSE None]
  BY Zenon DEF S!Init
<1>3. PICK active \in has \cup {None} :
          /\ S!IsInjective([n \in has |-> slug[n]])
          /\ stored = [n \in Name |-> IF n \in has THEN [id |-> slug[n], active |-> n = active] ELSE None]
  BY <1>2
<1>4. \A n \in Name : stored[n] = IF n \in has THEN [id |-> slug[n], active |-> n = active] ELSE None
  BY <1>3
<1>5. ASSUME NEW n \in has
      PROVE  /\ stored[n] # None /\ stored[n] \in StoreRow
             /\ stored[n].id = slug[n] /\ stored[n].active = (n = active)
  <2> DEFINE b == (n = active)
  <2>1. stored[n] = [id |-> slug[n], active |-> b]
    BY <1>4
  <2>2. b \in BOOLEAN /\ slug[n] \in Name
    BY <1>1
  <2> HIDE DEF b
  <2>3. stored[n] \in StoreRow /\ stored[n].id = slug[n] /\ stored[n].active = b
    BY <2>1, <2>2 DEF StoreRow
  <2>4. stored[n] # None
    BY <2>3, DesksAssumption DEF StoreRow
  <2> QED
    BY <2>3, <2>4 DEF b
<1>6. S!Rows = has
  BY <1>4, <1>5 DEF S!Rows
<1>14. S!Idle \in StoreCommand
  BY DEF S!Idle, StoreCommand, StoreStage, StoreOp, Bundle
<1>7. StoreTypeOK
  <2>1. stored \in [Name -> StoreRow \cup {None}]
    <3>1. \A n \in Name : stored[n] \in StoreRow \cup {None}
      BY <1>4, <1>5
    <3> QED
      BY <1>3, <3>1
  <2>2. artifacts \in [File -> Name \cup {None}]
    <3>1. artifacts \in [File -> {stored[n].id : n \in S!Rows} \cup {None}]
      BY Zenon DEF S!Init
    <3>2. {stored[n].id : n \in S!Rows} \subseteq Name
      BY <1>1, <1>5, <1>6
    <3> QED
      BY <3>1, <3>2
  <2>3. bundles \in [Name -> Bundle \cup {None}]
    BY <1>1, DesksAssumption DEF S!Init, Bundle
  <2> QED
    BY <1>1, <1>14, <2>1, <2>2, <2>3 DEF StoreTypeOK
<1>8. \A t \in Thread : thread[t].at = "-" /\ thread[t].op = "-"
  BY <1>1 DEF S!Idle
<1>9. CommandsArePlanned /\ DisturbancesAreKnown /\ FilesAreComing /\ NothingIsThere
  BY <1>8 DEF CommandsArePlanned, Planned, Filling, DisturbancesAreKnown, S!Disturb, FilesAreComing, NothingIsThere, S!At
<1>10. IdsDiffer
  BY <1>1, <1>3, <1>5, <1>6 DEF IdsDiffer, S!IsInjective
<1>11. ArtifactsHaveRows
  <2>1. artifacts \in [File -> {stored[n].id : n \in S!Rows} \cup {None}]
    BY Zenon DEF S!Init
  <2> QED
    BY <2>1 DEF ArtifactsHaveRows, S!WithId
<1>12. OneOrCreated
  <2>1. \A n \in S!Active : n = active
    BY <1>5, <1>6 DEF S!Active
  <2> QED
    BY <2>1 DEF OneOrCreated
<1> QED
  BY <1>7, <1>9, <1>10, <1>11, <1>12 DEF StoreInv

\* The fields of a command that is edited.
Doing(at, op, name, id, read, bundle) ==
    [at |-> at, op |-> op, name |-> name, id |-> id, read |-> read, bundle |-> bundle]

LEMMA OneEdit ==
    ASSUME NEW c, c = Doing(c.at, c.op, c.name, c.id, c.read, c.bundle), NEW v
    PROVE  /\ [c EXCEPT !.at = v] = Doing(v, c.op, c.name, c.id, c.read, c.bundle)
           /\ [c EXCEPT !.op = v] = Doing(c.at, v, c.name, c.id, c.read, c.bundle)
           /\ [c EXCEPT !.name = v] = Doing(c.at, c.op, v, c.id, c.read, c.bundle)
           /\ [c EXCEPT !.id = v] = Doing(c.at, c.op, c.name, v, c.read, c.bundle)
           /\ [c EXCEPT !.read = v] = Doing(c.at, c.op, c.name, c.id, v, c.bundle)
           /\ [c EXCEPT !.bundle = v] = Doing(c.at, c.op, c.name, c.id, c.read, v)
<1>1. [c EXCEPT !.at = v] = Doing(v, c.op, c.name, c.id, c.read, c.bundle)
  BY DEF Doing
<1>2. [c EXCEPT !.op = v] = Doing(c.at, v, c.name, c.id, c.read, c.bundle)
  BY DEF Doing
<1>3. [c EXCEPT !.name = v] = Doing(c.at, c.op, v, c.id, c.read, c.bundle)
  BY DEF Doing
<1>4. [c EXCEPT !.id = v] = Doing(c.at, c.op, c.name, v, c.read, c.bundle)
  BY DEF Doing
<1>5. [c EXCEPT !.read = v] = Doing(c.at, c.op, c.name, c.id, v, c.bundle)
  BY DEF Doing
<1>6. [c EXCEPT !.bundle = v] = Doing(c.at, c.op, c.name, c.id, c.read, v)
  BY DEF Doing
<1> QED
  BY <1>1, <1>2, <1>3, <1>4, <1>5, <1>6, Zenon

LEMMA EditAt ==
    ASSUME NEW c \in StoreCommand, NEW at
    PROVE  [c EXCEPT !.at = at] = Doing(at, c.op, c.name, c.id, c.read, c.bundle)
<1>1. c = Doing(c.at, c.op, c.name, c.id, c.read, c.bundle)
  BY DEF StoreCommand, Doing
<1> QED
  BY <1>1, OneEdit, Zenon

LEMMA EditOnlyRead ==
    ASSUME NEW c \in StoreCommand, NEW read
    PROVE  [c EXCEPT !.read = read] = Doing(c.at, c.op, c.name, c.id, read, c.bundle)
<1>1. c = Doing(c.at, c.op, c.name, c.id, c.read, c.bundle)
  BY DEF StoreCommand, Doing
<1> QED
  BY <1>1, OneEdit, Zenon

LEMMA EditId ==
    ASSUME NEW c \in StoreCommand, NEW at, NEW v
    PROVE  [c EXCEPT !.at = at, !.id = v] = Doing(at, c.op, c.name, v, c.read, c.bundle)
<1>1. PICK d : d = [c EXCEPT !.at = at]
  OBVIOUS
<1>2. d = Doing(at, c.op, c.name, c.id, c.read, c.bundle)
  BY <1>1, EditAt, Zenon
<1>3. d = Doing(d.at, d.op, d.name, d.id, d.read, d.bundle)
  BY <1>2 DEF Doing
<1>4. [d EXCEPT !.id = v] = Doing(d.at, d.op, d.name, v, d.read, d.bundle)
  BY <1>3, OneEdit, Zenon
<1>5. Doing(d.at, d.op, d.name, v, d.read, d.bundle) = Doing(at, c.op, c.name, v, c.read, c.bundle)
  BY <1>2 DEF Doing
<1>6. [c EXCEPT !.at = at, !.id = v] = [d EXCEPT !.id = v]
  BY <1>1, Zenon
<1> QED
  BY <1>4, <1>5, <1>6, Zenon

LEMMA EditName ==
    ASSUME NEW c \in StoreCommand, NEW at, NEW v
    PROVE  [c EXCEPT !.at = at, !.name = v] = Doing(at, c.op, v, c.id, c.read, c.bundle)
<1>1. PICK d : d = [c EXCEPT !.at = at]
  OBVIOUS
<1>2. d = Doing(at, c.op, c.name, c.id, c.read, c.bundle)
  BY <1>1, EditAt, Zenon
<1>3. d = Doing(d.at, d.op, d.name, d.id, d.read, d.bundle)
  BY <1>2 DEF Doing
<1>4. [d EXCEPT !.name = v] = Doing(d.at, d.op, v, d.id, d.read, d.bundle)
  BY <1>3, OneEdit, Zenon
<1>5. Doing(d.at, d.op, v, d.id, d.read, d.bundle) = Doing(at, c.op, v, c.id, c.read, c.bundle)
  BY <1>2 DEF Doing
<1>6. [c EXCEPT !.at = at, !.name = v] = [d EXCEPT !.name = v]
  BY <1>1, Zenon
<1> QED
  BY <1>4, <1>5, <1>6, Zenon

LEMMA EditRead ==
    ASSUME NEW c \in StoreCommand, NEW at, NEW v
    PROVE  [c EXCEPT !.at = at, !.read = v] = Doing(at, c.op, c.name, c.id, v, c.bundle)
<1>1. PICK d : d = [c EXCEPT !.at = at]
  OBVIOUS
<1>2. d = Doing(at, c.op, c.name, c.id, c.read, c.bundle)
  BY <1>1, EditAt, Zenon
<1>3. d = Doing(d.at, d.op, d.name, d.id, d.read, d.bundle)
  BY <1>2 DEF Doing
<1>4. [d EXCEPT !.read = v] = Doing(d.at, d.op, d.name, d.id, v, d.bundle)
  BY <1>3, OneEdit, Zenon
<1>5. Doing(d.at, d.op, d.name, d.id, v, d.bundle) = Doing(at, c.op, c.name, c.id, v, c.bundle)
  BY <1>2 DEF Doing
<1>6. [c EXCEPT !.at = at, !.read = v] = [d EXCEPT !.read = v]
  BY <1>1, Zenon
<1> QED
  BY <1>4, <1>5, <1>6, Zenon

LEMMA EditBundle ==
    ASSUME NEW c \in StoreCommand, NEW at, NEW v
    PROVE  [c EXCEPT !.at = at, !.bundle = v] = Doing(at, c.op, c.name, c.id, c.read, v)
<1>1. PICK d : d = [c EXCEPT !.at = at]
  OBVIOUS
<1>2. d = Doing(at, c.op, c.name, c.id, c.read, c.bundle)
  BY <1>1, EditAt, Zenon
<1>3. d = Doing(d.at, d.op, d.name, d.id, d.read, d.bundle)
  BY <1>2 DEF Doing
<1>4. [d EXCEPT !.bundle = v] = Doing(d.at, d.op, d.name, d.id, d.read, v)
  BY <1>3, OneEdit, Zenon
<1>5. Doing(d.at, d.op, d.name, d.id, d.read, v) = Doing(at, c.op, c.name, c.id, c.read, v)
  BY <1>2 DEF Doing
<1>6. [c EXCEPT !.at = at, !.bundle = v] = [d EXCEPT !.bundle = v]
  BY <1>1, Zenon
<1> QED
  BY <1>4, <1>5, <1>6, Zenon

LEMMA EditOp ==
    ASSUME NEW c \in StoreCommand, NEW at, NEW v
    PROVE  [c EXCEPT !.at = at, !.op = v] = Doing(at, v, c.name, c.id, c.read, c.bundle)
<1>1. PICK d : d = [c EXCEPT !.at = at]
  OBVIOUS
<1>2. d = Doing(at, c.op, c.name, c.id, c.read, c.bundle)
  BY <1>1, EditAt, Zenon
<1>3. d = Doing(d.at, d.op, d.name, d.id, d.read, d.bundle)
  BY <1>2 DEF Doing
<1>4. [d EXCEPT !.op = v] = Doing(d.at, v, d.name, d.id, d.read, d.bundle)
  BY <1>3, OneEdit, Zenon
<1>5. Doing(d.at, v, d.name, d.id, d.read, d.bundle) = Doing(at, v, c.name, c.id, c.read, c.bundle)
  BY <1>2 DEF Doing
<1>6. [c EXCEPT !.at = at, !.op = v] = [d EXCEPT !.op = v]
  BY <1>1, Zenon
<1> QED
  BY <1>4, <1>5, <1>6, Zenon

LEMMA EditBundleId ==
    ASSUME NEW c \in StoreCommand, NEW at, NEW v, NEW w
    PROVE  [c EXCEPT !.at = at, !.bundle = v, !.id = w] = Doing(at, c.op, c.name, w, c.read, v)
<1>1. PICK d : d = [c EXCEPT !.at = at, !.bundle = v]
  OBVIOUS
<1>2. d = Doing(at, c.op, c.name, c.id, c.read, v)
  BY <1>1, EditBundle, Zenon
<1>3. d = Doing(d.at, d.op, d.name, d.id, d.read, d.bundle)
  BY <1>2 DEF Doing
<1>4. [d EXCEPT !.id = w] = Doing(d.at, d.op, d.name, w, d.read, d.bundle)
  BY <1>3, OneEdit, Zenon
<1>5. Doing(d.at, d.op, d.name, w, d.read, d.bundle) = Doing(at, c.op, c.name, w, c.read, v)
  BY <1>2 DEF Doing
<1>6. [c EXCEPT !.at = at, !.bundle = v, !.id = w] = [d EXCEPT !.id = w]
  BY <1>1, Zenon
<1> QED
  BY <1>4, <1>5, <1>6, Zenon

LEMMA EditOpName ==
    ASSUME NEW c \in StoreCommand, NEW at, NEW v, NEW w
    PROVE  [c EXCEPT !.at = at, !.op = v, !.name = w] = Doing(at, v, w, c.id, c.read, c.bundle)
<1>1. PICK d : d = [c EXCEPT !.at = at, !.op = v]
  OBVIOUS
<1>2. d = Doing(at, v, c.name, c.id, c.read, c.bundle)
  BY <1>1, EditOp, Zenon
<1>3. d = Doing(d.at, d.op, d.name, d.id, d.read, d.bundle)
  BY <1>2 DEF Doing
<1>4. [d EXCEPT !.name = w] = Doing(d.at, d.op, w, d.id, d.read, d.bundle)
  BY <1>3, OneEdit, Zenon
<1>5. Doing(d.at, d.op, w, d.id, d.read, d.bundle) = Doing(at, v, w, c.id, c.read, c.bundle)
  BY <1>2 DEF Doing
<1>6. [c EXCEPT !.at = at, !.op = v, !.name = w] = [d EXCEPT !.name = w]
  BY <1>1, Zenon
<1> QED
  BY <1>4, <1>5, <1>6, Zenon

\* A command goes on, as planned.
LEMMA StoreCommands ==
    ASSUME StoreInv, NEW t \in Thread, NEW th \in StoreCommand, Planned(th),
           th.op = thread[t].op \/ th.op = "-",
           S!Goes(t, th), UNCHANGED mixed
    PROVE  /\ thread' \in [Thread -> StoreCommand] /\ CommandsArePlanned' /\ DisturbancesAreKnown'
           /\ \A u \in Thread : thread'[u] = IF u = t THEN th ELSE thread[u]
<1>1. thread \in [Thread -> StoreCommand]
  BY DEF StoreInv, StoreTypeOK
<1>2. \A u \in Thread : thread'[u] = IF u = t THEN th ELSE thread[u]
  BY <1>1 DEF S!Goes
<1>3. thread' \in [Thread -> StoreCommand]
  BY <1>1 DEF S!Goes
<1>4. CommandsArePlanned'
  <2>1. \A u \in Thread : Planned(thread[u])
    BY DEF StoreInv, CommandsArePlanned
  <2>2. ASSUME NEW u \in Thread PROVE Planned(thread'[u])
    BY <1>2, <2>1, Zenon
  <2> QED
    BY <2>2, Zenon DEF CommandsArePlanned, Planned
<1>5. DisturbancesAreKnown'
  <2>1. \A u \in Thread : thread'[u].op \in {thread[u].op, "-"}
    BY <1>2
  <2>2. \A op : ~S!Disturb("-", op) /\ ~S!Disturb(op, "-")
    BY DEF S!Disturb
  <2>3. \A u, v \in Thread : S!Disturb(thread'[u].op, thread'[v].op) => S!Disturb(thread[u].op, thread[v].op)
    BY <2>1, <2>2
  <2> QED
    BY <2>3 DEF StoreInv, DisturbancesAreKnown
<1> QED
  BY <1>2, <1>3, <1>4, <1>5

\* The tables stay as they are.
LEMMA StoreMoves ==
    ASSUME StoreInv, NEW t \in Thread, NEW th \in StoreCommand, Planned(th),
           th.op = thread[t].op \/ th.op = "-",
           S!Goes(t, th), UNCHANGED <<slug, stored, artifacts, requests, mixed>>,
           bundles' \in [Name -> Bundle \cup {None}],
           \/ crashes' = crashes /\ thread[t].at # "activate"
           \/ crashes' = crashes + 1,
           th.at = "add" => mixed \/ \A f \in File \ th.read : artifacts[f] = th.id,
           th.at # "fill"
    PROVE  StoreInv'
<1>1. /\ thread' \in [Thread -> StoreCommand] /\ CommandsArePlanned' /\ DisturbancesAreKnown'
      /\ \A u \in Thread : thread'[u] = IF u = t THEN th ELSE thread[u]
  BY StoreCommands
<1>2. crashes' \in Nat /\ (crashes' = 0 => crashes = 0 /\ thread[t].at # "activate")
  BY DEF StoreInv, StoreTypeOK
<1>3. StoreTypeOK'
  BY <1>1, <1>2 DEF StoreInv, StoreTypeOK
<1>4. IdsDiffer' /\ ArtifactsHaveRows'
  BY DEF StoreInv, IdsDiffer, ArtifactsHaveRows, S!Rows, S!WithId
<1>5. OneOrCreated'
  <2>1. SUFFICES ASSUME crashes' = 0 PROVE OneOrCreated'
    BY DEF OneOrCreated
  <2>2. \A u \in Thread : S!Created(u) => S!Created(u)' /\ thread'[u].name = thread[u].name
    BY <1>1, <1>2, <2>1 DEF S!Created, S!At
  <2>3. S!Active' = S!Active
    BY DEF S!Active, S!Rows
  <2> QED
    BY <1>2, <2>1, <2>2, <2>3 DEF StoreInv, OneOrCreated
<1>6. FilesAreComing'
  BY <1>1 DEF StoreInv, FilesAreComing, S!At
<1>7. NothingIsThere'
  BY <1>1 DEF StoreInv, NothingIsThere, S!At, S!Of
<1> QED
  BY <1>1, <1>3, <1>4, <1>5, <1>6, <1>7 DEF StoreInv

LEMMA IdleIsPlanned == S!Idle \in StoreCommand /\ Planned(S!Idle) /\ S!Idle.op = "-" /\ S!Idle.at = "-"
BY DEF S!Idle, StoreCommand, StoreStage, StoreOp, Planned, Filling

LEMMA StoreEnds ==
    ASSUME StoreInv, NEW t \in Thread, S!Ends(t), UNCHANGED <<slug, stored, artifacts, requests, mixed>>,
           bundles' \in [Name -> Bundle \cup {None}],
           \/ crashes' = crashes /\ thread[t].at # "activate"
           \/ crashes' = crashes + 1
    PROVE  StoreInv'
BY IdleIsPlanned, StoreMoves DEF S!Ends

\* What is read decides where a command goes on.
LEMMA StoreReads ==
    ASSUME StoreInv, NEW t \in Thread,
           \/ S!FindName(t) \/ S!FindAgain(t) \/ S!FindActive(t) \/ S!FindRow(t)
           \/ S!OpenBundle(t) \/ S!FindClash(t) \/ S!FindKnown(t)
    PROVE  StoreInv'
<1> DEFINE c == thread[t]
<1>0. /\ slug \in [Name -> Name] /\ stored \in [Name -> StoreRow \cup {None}]
      /\ bundles \in [Name -> Bundle \cup {None}]
  BY DEF StoreInv, StoreTypeOK
<1>1. c \in StoreCommand /\ Planned(c)
  BY DEF StoreInv, StoreTypeOK, CommandsArePlanned
<1>2. /\ c.at \in StoreStage /\ c.op \in StoreOp /\ c.name \in Name \cup {None} /\ c.id \in Name \cup {None}
      /\ c.read \in SUBSET File /\ c.bundle \in Bundle \cup {None}
  BY <1>1 DEF StoreCommand
<1>3. UNCHANGED <<slug, stored, artifacts, bundles, requests, crashes, mixed>> /\ c.at # "activate"
  BY DEF S!FindName, S!FindAgain, S!FindActive, S!FindRow, S!OpenBundle, S!FindClash, S!FindKnown, S!Reads, S!At
<1>4. bundles' \in [Name -> Bundle \cup {None}]
  BY <1>0, <1>3
<1>5. \A n \in S!Rows : stored[n] \in StoreRow /\ stored[n].id \in Name
  BY <1>0 DEF S!Rows, StoreRow
<1>6. ASSUME NEW th \in StoreCommand, Planned(th), th.op = c.op, S!Goes(t, th), th.at # "fill",
             th.at = "add" => mixed \/ \A f \in File \ th.read : artifacts[f] = th.id
      PROVE  StoreInv'
  BY <1>3, <1>4, <1>6, StoreMoves
<1>7. S!Ends(t) => StoreInv'
  BY <1>3, <1>4, StoreEnds
<1> HIDE DEF c
<1>8. CASE S!FindName(t)
  <2>0. c.at = "name" /\ c.op \in {"init", "add", "post", "use"} /\ c.name \in Name
    BY <1>1, <1>2, <1>8 DEF S!FindName, S!At, Planned, StoreOp, Filling, c
  <2>1. CASE c.name \in S!Rows /\ c.op # "add"
    <3>0. PICK id \in Name : id = stored[c.name].id
      BY <1>5, <2>1
    <3>1. PICK th : th = [c EXCEPT !.at = "activate", !.id = id] /\ S!Goes(t, th)
      BY <1>8, <2>1, <3>0, Zenon DEF S!FindName, c
    <3>2. th = Doing("activate", c.op, c.name, id, c.read, c.bundle)
      BY <1>1, <3>1, EditId, Zenon
    <3>3. th \in StoreCommand /\ Planned(th) /\ th.op = c.op /\ th.at \notin {"fill", "add"}
      BY <1>0, <1>2, <1>5, <2>0, <2>1, <3>2 DEF StoreCommand, StoreStage, Planned, Doing, Filling
    <3> QED
      BY <1>6, <2>1, <3>1, <3>2, <3>3
  <2>2. CASE c.name \notin S!Rows /\ c.op # "use"
    <3>1. PICK at \in {"again", "create"} : at = IF c.op = "post" THEN "again" ELSE "create"
      OBVIOUS
    <3>0. PICK id \in Name : id = slug[c.name]
      BY <1>0, <2>0
    <3>2. PICK th : th = [c EXCEPT !.at = at, !.id = id] /\ S!Goes(t, th)
      BY <1>8, <2>2, <3>0, <3>1, Zenon DEF S!FindName, c
    <3>3. th = Doing(at, c.op, c.name, id, c.read, c.bundle)
      BY <1>1, <3>2, EditId, Zenon
    <3>4. th \in StoreCommand /\ Planned(th) /\ th.op = c.op /\ th.at \notin {"fill", "add"}
      BY <1>0, <1>2, <2>0, <2>2, <3>1, <3>3 DEF StoreCommand, StoreStage, Planned, Doing, Filling
    <3> QED
      BY <1>6, <3>1, <3>2, <3>3, <3>4
  <2>3. CASE ~(c.name \in S!Rows /\ c.op # "add") /\ ~(c.name \notin S!Rows /\ c.op # "use")
    BY <1>7, <1>8, <2>3, Zenon DEF S!FindName, c
  <2> QED
    BY <2>1, <2>2, <2>3
<1>9. CASE S!FindAgain(t)
  <2>0. c.at = "again" /\ c.op = "post" /\ c.name \in Name /\ c.id \in Name
    BY <1>1, <1>2, <1>9 DEF S!FindAgain, S!At, Planned, StoreOp, Filling, c
  <2>1. PICK at \in {"activate", "create"} : at = IF c.name \in S!Rows THEN "activate" ELSE "create"
    OBVIOUS
  <2>2. PICK th : th = [c EXCEPT !.at = at] /\ S!Goes(t, th)
    BY <1>9, <2>1, Zenon DEF S!FindAgain, c
  <2>3. th = Doing(at, c.op, c.name, c.id, c.read, c.bundle)
    BY <1>1, <2>2, EditAt, Zenon
  <2>4. th \in StoreCommand /\ Planned(th) /\ th.op = c.op /\ th.at \notin {"fill", "add"}
    BY <1>0, <1>2, <2>0, <2>1, <2>3 DEF StoreCommand, StoreStage, Planned, Doing, Filling
  <2> QED
    BY <1>6, <2>1, <2>2, <2>3, <2>4
<1>10. CASE S!FindActive(t)
  <2>0. c.at = "active" /\ c.op \in {"export", "collect"}
    BY <1>1, <1>2, <1>10 DEF S!FindActive, S!At, Planned, StoreOp, Filling, c
  <2>1. ASSUME NEW n \in S!Active, NEW th, S!Goes(t, th),
               th = [c EXCEPT !.at = IF c.op = "export" THEN "row" ELSE "known", !.id = stored[n].id]
        PROVE  StoreInv'
    <3>1. PICK at \in {"row", "known"} : at = IF c.op = "export" THEN "row" ELSE "known"
      OBVIOUS
    <3>2. PICK id \in Name : id = stored[n].id
      BY <1>5 DEF S!Active
    <3>3. th = [c EXCEPT !.at = at, !.id = id]
      BY <2>1, <3>1, <3>2, Zenon
    <3>5. th = Doing(at, c.op, c.name, id, c.read, c.bundle)
      BY <1>1, <3>3, EditId, Zenon
    <3>4. th \in StoreCommand /\ Planned(th) /\ th.op = c.op /\ th.at \notin {"fill", "add"}
      BY <1>0, <1>2, <2>0, <3>1, <3>5 DEF StoreCommand, StoreStage, Planned, Doing, Filling
    <3> QED
      BY <1>6, <2>1, <3>1, <3>2, <3>3, <3>4
  <2>2. S!Ends(t) \/ \E n \in S!Active : S!Goes(t, [c EXCEPT !.at = IF c.op = "export" THEN "row" ELSE "known",
                                                              !.id = stored[n].id])
    BY <1>10, Zenon DEF S!FindActive, c
  <2> QED
    BY <1>7, <2>1, <2>2, Zenon
<1>11. CASE S!FindRow(t)
  <2>0. c.at = "row" /\ c.op = "export" /\ c.id \in Name
    BY <1>1, <1>2, <1>11 DEF S!FindRow, S!At, Planned, StoreOp, Filling, c
  <2>1. ASSUME NEW n \in S!WithId(c.id), NEW th, S!Goes(t, th), th = [c EXCEPT !.at = "write", !.name = n]
        PROVE  StoreInv'
    <3>1. th = Doing("write", c.op, n, c.id, c.read, c.bundle)
      BY <1>1, <2>1, EditName, Zenon
    <3>2. n \in Name
      BY DEF S!WithId, S!Rows
    <3>3. th \in StoreCommand /\ Planned(th) /\ th.op = c.op /\ th.at \notin {"fill", "add"}
      BY <1>0, <1>2, <2>0, <3>1, <3>2 DEF StoreCommand, StoreStage, Planned, Doing, Filling
    <3> QED
      BY <1>6, <2>1, <3>1, <3>2, <3>3
  <2>2. S!Ends(t) \/ \E n \in S!WithId(c.id) : S!Goes(t, [c EXCEPT !.at = "write", !.name = n])
    BY <1>11, Zenon DEF S!FindRow, c
  <2> QED
    BY <1>7, <2>1, <2>2, Zenon
<1>12. CASE S!OpenBundle(t)
  <2>0. c.at = "open" /\ c.op \in Filling /\ c.name \in Name
    BY <1>1, <1>2, <1>12 DEF S!OpenBundle, S!At, Planned, StoreOp, Filling, c
  <2>1. CASE bundles[c.name] = None
    BY <1>7, <1>12, <2>1, Zenon DEF S!OpenBundle, c
  <2>2. CASE bundles[c.name] # None
    <3>1. PICK b \in Bundle : b = bundles[c.name]
      BY <1>0, <2>0, <2>2
    <3>5. PICK id \in Name : id = b.id
      BY DEF Bundle
    <3>2. PICK th : th = [c EXCEPT !.at = "clash", !.bundle = b, !.id = id] /\ S!Goes(t, th)
      BY <1>12, <2>2, <3>1, <3>5, Zenon DEF S!OpenBundle, c
    <3>3. th = Doing("clash", c.op, c.name, id, c.read, b)
      BY <1>1, <3>2, EditBundleId, Zenon
    <3>4. th \in StoreCommand /\ Planned(th) /\ th.op = c.op /\ th.at \notin {"fill", "add"}
      BY <1>0, <1>2, <2>0, <3>3 DEF StoreCommand, StoreStage, Planned, Doing, Filling
    <3> QED
      BY <1>6, <3>2, <3>3, <3>4
  <2> QED
    BY <2>1, <2>2
<1>13. CASE S!FindClash(t)
  <2>0. c.at = "clash" /\ c.op \in Filling /\ c.name \in Name /\ c.id \in Name /\ c.bundle \in Bundle
    BY <1>1, <1>2, <1>13 DEF S!FindClash, S!At, Planned, StoreOp, Filling, c
  <2>1. CASE c.name \notin S!Rows
    <3>1. PICK th : th = [c EXCEPT !.at = "create"] /\ S!Goes(t, th)
      BY <1>13, <2>1, Zenon DEF S!FindClash, c
    <3>2. th = Doing("create", c.op, c.name, c.id, c.read, c.bundle)
      BY <1>1, <3>1, EditAt, Zenon
    <3>3. th \in StoreCommand /\ Planned(th) /\ th.op = c.op /\ th.at \notin {"fill", "add"}
      BY <1>0, <1>2, <2>0, <3>2 DEF StoreCommand, StoreStage, Planned, Doing, Filling
    <3> QED
      BY <1>6, <3>1, <3>2, <3>3
  <2>2. CASE c.name \in S!Rows /\ c.op = "import"
    BY <1>7, <1>13, <2>2, Zenon DEF S!FindClash, c
  <2>3. CASE c.name \in S!Rows /\ c.op # "import"
    <3>1. PICK read \in SUBSET File : read = S!Of(stored[c.name].id)
      BY DEF S!Of
    <3>2. PICK th : th = [c EXCEPT !.at = "drop", !.read = read] /\ S!Goes(t, th)
      BY <1>13, <2>3, <3>1, Zenon DEF S!FindClash, c
    <3>3. th = Doing("drop", c.op, c.name, c.id, read, c.bundle)
      BY <1>1, <3>2, EditRead, Zenon
    <3>4. th \in StoreCommand /\ Planned(th) /\ th.op = c.op /\ th.at \notin {"fill", "add"}
      BY <1>0, <1>2, <2>0, <2>3, <3>3 DEF StoreCommand, StoreStage, Planned, Doing, Filling
    <3> QED
      BY <1>6, <3>1, <3>2, <3>3, <3>4
  <2> QED
    BY <2>1, <2>2, <2>3
<1>14. CASE S!FindKnown(t)
  <2>0. c.at = "known" /\ c.op = "collect" /\ c.id \in Name
    BY <1>1, <1>2, <1>14 DEF S!FindKnown, S!At, Planned, StoreOp, Filling, c
  <2>1. CASE File \ S!Of(c.id) = {}
    BY <1>7, <1>14, <2>1, Zenon DEF S!FindKnown, c
  <2>2. CASE File \ S!Of(c.id) # {}
    <3>1. PICK new \in SUBSET File : new = File \ S!Of(c.id)
      OBVIOUS
    <3>2. PICK th : th = [c EXCEPT !.at = "add", !.read = new] /\ S!Goes(t, th)
      BY <1>14, <2>2, <3>1, Zenon DEF S!FindKnown, c
    <3>3. th = Doing("add", c.op, c.name, c.id, new, c.bundle)
      BY <1>1, <3>2, EditRead, Zenon
    <3>4. th \in StoreCommand /\ Planned(th) /\ th.op = c.op /\ th.at = "add" /\ th.read = new /\ th.id = c.id
      BY <1>0, <1>2, <2>0, <3>3 DEF StoreCommand, StoreStage, Planned, Doing, Filling
    <3>5. \A f \in File \ new : artifacts[f] = c.id
      BY <3>1 DEF S!Of
    <3> QED
      BY <1>6, <3>1, <3>2, <3>3, <3>4, <3>5
  <2> QED
    BY <2>1, <2>2
<1> QED
  BY <1>8, <1>9, <1>10, <1>11, <1>12, <1>13, <1>14

\* A command begins, and whom it disturbs is on record.
LEMMA StoreBegins ==
    ASSUME StoreInv, NEW t \in Thread, NEW op \in StoreOp, NEW n \in Name \cup {None}, S!Begin(t, op, n),
           \/ op \in {"init", "add", "post", "use"} \cup Filling /\ n \in Name
           \/ op \in {"export", "collect"}
    PROVE  StoreInv'
<1>0. thread \in [Thread -> StoreCommand] /\ requests \in Nat /\ mixed \in BOOLEAN
  BY DEF StoreInv, StoreTypeOK
<1>1. /\ thread[t] = S!Idle /\ requests' = requests + 1
      /\ mixed' = (mixed \/ \E u \in Thread : S!Disturb(op, thread[u].op))
      /\ UNCHANGED <<slug, stored, artifacts, bundles, crashes>>
  BY Zenon DEF S!Begin
<1>2. PICK at \in {"name", "active", "open"} :
          /\ at = S!First(op)
          /\ op \in {"init", "add", "post", "use"} => at = "name"
          /\ op \in {"export", "collect"} => at = "active"
          /\ op \in Filling => at = "open"
  BY Zenon DEF S!First, Filling
<1>3. PICK th : th = [S!Idle EXCEPT !.at = at, !.op = op, !.name = n] /\ S!Goes(t, th)
  BY <1>2, Zenon DEF S!Begin
<1>4. th = Doing(at, op, n, S!Idle.id, S!Idle.read, S!Idle.bundle)
  BY <1>3, IdleIsPlanned, EditOpName, ZenonT(40)
<1>5. th \in StoreCommand /\ Planned(th) /\ th.op = op /\ th.at = at
  <2>1. S!Idle.id = None /\ S!Idle.read = {} /\ S!Idle.bundle = None
    BY DEF S!Idle
  <2>2. op # "-"
    BY DEF Filling
  <2> QED
    BY <1>2, <1>4, <2>1, <2>2 DEF StoreCommand, StoreStage, Planned, Doing, Filling
<1>6. \A u \in Thread : thread'[u] = IF u = t THEN th ELSE thread[u]
  BY <1>0, <1>3 DEF S!Goes
<1>7. StoreTypeOK'
  <2>1. thread' \in [Thread -> StoreCommand]
    BY <1>0, <1>3, <1>5 DEF S!Goes
  <2>2. mixed' \in BOOLEAN /\ requests' \in Nat
    BY <1>0, <1>1
  <2> QED
    BY <1>1, <2>1, <2>2 DEF StoreInv, StoreTypeOK
<1>8. CommandsArePlanned'
  <2>1. \A u \in Thread : Planned(thread[u])
    BY DEF StoreInv, CommandsArePlanned
  <2>2. ASSUME NEW u \in Thread PROVE Planned(thread'[u])
    BY <1>5, <1>6, <2>1, Zenon
  <2> QED
    BY <2>2, Zenon DEF CommandsArePlanned, Planned
<1>9. DisturbancesAreKnown'
  <2>1. \A other : S!Disturb(other, op) => S!Disturb(op, other)
    BY DEF S!Disturb
  <2>2. SUFFICES ASSUME NEW u \in Thread, NEW v \in Thread, u # v, S!Disturb(thread'[u].op, thread'[v].op)
                 PROVE  mixed'
    BY DEF DisturbancesAreKnown, S!Disturb
  <2>3. CASE u = t
    BY <1>1, <1>5, <1>6, <2>2, <2>3
  <2>4. CASE v = t
    BY <1>1, <1>5, <1>6, <2>1, <2>2, <2>4
  <2>5. CASE u # t /\ v # t
    BY <1>1, <1>6, <2>2, <2>5 DEF StoreInv, DisturbancesAreKnown
  <2> QED
    BY <2>3, <2>4, <2>5
<1>10. IdsDiffer' /\ ArtifactsHaveRows'
  BY <1>1 DEF StoreInv, IdsDiffer, ArtifactsHaveRows, S!Rows, S!WithId
<1>11. OneOrCreated'
  <2>1. \A u \in Thread : S!Created(u) => S!Created(u)' /\ thread'[u].name = thread[u].name
    BY <1>1, <1>6, IdleIsPlanned DEF S!Created, S!At
  <2>2. S!Active' = S!Active
    BY <1>1 DEF S!Active, S!Rows
  <2> QED
    BY <1>1, <2>1, <2>2 DEF StoreInv, OneOrCreated
<1>12. ~mixed' => ~mixed
  BY <1>1
<1>13. FilesAreComing' /\ NothingIsThere'
  BY <1>1, <1>2, <1>5, <1>6, <1>12 DEF StoreInv, FilesAreComing, NothingIsThere, S!At, S!Of
<1> QED
  BY <1>7, <1>8, <1>9, <1>10, <1>11, <1>13 DEF StoreInv

\* A row is new: nothing refers to its id yet.
LEMMA StoreCreates ==
    ASSUME StoreInv, NEW t \in Thread, S!CreateRow(t)
    PROVE  StoreInv'
<1> DEFINE c == thread[t]
<1>0. StoreTypeOK /\ IdsDiffer /\ ArtifactsHaveRows
  BY DEF StoreInv
<1>1. c \in StoreCommand /\ Planned(c)
  BY DEF StoreInv, StoreTypeOK, CommandsArePlanned
<1>2. c.at = "create" /\ UNCHANGED <<slug, artifacts, bundles, requests, crashes, mixed>>
  BY Zenon DEF S!CreateRow, S!At
<1>3. /\ c.op \in {"init", "add", "post"} \cup Filling /\ c.name \in Name /\ c.id \in Name
      /\ c.read \in SUBSET File /\ c.bundle \in Bundle \cup {None} /\ (c.op \in Filling => c.bundle \in Bundle)
  BY <1>1, <1>2 DEF StoreCommand, StoreOp, Planned, Filling
<1> HIDE DEF c
<1>4. CASE c.name \in S!Rows \/ S!WithId(c.id) # {}
  <2>1. S!Ends(t) /\ UNCHANGED stored
    BY <1>4, Zenon DEF S!CreateRow, c
  <2> QED
    BY <1>0, <1>2, <2>1, StoreEnds DEF StoreTypeOK, c
<1>5. CASE ~(c.name \in S!Rows \/ S!WithId(c.id) # {})
  <2>1. PICK b \in BOOLEAN : b = (c.op \in {"init", "post"})
    <3>1. (c.op \in {"init", "post"}) \in BOOLEAN
      OBVIOUS
    <3> QED
      BY <3>1, Zenon
  <2>2. stored' = [stored EXCEPT ![c.name] = [id |-> c.id, active |-> b]]
    BY <1>5, <2>1, Zenon DEF S!CreateRow, c
  <2>3. PICK th \in StoreCommand :
            /\ S!Goes(t, th) /\ Planned(th) /\ th.op \in {c.op, "-"} /\ th.at \in {"-", "activate", "fill"}
            /\ b => th.op = c.op /\ th.at = "activate" /\ th.name = c.name
            /\ th.at = "fill" => th.id = c.id
    <3>1. CASE c.op = "add"
      <4>1. S!Goes(t, S!Idle)
        BY <1>5, <3>1, Zenon DEF S!CreateRow, S!Ends, c
      <4> QED
        BY <2>1, <3>1, <4>1, IdleIsPlanned
    <3>2. CASE c.op \in {"init", "post"}
      <4>1. PICK th : th = [c EXCEPT !.at = "activate"] /\ S!Goes(t, th)
        BY <1>5, <3>2, Zenon DEF S!CreateRow, c
      <4>2. th = Doing("activate", c.op, c.name, c.id, c.read, c.bundle)
        BY <1>1, <4>1, EditAt, Zenon
      <4>3. th \in StoreCommand /\ Planned(th) /\ th.op = c.op /\ th.at = "activate" /\ th.name = c.name
        BY <1>3, <3>2, <4>2 DEF StoreCommand, StoreStage, StoreOp, Planned, Doing, Filling
      <4> QED
        BY <4>1, <4>3
    <3>3. CASE c.op \in Filling
      <4>1. PICK th : th = [c EXCEPT !.at = "fill"] /\ S!Goes(t, th)
        BY <1>5, <3>3, Zenon DEF S!CreateRow, Filling, c
      <4>2. th = Doing("fill", c.op, c.name, c.id, c.read, c.bundle)
        BY <1>1, <4>1, EditAt, Zenon
      <4>3. th \in StoreCommand /\ Planned(th) /\ th.op = c.op /\ th.at = "fill" /\ th.id = c.id
        BY <1>3, <3>3, <4>2 DEF StoreCommand, StoreStage, StoreOp, Planned, Doing, Filling
      <4> QED
        BY <2>1, <3>3, <4>1, <4>3 DEF Filling
    <3> QED
      BY <1>3, <3>1, <3>2, <3>3
  <2>4. /\ thread' \in [Thread -> StoreCommand] /\ CommandsArePlanned' /\ DisturbancesAreKnown'
        /\ \A u \in Thread : thread'[u] = IF u = t THEN th ELSE thread[u]
    BY <1>2, <2>3, StoreCommands DEF c
  <2>5. PICK row \in StoreRow : row = [id |-> c.id, active |-> b] /\ row.id = c.id /\ row.active = b /\ row # None
    <3>1. [id |-> c.id, active |-> b] \in StoreRow
      BY <1>3 DEF StoreRow
    <3>2. None \notin StoreRow
      BY DesksAssumption DEF StoreRow
    <3> QED
      BY <3>1, <3>2
  <2>6. /\ stored' \in [Name -> StoreRow \cup {None}]
        /\ stored'[c.name] = row /\ \A n \in Name \ {c.name} : stored'[n] = stored[n]
    BY <1>0, <1>3, <2>2, <2>5 DEF StoreTypeOK
  <2>7. /\ S!Rows' = S!Rows \cup {c.name} /\ c.name \notin S!Rows
        /\ \A n \in S!Rows : n \in Name /\ stored'[n] = stored[n] /\ stored[n].id # c.id
    BY <1>3, <1>5, <2>5, <2>6 DEF S!Rows, S!WithId
  <2>8. StoreTypeOK'
    BY <1>0, <1>2, <2>4, <2>6 DEF StoreTypeOK
  <2>9. IdsDiffer'
    BY <1>0, <2>5, <2>6, <2>7 DEF IdsDiffer
  <2>10. ArtifactsHaveRows'
    BY <1>0, <1>2, <2>7 DEF ArtifactsHaveRows, S!WithId
  <2>11. OneOrCreated'
    <3>1. SUFFICES ASSUME crashes = 0 PROVE OneOrCreated'
      BY <1>2 DEF OneOrCreated
    <3>2. PICK a \in Name \cup {None} : \A n \in S!Active :
              n = a \/ \E u \in Thread : S!Created(u) /\ thread[u].name = n
      BY <3>1 DEF StoreInv, OneOrCreated
    <3>3. \A u \in Thread : S!Created(u) => S!Created(u)' /\ thread'[u].name = thread[u].name
      BY <1>2, <2>4 DEF S!Created, S!At, c
    <3>4. b => S!Created(t)' /\ thread'[t].name = c.name
      BY <2>1, <2>3, <2>4 DEF S!Created, S!At
    <3>5. \A n \in S!Active' : n \in S!Active \/ (n = c.name /\ b)
      BY <2>5, <2>6, <2>7 DEF S!Active
    <3> QED
      BY <3>2, <3>3, <3>4, <3>5 DEF OneOrCreated
  <2>12. FilesAreComing'
    BY <1>2, <2>3, <2>4 DEF StoreInv, FilesAreComing, S!At
  <2>13. NothingIsThere'
    <3>1. S!Of(c.id) = {}
      BY <1>0, <1>3, <1>5, DesksAssumption DEF ArtifactsHaveRows, S!Of
    <3> QED
      BY <1>2, <2>3, <2>4, <3>1 DEF StoreInv, NothingIsThere, S!At, S!Of
  <2> QED
    BY <2>4, <2>8, <2>9, <2>10, <2>11, <2>12, <2>13 DEF StoreInv
<1> QED
  BY <1>4, <1>5

\* Rows are activated or removed by a command that ends or goes on to create one.
LEMMA StoreChangesRows ==
    ASSUME StoreInv, NEW t \in Thread, S!Activate(t) \/ S!RemoveRow(t)
    PROVE  StoreInv'
<1> DEFINE c == thread[t]
<1>0. /\ StoreTypeOK /\ IdsDiffer /\ ArtifactsHaveRows
      /\ stored \in [Name -> StoreRow \cup {None}]
  BY DEF StoreInv, StoreTypeOK
<1>1. c \in StoreCommand /\ Planned(c)
  BY DEF StoreInv, StoreTypeOK, CommandsArePlanned
<1>2. c.at \in {"activate", "remove"} /\ UNCHANGED <<slug, artifacts, bundles, requests, crashes, mixed>>
  BY Zenon DEF S!Activate, S!RemoveRow, S!At
<1>3. /\ c.op \in StoreOp /\ c.id \in Name /\ (c.at = "remove" => c.op = "force" /\ c.name \in Name)
      /\ c.name \in Name \cup {None} /\ c.read \in SUBSET File /\ c.bundle \in Bundle \cup {None}
      /\ (c.op = "force" => c.bundle \in Bundle)
  BY <1>1, <1>2 DEF StoreCommand, StoreOp, Planned, Filling
<1> HIDE DEF c
\* What is not created stays in the invariant, if rows keep their ids and those of artifacts stay.
<1>4. ASSUME NEW th \in StoreCommand, Planned(th), th.op = c.op \/ th.op = "-", th.at \in {"-", "create"},
             S!Goes(t, th), stored' \in [Name -> StoreRow \cup {None}], S!Rows' \subseteq S!Rows,
             \A n \in S!Rows' : stored'[n].id = stored[n].id,
             \A f \in File : artifacts[f] # None => S!WithId(artifacts[f]) \subseteq S!Rows',
             OneOrCreated'
      PROVE  StoreInv'
  <2>1. /\ thread' \in [Thread -> StoreCommand] /\ CommandsArePlanned' /\ DisturbancesAreKnown'
        /\ \A u \in Thread : thread'[u] = IF u = t THEN th ELSE thread[u]
    BY <1>2, <1>4, StoreCommands DEF c
  <2>2. StoreTypeOK'
    BY <1>0, <1>2, <1>4, <2>1 DEF StoreTypeOK
  <2>3. IdsDiffer'
    BY <1>0, <1>4 DEF IdsDiffer
  <2>4. ArtifactsHaveRows'
    <3>1. SUFFICES ASSUME NEW f \in File, artifacts[f] # None
                   PROVE  \E n \in S!Rows' : stored'[n].id = artifacts[f]
      BY <1>2 DEF ArtifactsHaveRows, S!WithId
    <3>2. PICK n \in S!WithId(artifacts[f]) : TRUE
      BY <1>0, <3>1 DEF ArtifactsHaveRows
    <3>3. n \in S!Rows' /\ stored[n].id = artifacts[f]
      BY <1>4, <3>1 DEF S!WithId
    <3> QED
      BY <1>4, <3>3
  <2>5. FilesAreComing' /\ NothingIsThere'
    BY <1>2, <1>4, <2>1 DEF StoreInv, FilesAreComing, NothingIsThere, S!At, S!Of
  <2> QED
    BY <1>4, <2>1, <2>2, <2>3, <2>4, <2>5 DEF StoreInv
<1>5. CASE S!Activate(t)
  <2>1. stored' = S!SetActive(c.id) /\ S!Goes(t, S!Idle)
    BY <1>5, Zenon DEF S!Activate, S!Ends, c
  <2>2. ASSUME NEW n \in S!Rows
        PROVE  /\ stored'[n] \in StoreRow /\ stored'[n] # None /\ stored'[n].id = stored[n].id
               /\ stored'[n].active = (n \in S!WithId(c.id)) /\ n \in Name
    <3>1. n \in Name /\ stored[n] \in StoreRow
      BY <1>0 DEF S!Rows
    <3>2. PICK b \in BOOLEAN : b = (n \in S!WithId(c.id))
      <4>1. (n \in S!WithId(c.id)) \in BOOLEAN
        BY DEF S!WithId
      <4> QED
        BY <4>1, Zenon
    <3>3. stored'[n] = [stored[n] EXCEPT !.active = b]
      BY <2>1, <3>1, <3>2, Zenon DEF S!SetActive
    <3>4. stored[n] = [id |-> stored[n].id, active |-> stored[n].active] /\ stored[n].id \in Name
      BY <3>1 DEF StoreRow
    <3>5. stored'[n] = [id |-> stored[n].id, active |-> b]
      BY <3>3, <3>4
    <3>6. stored'[n] \in StoreRow /\ stored'[n].id = stored[n].id /\ stored'[n].active = b
      BY <3>4, <3>5 DEF StoreRow
    <3>7. None \notin StoreRow
      BY DesksAssumption DEF StoreRow
    <3> QED
      BY <3>1, <3>2, <3>6, <3>7, Zenon
  <2>3. DOMAIN stored' = Name /\ \A n \in Name \ S!Rows : stored'[n] = None
    BY <2>1, Zenon DEF S!SetActive
  <2>4. S!Rows' = S!Rows
    BY <2>2, <2>3 DEF S!Rows
  <2>5. stored' \in [Name -> StoreRow \cup {None}]
    <3>1. stored' = [n \in Name |-> stored'[n]]
      BY <2>1, Zenon DEF S!SetActive
    <3>2. \A n \in Name : stored'[n] \in StoreRow \cup {None}
      BY <2>2, <2>3
    <3> QED
      BY <3>1, <3>2
  <2>6. OneOrCreated'
    <3>1. \A n \in S!Active' : n \in S!WithId(c.id)
      BY <2>2, <2>4 DEF S!Active
    <3>2. \A n, m \in S!WithId(c.id) : n = m
      BY <1>0 DEF IdsDiffer, S!WithId
    <3>3. \A n \in S!WithId(c.id) : n \in Name
      BY DEF S!WithId, S!Rows
    <3>4. \E a \in Name \cup {None} : \A n \in S!Active' : n = a
      BY <3>1, <3>2, <3>3
    <3> QED
      BY <3>4 DEF OneOrCreated
  <2> QED
    BY <1>4, <2>1, <2>2, <2>4, <2>5, <2>6, IdleIsPlanned DEF S!WithId
<1>6. CASE S!RemoveRow(t)
  <2>0. c.at = "remove"
    BY <1>6, Zenon DEF S!RemoveRow, S!At, c
  <2>1. CASE S!WithId(c.id) # {} /\ S!Of(c.id) # {}
    <3>1. S!Ends(t) /\ UNCHANGED stored
      BY <1>6, <2>1, Zenon DEF S!RemoveRow, c
    <3> QED
      BY <1>0, <1>2, <2>0, <3>1, StoreEnds DEF StoreTypeOK, c
  <2>2. CASE ~(S!WithId(c.id) # {} /\ S!Of(c.id) # {})
    <3>1. /\ stored' = [n \in Name |-> IF n \in S!WithId(c.id) THEN None ELSE stored[n]]
          /\ S!Goes(t, [c EXCEPT !.at = "create"])
      BY <1>6, <2>2, Zenon DEF S!RemoveRow, c
    <3>2. PICK th : th = [c EXCEPT !.at = "create"] /\ S!Goes(t, th)
      BY <3>1
    <3>3. th = Doing("create", c.op, c.name, c.id, c.read, c.bundle)
      BY <1>1, <3>2, EditAt, Zenon
    <3>4. th \in StoreCommand /\ Planned(th) /\ th.op = c.op /\ th.at = "create"
      BY <1>3, <2>0, <3>3 DEF StoreCommand, StoreStage, StoreOp, Planned, Doing, Filling
    <3>5. /\ stored' \in [Name -> StoreRow \cup {None}] /\ S!Rows' \subseteq S!Rows
          /\ \A n \in S!Rows' : stored'[n] = stored[n]
          /\ \A n \in S!Rows : n \notin S!WithId(c.id) => n \in S!Rows'
      BY <1>0, <3>1 DEF S!Rows
    <3>6. ASSUME NEW f \in File, artifacts[f] # None
          PROVE  S!WithId(artifacts[f]) \subseteq S!Rows'
      BY <2>2, <3>5, <3>6 DEF S!WithId, S!Of
    <3>7. OneOrCreated'
      <4>1. \A u \in Thread : thread'[u] = IF u = t THEN th ELSE thread[u]
        BY <1>0, <3>2 DEF StoreTypeOK, S!Goes
      <4>2. \A u \in Thread : S!Created(u) => S!Created(u)' /\ thread'[u].name = thread[u].name
        BY <2>0, <4>1 DEF S!Created, S!At, c
      <4>3. S!Active' \subseteq S!Active
        BY <3>5 DEF S!Active
      <4> QED
        BY <1>2, <4>2, <4>3 DEF StoreInv, OneOrCreated
    <3> QED
      BY <1>4, <3>2, <3>4, <3>5, <3>6, <3>7
  <2> QED
    BY <2>1, <2>2
<1> QED
  BY <1>5, <1>6

\* Artifacts are dropped and come; a file comes to nothing that another command is after, but on record.
LEMMA StoreChangesArtifacts ==
    ASSUME StoreInv, NEW t \in Thread, S!DropArtifact(t) \/ S!FillRow(t) \/ S!AddArtifact(t)
    PROVE  StoreInv' /\ S!Arrives
<1> DEFINE c == thread[t]
<1>0. /\ StoreTypeOK /\ ArtifactsHaveRows /\ CommandsArePlanned /\ FilesAreComing /\ NothingIsThere
      /\ artifacts \in [File -> Name \cup {None}] /\ None \notin Name
  BY DesksAssumption DEF StoreInv, StoreTypeOK
<1>1. c \in StoreCommand /\ Planned(c)
  BY DEF StoreInv, StoreTypeOK, CommandsArePlanned
<1>2. c.at \in {"drop", "fill", "add"} /\ UNCHANGED <<slug, stored, bundles, requests, crashes, mixed>>
  BY Zenon DEF S!DropArtifact, S!FillRow, S!AddArtifact, S!At
<1>3. /\ c.id \in Name /\ c.name \in Name \cup {None} /\ c.read \in SUBSET File /\ c.bundle \in Bundle \cup {None}
      /\ c.at = "drop" => c.op = "force" /\ c.name \in Name /\ c.bundle \in Bundle
      /\ c.at = "fill" => c.op \in Filling /\ c.bundle \in Bundle
      /\ c.at = "add" => c.op = "collect"
  BY <1>1, <1>2 DEF StoreCommand, StoreOp, Planned, Filling
<1>4. ASSUME NEW u \in Thread, u # t, ~mixed
      PROVE  thread[u].at # "fill" /\ (thread[u].at = "add" => c.op = "collect")
  <2>1. ~S!Disturb(thread[t].op, thread[u].op)
    BY <1>4 DEF StoreInv, DisturbancesAreKnown
  <2>2. /\ thread[u].at = "fill" => thread[u].op \in Filling
        /\ thread[u].at = "add" => thread[u].op = "collect"
    <3>1. Planned(thread[u]) /\ thread[u].op \in StoreOp
      BY <1>0 DEF CommandsArePlanned, StoreTypeOK, StoreCommand
    <3> QED
      BY <3>1 DEF Planned, StoreOp, Filling
  <2>3. c.op \in Filling \cup {"collect"}
    BY <1>2, <1>3 DEF Filling
  <2> QED
    BY <2>1, <2>2, <2>3 DEF S!Disturb, Filling
<1>5. \A u \in Thread : thread[u] = S!Idle => thread[u].op = "-" /\ thread[u].at = "-"
  BY IdleIsPlanned
<1> HIDE DEF c
\* It is left to show what becomes of the command's own part.
<1>6. ASSUME NEW th \in StoreCommand, Planned(th), th.op = c.op \/ th.op = "-", th.at # "fill", S!Goes(t, th),
             artifacts' \in [File -> Name \cup {None}],
             \A f \in File : artifacts'[f] \in {None, artifacts[f]} \/ S!WithId(artifacts'[f]) # {},
             c.op = "collect" => \A f \in File : artifacts[f] # None => artifacts'[f] = artifacts[f],
             th.at = "add" => mixed \/ \A f \in File \ th.read : artifacts'[f] = th.id,
             th = S!Idle /\ artifacts' # artifacts =>
                 /\ c.op = "collect" /\ ~mixed => \A f \in File : artifacts'[f] = c.id
                 /\ c.at = "fill" => /\ c.bundle.artifacts \subseteq {f \in File : artifacts'[f] = c.id}
                                     /\ ~mixed => {f \in File : artifacts'[f] = c.id} \subseteq c.bundle.artifacts
      PROVE  StoreInv' /\ S!Arrives
  <2>1. /\ thread' \in [Thread -> StoreCommand] /\ CommandsArePlanned' /\ DisturbancesAreKnown'
        /\ \A u \in Thread : thread'[u] = IF u = t THEN th ELSE thread[u]
    BY <1>2, <1>6, StoreCommands DEF c
  <2>2. StoreTypeOK'
    BY <1>0, <1>2, <1>6, <2>1 DEF StoreTypeOK
  <2>3. IdsDiffer'
    BY <1>2 DEF StoreInv, IdsDiffer, S!Rows
  <2>4. ArtifactsHaveRows'
    BY <1>0, <1>2, <1>6 DEF ArtifactsHaveRows, S!WithId, S!Rows
  <2>5. OneOrCreated'
    <3>1. \A u \in Thread : S!Created(u) => S!Created(u)' /\ thread'[u].name = thread[u].name
      BY <1>2, <2>1 DEF S!Created, S!At, c
    <3>2. S!Active' = S!Active
      BY <1>2 DEF S!Active, S!Rows
    <3> QED
      BY <1>2, <3>1, <3>2 DEF StoreInv, OneOrCreated
  <2>6. FilesAreComing'
    <3>1. SUFFICES ASSUME NEW u \in Thread, thread'[u].at = "add", ~mixed, NEW f \in File \ thread'[u].read
                   PROVE  artifacts'[f] = thread'[u].id
      BY <1>2 DEF FilesAreComing, S!At
    <3>2. CASE u = t
      BY <1>6, <2>1, <3>1, <3>2
    <3>3. CASE u # t
      <4>1. artifacts[f] = thread[u].id /\ c.op = "collect" /\ thread'[u] = thread[u]
        BY <1>0, <1>4, <2>1, <3>1, <3>3 DEF FilesAreComing, S!At
      <4>2. thread[u].id \in Name
        BY <1>0, <2>1, <3>1, <3>3 DEF CommandsArePlanned, Planned
      <4> QED
        BY <1>0, <1>6, <4>1, <4>2
    <3> QED
      BY <3>2, <3>3
  <2>7. NothingIsThere'
    BY <1>2, <1>4, <1>6, <2>1 DEF NothingIsThere, S!At
  <2>8. S!Arrives
    <3>1. ASSUME NEW u \in Thread, thread'[u] = S!Idle, artifacts' # artifacts
          PROVE  /\ thread[u].op = "collect" /\ ~mixed => \A f \in File : artifacts'[f] = thread[u].id
                 /\ S!At(u, "fill") =>
                       /\ thread[u].bundle.artifacts \subseteq {f \in File : artifacts'[f] = thread[u].id}
                       /\ ~mixed => {f \in File : artifacts'[f] = thread[u].id} \subseteq thread[u].bundle.artifacts
      <4>1. CASE u = t
        BY <1>6, <2>1, <3>1, <4>1 DEF S!At, c
      <4>2. CASE u # t
        BY <1>5, <2>1, <3>1, <4>2 DEF S!At
      <4> QED
        BY <4>1, <4>2
    <3> QED
      BY <3>1, Zenon DEF S!Arrives
  <2> QED
    BY <2>1, <2>2, <2>3, <2>4, <2>5, <2>6, <2>7, <2>8 DEF StoreInv
<1>7. CASE S!DropArtifact(t)
  <2>0. c.at = "drop"
    BY <1>7, Zenon DEF S!DropArtifact, S!At, c
  <2>1. CASE c.read = {}
    <3>1. UNCHANGED artifacts /\ S!Goes(t, [c EXCEPT !.at = "remove"])
      BY <1>7, <2>1, Zenon DEF S!DropArtifact, c
    <3>2. PICK th : th = [c EXCEPT !.at = "remove"] /\ S!Goes(t, th)
      BY <3>1
    <3>3. th = Doing("remove", c.op, c.name, c.id, c.read, c.bundle)
      BY <1>1, <3>2, EditAt, Zenon
    <3>4. th \in StoreCommand /\ Planned(th) /\ th.op = c.op /\ th.at = "remove"
      BY <1>3, <2>0, <3>3 DEF StoreCommand, StoreStage, StoreOp, Planned, Doing, Filling
    <3> QED
      BY <1>0, <1>3, <1>6, <2>0, <3>1, <3>2, <3>4
  <2>2. ASSUME NEW f \in c.read, NEW th, artifacts' = [artifacts EXCEPT ![f] = None],
               th = [c EXCEPT !.read = c.read \ {f}], S!Goes(t, th)
        PROVE  StoreInv' /\ S!Arrives
    <3>1. PICK read \in SUBSET File : read = c.read \ {f}
      BY <1>3
    <3>2. th = Doing(c.at, c.op, c.name, c.id, read, c.bundle)
      BY <1>1, <2>2, <3>1, EditOnlyRead, Zenon
    <3>3. th \in StoreCommand /\ Planned(th) /\ th.op = c.op /\ th.at = "drop"
      BY <1>3, <2>0, <3>2 DEF StoreCommand, StoreStage, StoreOp, Planned, Doing, Filling
    <3>4. /\ artifacts' \in [File -> Name \cup {None}]
          /\ \A g \in File : artifacts'[g] \in {None, artifacts[g]}
      BY <1>0, <1>3, <2>2
    <3>5. th # S!Idle
      BY <3>3, IdleIsPlanned
    <3> QED
      BY <1>3, <1>6, <2>0, <2>2, <3>3, <3>4, <3>5
  <2>3. CASE c.read # {}
    <3>1. \E f \in c.read : /\ artifacts' = [artifacts EXCEPT ![f] = None]
                            /\ S!Goes(t, [c EXCEPT !.read = c.read \ {f}])
      BY <1>7, <2>3, Zenon DEF S!DropArtifact, c
    <3> QED
      BY <2>2, <3>1, Zenon
  <2> QED
    BY <2>1, <2>3
<1>8. CASE S!FillRow(t)
  <2>0. /\ c.at = "fill" /\ S!Goes(t, S!Idle)
        /\ artifacts' = IF S!WithId(c.id) # {} /\ \A f \in c.bundle.artifacts : artifacts[f] = None
                        THEN [f \in File |-> IF f \in c.bundle.artifacts THEN c.id ELSE artifacts[f]]
                        ELSE artifacts
    BY <1>8, Zenon DEF S!FillRow, S!At, S!Ends, c
  <2>1. c.bundle.artifacts \subseteq File
    BY <1>3, <2>0 DEF Bundle
  <2>2. CASE artifacts' = artifacts
    BY <1>0, <1>3, <1>6, <2>0, <2>2, IdleIsPlanned DEF Filling
  <2>3. CASE artifacts' # artifacts
    <3>1. /\ S!WithId(c.id) # {}
          /\ artifacts' = [f \in File |-> IF f \in c.bundle.artifacts THEN c.id ELSE artifacts[f]]
      BY <2>0, <2>3
    <3>2. /\ artifacts' \in [File -> Name \cup {None}]
          /\ \A f \in File : artifacts'[f] = IF f \in c.bundle.artifacts THEN c.id ELSE artifacts[f]
      BY <1>0, <1>3, <3>1
    <3>3. ~mixed => \A f \in File : artifacts[f] # c.id
      BY <1>0, <2>0 DEF NothingIsThere, S!At, S!Of, c
    <3>4. c.op # "collect"
      BY <1>3, <2>0 DEF Filling
    <3>5. /\ c.bundle.artifacts \subseteq {f \in File : artifacts'[f] = c.id}
          /\ ~mixed => {f \in File : artifacts'[f] = c.id} \subseteq c.bundle.artifacts
      BY <2>1, <3>2, <3>3
    <3> QED
      BY <1>6, <2>0, <3>1, <3>2, <3>4, <3>5, IdleIsPlanned
  <2> QED
    BY <2>2, <2>3
<1>9. CASE S!AddArtifact(t)
  <2>0. PICK f \in c.read :
            /\ c.at = "add"
            /\ IF artifacts[f] # None \/ S!WithId(c.id) = {} THEN S!Goes(t, S!Idle) /\ UNCHANGED artifacts
               ELSE /\ artifacts' = [artifacts EXCEPT ![f] = c.id]
                    /\ IF c.read = {f} THEN S!Goes(t, S!Idle) ELSE S!Goes(t, [c EXCEPT !.read = c.read \ {f}])
    BY <1>9, Zenon DEF S!AddArtifact, S!At, S!Ends, c
  <2>1. ~mixed => \A g \in File \ c.read : artifacts[g] = c.id
    BY <1>0, <2>0 DEF FilesAreComing, S!At, c
  <2>2. CASE artifacts[f] # None \/ S!WithId(c.id) = {}
    BY <1>0, <1>6, <2>0, <2>2, IdleIsPlanned
  <2>3. CASE ~(artifacts[f] # None \/ S!WithId(c.id) = {})
    <3>1. /\ artifacts' = [artifacts EXCEPT ![f] = c.id] /\ f \in File
          /\ artifacts' \in [File -> Name \cup {None}]
          /\ \A g \in File : artifacts'[g] = IF g = f THEN c.id ELSE artifacts[g]
      BY <1>0, <1>3, <2>0, <2>3
    <3>2. CASE c.read = {f}
      <4>1. S!Goes(t, S!Idle)
        BY <2>0, <2>3, <3>2
      <4>2. ~mixed => \A g \in File : artifacts'[g] = c.id
        BY <2>1, <3>1, <3>2
      <4> QED
        BY <1>6, <2>0, <2>3, <3>1, <4>1, <4>2, IdleIsPlanned
    <3>3. CASE c.read # {f}
      <4>1. S!Goes(t, [c EXCEPT !.read = c.read \ {f}])
        BY <2>0, <2>3, <3>3
      <4>2. PICK read \in SUBSET File : read = c.read \ {f}
        BY <1>3
      <4>3. PICK th : th = [c EXCEPT !.read = read] /\ S!Goes(t, th)
        BY <4>1, <4>2
      <4>4. th = Doing(c.at, c.op, c.name, c.id, read, c.bundle)
        BY <1>1, <4>3, EditOnlyRead, Zenon
      <4>5. th \in StoreCommand /\ Planned(th) /\ th.op = c.op /\ th.at = "add" /\ th.read = read /\ th.id = c.id
        BY <1>3, <2>0, <4>4 DEF StoreCommand, StoreStage, StoreOp, Planned, Doing, Filling
      <4>6. ~mixed => \A g \in File \ read : artifacts'[g] = c.id
        BY <2>1, <3>1, <4>2
      <4>7. th # S!Idle
        BY <4>5, IdleIsPlanned
      <4> QED
        BY <1>6, <2>3, <3>1, <4>3, <4>5, <4>6, <4>7
    <3> QED
      BY <3>2, <3>3
  <2> QED
    BY <2>2, <2>3
<1> QED
  BY <1>7, <1>8, <1>9

LEMMA StoreExports ==
    ASSUME StoreInv, NEW t \in Thread, S!Export(t)
    PROVE  StoreInv'
<1> DEFINE c == thread[t]
<1>1. /\ c.at = "write" /\ S!Ends(t) /\ UNCHANGED <<slug, stored, artifacts, requests, crashes, mixed>>
      /\ bundles' = [bundles EXCEPT ![c.name] = [id |-> c.id, artifacts |-> S!Of(c.id) \cap Exported]]
  BY Zenon DEF S!Export, S!At
<1>2. c \in StoreCommand /\ Planned(c) /\ bundles \in [Name -> Bundle \cup {None}]
  BY DEF StoreInv, StoreTypeOK, CommandsArePlanned
<1>3. c.name \in Name /\ c.id \in Name
  BY <1>1, <1>2 DEF Planned
<1>4. [id |-> c.id, artifacts |-> S!Of(c.id) \cap Exported] \in Bundle
  BY <1>3 DEF Bundle, S!Of
<1>5. bundles' \in [Name -> Bundle \cup {None}]
  BY <1>1, <1>2, <1>3, <1>4
<1> QED
  BY <1>1, <1>5, StoreEnds

LEMMA OneActive == StoreInv => S!OneIsActive
BY DEF StoreInv, OneOrCreated, S!OneIsActive

LEMMA StoreStep == StoreInv /\ S!Next => StoreInv' /\ S!Arrives
<1> SUFFICES ASSUME StoreInv, S!Next PROVE StoreInv' /\ S!Arrives
  OBVIOUS
<1>1. UNCHANGED artifacts => S!Arrives
  BY Zenon DEF S!Arrives
<1>2. CASE S!Crash
  <2>1. PICK t \in Thread : S!Ends(t) /\ crashes' = crashes + 1
                           /\ UNCHANGED <<slug, stored, artifacts, bundles, requests, mixed>>
    BY <1>2, Zenon DEF S!Crash
  <2>2. bundles' \in [Name -> Bundle \cup {None}]
    BY <2>1 DEF StoreInv, StoreTypeOK
  <2> QED
    BY <1>1, <2>1, <2>2, StoreEnds
<1>3. ASSUME NEW t \in Thread, S!Command(t) PROVE StoreInv' /\ S!Arrives
  <2>1. CASE \E op \in {"init", "add", "post", "use", "import", "force"}, n \in Name : S!Begin(t, op, n)
    <3>1. PICK op \in {"init", "add", "post", "use", "import", "force"}, n \in Name : S!Begin(t, op, n)
      BY <2>1
    <3>2. op \in StoreOp /\ n \in Name \cup {None} /\ op \in {"init", "add", "post", "use"} \cup Filling
      BY DEF StoreOp, Filling
    <3>3. UNCHANGED artifacts
      BY <3>1, Zenon DEF S!Begin
    <3> QED
      BY <1>1, <3>1, <3>2, <3>3, StoreBegins
  <2>2. CASE \E op \in {"export", "collect"} : S!Begin(t, op, None)
    <3>1. PICK op \in {"export", "collect"} : S!Begin(t, op, None)
      BY <2>2
    <3>2. op \in StoreOp
      BY DEF StoreOp
    <3>3. UNCHANGED artifacts
      BY <3>1, Zenon DEF S!Begin
    <3> QED
      BY <1>1, <3>1, <3>2, <3>3, StoreBegins
  <2> QED
    BY <1>3, <2>1, <2>2 DEF S!Command
<1>4. ASSUME NEW t \in Thread,
             \/ S!FindName(t) \/ S!FindAgain(t) \/ S!FindActive(t) \/ S!FindRow(t)
             \/ S!OpenBundle(t) \/ S!FindClash(t) \/ S!FindKnown(t)
      PROVE  StoreInv' /\ S!Arrives
  <2>1. UNCHANGED artifacts
    BY <1>4 DEF S!FindName, S!FindAgain, S!FindActive, S!FindRow, S!OpenBundle, S!FindClash, S!FindKnown, S!Reads
  <2> QED
    BY <1>1, <1>4, <2>1, StoreReads
<1>5. ASSUME NEW t \in Thread, S!CreateRow(t) \/ S!Activate(t) \/ S!RemoveRow(t) \/ S!Export(t)
      PROVE  StoreInv' /\ S!Arrives
  <2>1. UNCHANGED artifacts
    BY <1>5, Zenon DEF S!CreateRow, S!Activate, S!RemoveRow, S!Export
  <2> QED
    BY <1>1, <1>5, <2>1, StoreCreates, StoreChangesRows, StoreExports
<1> QED
  BY <1>2, <1>3, <1>4, <1>5, StoreChangesArtifacts DEF S!Next

LEMMA StoreRest == StoreInv /\ UNCHANGED S!vars => StoreInv'
<1> SUFFICES ASSUME StoreInv, UNCHANGED S!vars PROVE StoreInv'
  OBVIOUS
<1>1. UNCHANGED <<slug, stored, artifacts, bundles, thread, requests, crashes, mixed>>
  BY DEF S!vars
<1>2. StoreTypeOK' /\ IdsDiffer' /\ ArtifactsHaveRows'
  BY <1>1 DEF StoreInv, StoreTypeOK, IdsDiffer, ArtifactsHaveRows, S!Rows, S!WithId
<1>3. CommandsArePlanned' /\ DisturbancesAreKnown'
  BY <1>1 DEF StoreInv, CommandsArePlanned, DisturbancesAreKnown, Planned
<1>4. OneOrCreated'
  BY <1>1 DEF StoreInv, OneOrCreated, S!Active, S!Rows, S!Created, S!At
<1>5. FilesAreComing' /\ NothingIsThere'
  BY <1>1 DEF StoreInv, FilesAreComing, NothingIsThere, S!At, S!Of
<1> QED
  BY <1>2, <1>3, <1>4, <1>5 DEF StoreInv

LEMMA StoreAmongDesks ==
    /\ Init => (desk = "store" => StoreInv)
    /\ (desk = "store" => StoreInv) /\ [Next]_vars => (desk = "store" => StoreInv)'
    /\ (desk = "store" => StoreInv) /\ [Next]_vars => [desk = "store" => S!Arrives]_vars
<1>1. Init /\ desk = "store" => S!Init
  BY DEF Init, InitReviews, InitSources, InitConnectors, InitWorkflows, InitRegistries,
         InitGraph, InitClaims, InitRooms, InitStore, InitRules
<1>2. [Next]_vars => desk' = desk /\ (desk = "store" => S!Next \/ UNCHANGED S!vars)
  BY DEF Next, NextReviews, NextSources, NextConnectors, NextWorkflows, NextRegistries, NextGraph,
         NextClaims, NextRooms, NextStore, vars, shared, ofStore, ofWorkflows, S!vars
<1>3. UNCHANGED S!vars => S!Arrives
  BY DEF S!vars, S!Arrives
<1> QED
  BY <1>1, <1>2, <1>3, StoreStart, StoreStep, StoreRest

\* One workspace is active at most, whichever way commands that create, use and import workspaces
\* interleave, but between the two commits of a creation; what import-artifacts and import-workspace
\* bring is all of it, if no import was disturbed (set_active, import_artifacts, add_many).
THEOREM WorkspacesKeepOrder == Spec => WorkspacesStand
<1>1. (desk = "store" => StoreInv)' => (desk = "store" => S!OneIsActive)'
  BY OneActive, PTL
<1>2. Init => (desk = "store" => StoreInv)
  BY StoreAmongDesks
<1>3. (desk = "store" => StoreInv) /\ [Next]_vars => (desk = "store" => StoreInv)' /\ [desk = "store" => S!Arrives]_vars
  BY StoreAmongDesks
<1>4. [Next]_vars => desk' = desk
  BY DEF Next, NextReviews, NextSources, NextConnectors, NextWorkflows, NextRegistries, NextGraph,
         NextClaims, NextRooms, NextStore, vars, shared
<1>5. /\ (desk = "store" => S!OneIsActive)' /\ desk' = desk /\ [desk = "store" => S!Arrives]_vars
      => [desk = "store" => S!StoreKeepsOrder]_vars
  BY Zenon DEF S!StoreKeepsOrder
<1> QED
  BY <1>1, <1>2, <1>3, <1>4, <1>5, PTL DEF Spec, WorkspacesStand

-----------------------------------------------------------------------------
(* The knowledge graph                                                      *)

Extracting(op, found, todo, step, copy) ==
    [op |-> op, found |-> found, todo |-> todo, step |-> step, copy |-> copy]
ExtractionOp == {"graph", "risks", "metrics"}

IsTable(f) == f = [kind \in K!Kinds |-> f[kind]]
IsExtracting(th) == th = Extracting(th.op, th.found, th.todo, th.step, th.copy)
Picked(todo) == CHOOSE f \in K!First(todo) : TRUE

\* A thread stores what it has found, and that is whole.
WholeFind(th) ==
    /\ IsExtracting(th) /\ IsTable(th.copy)
    /\ th # K!Idle =>
        /\ th.op \in ExtractionOp
        /\ th.todo \subseteq K!Facts(th.op, th.found)
        /\ K!EndsAreKept(th.found)

\* A thread has stored what it no longer has to do, and the fact it counts; what it has
\* loaded is what the file says.
InStep(th, stores) ==
    th # K!Idle =>
        /\ \A f \in K!Facts(th.op, th.found) \ th.todo : f[2] \in DOMAIN stores[f[1]]
        /\ LET f == Picked(th.todo) IN
           /\ th.step = "write" => th.copy[f[1]] = stores[f[1]]
           /\ th.step = "count" => f[2] \in DOMAIN stores[f[1]]

GraphTypeOK == IsTable(file) /\ thread = [t \in Thread |-> thread[t]]
ThreadsAreSound == \A t \in Thread : WholeFind(thread[t])
Alone == \A t, u \in Thread : thread[t] # K!Idle /\ thread[u] # K!Idle => t = u
InStepWith(stores) == \A t \in Thread : InStep(thread[t], stores)
CompletedAreStored(log, stores) ==
    \A r \in log : r.status = "completed" =>
        \A kind \in K!Kinds : DOMAIN r.found[kind] \subseteq DOMAIN stores[kind]

GraphInv ==
    /\ GraphTypeOK /\ ThreadsAreSound
    /\ "overlap" \notin mixed =>
        /\ Alone /\ InStepWith(file)
        /\ K!EndsAreKept(file) /\ CompletedAreStored(runs, file)

LEMMA IdleIsSound == WholeFind(K!Idle) /\ \A stores : InStep(K!Idle, stores)
<1>1. IsTable(K!Empty)
  BY DEF IsTable, K!Empty
<1> QED
  BY <1>1 DEF WholeFind, InStep, IsExtracting, Extracting, K!Idle, K!Storing

LEMMA GraphStart == K!Init => GraphInv
<1> SUFFICES ASSUME K!Init PROVE GraphInv
  OBVIOUS
<1>1. file = K!Empty /\ runs = {} /\ thread = [t \in Thread |-> K!Idle] /\ mixed = {}
  BY DEF K!Init
<1>2. GraphTypeOK
  BY <1>1 DEF GraphTypeOK, IsTable, K!Empty
<1>3. ThreadsAreSound /\ InStepWith(file) /\ Alone
  BY <1>1, IdleIsSound DEF ThreadsAreSound, InStepWith, Alone
<1>4. K!EndsAreKept(file)
  BY <1>1 DEF K!EndsAreKept, K!Empty, K!Kinds
<1>5. CompletedAreStored(runs, file)
  BY <1>1 DEF CompletedAreStored
<1> QED
  BY <1>2, <1>3, <1>4, <1>5 DEF GraphInv

\* Facts are of the kinds of the graph, and what remains has a first.
LEMMA FactsHaveKinds ==
    ASSUME NEW op \in ExtractionOp, NEW found, NEW f
    PROVE  f \in K!Facts(op, found) <=>
               \E kind \in K!Stores(op) : \E id \in DOMAIN found[kind] : f = <<kind, id>>
BY DEF K!Facts

LEMMA StoresAreKinds ==
    ASSUME NEW op \in ExtractionOp
    PROVE  K!Stores(op) \subseteq K!Kinds /\ (op # "graph" => "edges" \notin K!Stores(op) /\ "nodes" \notin K!Stores(op))
           /\ (op = "graph" => K!Stores(op) = K!Kinds)
BY DEF ExtractionOp, K!Stores, K!Kinds

LEMMA Ranks ==
    /\ K!Rank["nodes"] = 1 /\ K!Rank["edges"] = 2 /\ K!Rank["risks"] = 3 /\ K!Rank["metrics"] = 4
BY DEF K!Rank

LEMMA SomeFactIsFirst ==
    ASSUME NEW op \in ExtractionOp, NEW found, NEW todo \in SUBSET K!Facts(op, found), todo # {}
    PROVE  /\ Picked(todo) \in todo
           /\ \A g \in todo : K!Rank[Picked(todo)[1]] <= K!Rank[g[1]]
<1>1. \A f \in todo : K!Rank[f[1]] \in 1..4
  <2> TAKE f \in todo
  <2>1. PICK kind \in K!Stores(op) : \E id \in DOMAIN found[kind] : f = <<kind, id>>
    BY FactsHaveKinds
  <2>2. f[1] = kind /\ kind \in K!Kinds
    BY <2>1, StoresAreKinds
  <2> QED
    BY <2>2, Ranks DEF K!Kinds
<1>2. K!First(todo) # {}
  <2>1. \E f \in todo : \A g \in todo : K!Rank[f[1]] <= K!Rank[g[1]]
    <3>1. CASE \E f \in todo : K!Rank[f[1]] = 1
      BY <1>1, <3>1
    <3>2. CASE (\A g \in todo : K!Rank[g[1]] # 1) /\ \E f \in todo : K!Rank[f[1]] = 2
      BY <1>1, <3>2
    <3>3. CASE (\A g \in todo : K!Rank[g[1]] \notin 1..2) /\ \E f \in todo : K!Rank[f[1]] = 3
      BY <1>1, <3>3
    <3>4. CASE \A g \in todo : K!Rank[g[1]] = 4
      BY <3>4
    <3> QED
      BY <1>1, <3>1, <3>2, <3>3, <3>4
  <2> QED
    BY <2>1 DEF K!First
<1>3. Picked(todo) \in K!First(todo)
  BY <1>2, Zenon DEF Picked
<1> QED
  BY <1>3 DEF K!First

\* What a thread does is in step if what it comes to is.
LEMMA GraphMoves ==
    ASSUME GraphInv, NEW t \in Thread, thread[t] # K!Idle,
           NEW th, thread' = [thread EXCEPT ![t] = th], WholeFind(th),
           IsTable(file'), mixed \subseteq mixed',
           "overlap" \notin mixed =>
               InStep(th, file') /\ K!EndsAreKept(file)' /\ CompletedAreStored(runs, file)'
    PROVE  GraphInv'
<1>1. \A u \in Thread : thread'[u] = IF u = t THEN th ELSE thread[u]
  BY DEF GraphInv, GraphTypeOK
<1>2. GraphTypeOK' /\ ThreadsAreSound'
  <2>1. thread' = [u \in Thread |-> thread'[u]]
    BY DEF GraphInv, GraphTypeOK
  <2>2. \A u \in Thread : WholeFind(thread'[u])
    BY <1>1 DEF GraphInv, ThreadsAreSound
  <2> QED
    BY <2>1, <2>2 DEF GraphTypeOK, ThreadsAreSound, IsTable
<1>3. ASSUME "overlap" \notin mixed'
      PROVE  Alone' /\ InStepWith(file)' /\ K!EndsAreKept(file)' /\ CompletedAreStored(runs, file)'
  <2>1. "overlap" \notin mixed /\ \A u \in Thread : u # t => thread[u] = K!Idle
    BY <1>3 DEF GraphInv, Alone
  <2>2. \A u \in Thread : u # t => thread'[u] = K!Idle
    BY <1>1, <2>1
  <2>3. Alone'
    BY <2>2 DEF Alone
  <2>4. \A u \in Thread : InStep(thread'[u], file')
    BY <1>1, <2>1, <2>2, IdleIsSound
  <2>5. InStepWith(file)'
    BY <2>4 DEF InStepWith
  <2> QED
    BY <2>1, <2>3, <2>5
<1> QED
  BY <1>2, <1>3 DEF GraphInv

\* The commands of a thread that is edited.
LEMMA OneExtractionEdit ==
    ASSUME NEW c, IsExtracting(c), NEW v
    PROVE  /\ [c EXCEPT !.todo = v] = Extracting(c.op, c.found, v, c.step, c.copy)
           /\ [c EXCEPT !.step = v] = Extracting(c.op, c.found, c.todo, v, c.copy)
           /\ [c EXCEPT !.copy = v] = Extracting(c.op, c.found, c.todo, c.step, v)
<1>1. [c EXCEPT !.todo = v] = Extracting(c.op, c.found, v, c.step, c.copy)
  BY DEF IsExtracting, Extracting
<1>2. [c EXCEPT !.step = v] = Extracting(c.op, c.found, c.todo, v, c.copy)
  BY DEF IsExtracting, Extracting
<1>3. [c EXCEPT !.copy = v] = Extracting(c.op, c.found, c.todo, c.step, v)
  BY DEF IsExtracting, Extracting
<1> QED
  BY <1>1, <1>2, <1>3, Zenon

LEMMA ExtractingIs ==
    ASSUME NEW op, NEW found, NEW todo, NEW step, NEW copy
    PROVE  LET d == Extracting(op, found, todo, step, copy) IN
           /\ IsExtracting(d) /\ d.op = op /\ d.found = found /\ d.todo = todo /\ d.step = step
           /\ d.copy = copy
BY DEF IsExtracting, Extracting

LEMMA LoadedIs ==
    ASSUME NEW c, IsExtracting(c), NEW copy, NEW step
    PROVE  [c EXCEPT !.copy = copy, !.step = step] = Extracting(c.op, c.found, c.todo, step, copy)
<1>1. PICK d : d = [c EXCEPT !.copy = copy]
  OBVIOUS
<1>2. d = Extracting(c.op, c.found, c.todo, c.step, copy)
  BY <1>1, OneExtractionEdit, Zenon
<1>3. IsExtracting(d) /\ d.op = c.op /\ d.found = c.found /\ d.todo = c.todo /\ d.copy = copy
  BY <1>2, ExtractingIs
<1>4. [d EXCEPT !.step = step] = Extracting(d.op, d.found, d.todo, step, d.copy)
  BY <1>3, OneExtractionEdit, Zenon
<1>5. [c EXCEPT !.copy = copy, !.step = step] = [d EXCEPT !.step = step]
  BY <1>1, Zenon
<1> QED
  BY <1>3, <1>4, <1>5, Zenon

\* A thread that is busy has a fact to store, of a kind of the graph.
LEMMA BusyHasFact ==
    ASSUME GraphInv, NEW t \in Thread, NEW step, K!Busy(t, step)
    PROVE  /\ thread[t] # K!Idle /\ WholeFind(thread[t]) /\ thread[t].step = step
           /\ K!Fact(t) = Picked(thread[t].todo)
           /\ K!Fact(t) \in thread[t].todo /\ K!Fact(t) \in K!Facts(thread[t].op, thread[t].found)
           /\ \A g \in thread[t].todo : K!Rank[K!Fact(t)[1]] <= K!Rank[g[1]]
           /\ K!Fact(t)[1] \in K!Stores(thread[t].op) /\ K!Fact(t)[1] \in K!Kinds
           /\ K!Fact(t)[2] \in DOMAIN thread[t].found[K!Fact(t)[1]]
<1> DEFINE c == thread[t]
<1>1. c.step = step /\ c.todo # {}
  BY DEF K!Busy
<1>2. c # K!Idle
  BY <1>1 DEF K!Idle, K!Storing
<1>3. WholeFind(c)
  BY DEF GraphInv, ThreadsAreSound
<1>4. c.op \in ExtractionOp /\ c.todo \in SUBSET K!Facts(c.op, c.found)
  BY <1>2, <1>3 DEF WholeFind
<1>5. K!Fact(t) = Picked(c.todo)
  BY Zenon DEF K!Fact, Picked
<1>6. K!Fact(t) \in c.todo /\ \A g \in c.todo : K!Rank[K!Fact(t)[1]] <= K!Rank[g[1]]
  BY <1>1, <1>4, <1>5, SomeFactIsFirst
<1>7. K!Fact(t) \in K!Facts(c.op, c.found)
  BY <1>4, <1>6
<1>8. PICK kind \in K!Stores(c.op) : \E id \in DOMAIN c.found[kind] : K!Fact(t) = <<kind, id>>
  BY <1>4, <1>7, FactsHaveKinds
<1>9. K!Fact(t)[1] = kind /\ K!Fact(t)[2] \in DOMAIN c.found[kind] /\ kind \in K!Kinds
  BY <1>4, <1>8, StoresAreKinds
<1> QED
  BY <1>1, <1>2, <1>3, <1>5, <1>6, <1>7, <1>8, <1>9

LEMMA GraphLoads ==
    ASSUME GraphInv, NEW t \in Thread, K!Load(t)
    PROVE  GraphInv'
<1> DEFINE c == thread[t]
           kind == K!Fact(t)[1]
           copy == [c.copy EXCEPT ![kind] = file[kind]]
           th == Extracting(c.op, c.found, c.todo, "write", copy)
<1>1. K!Busy(t, "load") /\ UNCHANGED <<file, runs, mixed>>
      /\ thread' = [thread EXCEPT ![t] = [c EXCEPT !.copy = copy, !.step = "write"]]
  BY Zenon DEF K!Load, K!Goto
<1>2. c # K!Idle /\ WholeFind(c) /\ kind \in K!Kinds /\ K!Fact(t) = Picked(c.todo)
  BY <1>1, BusyHasFact
<1>3. thread' = [thread EXCEPT ![t] = th]
  BY <1>1, <1>2, LoadedIs, Zenon DEF WholeFind
<1>4. IsTable(copy) /\ copy[kind] = file[kind]
  BY <1>2 DEF WholeFind, IsTable
<1> HIDE DEF copy
<1>5. IsExtracting(th) /\ th.op = c.op /\ th.found = c.found /\ th.todo = c.todo /\ th.step = "write" /\ th.copy = copy
  BY ExtractingIs
<1> HIDE DEF th
<1>6. WholeFind(th)
  BY <1>2, <1>4, <1>5 DEF WholeFind
<1>7. InStep(c, file) => InStep(th, file)
  BY <1>2, <1>4, <1>5 DEF InStep
<1>8. "overlap" \notin mixed => InStep(th, file') /\ K!EndsAreKept(file)' /\ CompletedAreStored(runs, file)'
  BY <1>1, <1>7 DEF GraphInv, InStepWith, K!EndsAreKept, CompletedAreStored
<1> QED
  BY <1>1, <1>2, <1>3, <1>6, <1>8, GraphMoves DEF GraphInv, GraphTypeOK, IsTable

\* A thread that has dealt with its fact goes on with the others.
LEMMA GraphGoesOn ==
    ASSUME GraphInv, NEW t \in Thread, NEW step, K!Busy(t, step)
    PROVE  /\ WholeFind(K!Onwards(t))
           /\ \A stores :
                  /\ K!Fact(t)[2] \in DOMAIN stores[K!Fact(t)[1]]
                  /\ \A f \in K!Facts(thread[t].op, thread[t].found) \ thread[t].todo : f[2] \in DOMAIN stores[f[1]]
                  => InStep(K!Onwards(t), stores)
<1> DEFINE c == thread[t]
           todo == c.todo \ {K!Fact(t)}
           th == Extracting(c.op, c.found, todo, "load", K!Empty)
<1>1. c # K!Idle /\ WholeFind(c)
  BY BusyHasFact
<1>2. K!Onwards(t) = th
  BY Zenon DEF K!Onwards, K!Storing, Extracting
<1>3. IsExtracting(th) /\ th.op = c.op /\ th.found = c.found /\ th.todo = todo /\ th.step = "load" /\ th.copy = K!Empty
  BY ExtractingIs
<1>4. IsTable(K!Empty)
  BY DEF IsTable, K!Empty
<1> HIDE DEF th
<1>5. WholeFind(th)
  BY <1>1, <1>3, <1>4 DEF WholeFind
<1>6. ASSUME NEW stores, K!Fact(t)[2] \in DOMAIN stores[K!Fact(t)[1]],
             \A f \in K!Facts(c.op, c.found) \ c.todo : f[2] \in DOMAIN stores[f[1]]
      PROVE  InStep(th, stores)
  BY <1>1, <1>3, <1>6 DEF InStep
<1> QED
  BY <1>2, <1>5, <1>6, Zenon

LEMMA GraphCounts ==
    ASSUME GraphInv, NEW t \in Thread, K!Count(t)
    PROVE  GraphInv'
<1>1. K!Busy(t, "count") /\ thread' = [thread EXCEPT ![t] = K!Onwards(t)] /\ UNCHANGED <<file, runs, mixed>>
  BY Zenon DEF K!Count, K!Goto
<1>2. thread[t] # K!Idle /\ thread[t].step = "count" /\ K!Fact(t) = Picked(thread[t].todo)
  BY <1>1, BusyHasFact
<1>3. ASSUME "overlap" \notin mixed
      PROVE  InStep(K!Onwards(t), file') /\ K!EndsAreKept(file)' /\ CompletedAreStored(runs, file)'
  <2>1. InStep(thread[t], file) /\ K!EndsAreKept(file) /\ CompletedAreStored(runs, file)
    BY <1>3 DEF GraphInv, InStepWith
  <2>2. /\ K!Fact(t)[2] \in DOMAIN file[K!Fact(t)[1]]
        /\ \A f \in K!Facts(thread[t].op, thread[t].found) \ thread[t].todo : f[2] \in DOMAIN file[f[1]]
    BY <1>2, <2>1 DEF InStep
  <2>3. InStep(K!Onwards(t), file)
    BY <1>1, <2>2, GraphGoesOn
  <2> QED
    BY <1>1, <2>1, <2>3 DEF K!EndsAreKept, CompletedAreStored
<1>4. WholeFind(K!Onwards(t))
  BY <1>1, GraphGoesOn
<1> QED
  BY <1>1, <1>2, <1>3, <1>4, GraphMoves DEF GraphInv, GraphTypeOK, IsTable

\* A thread that ends, with or without a record of it, leaves what is stored.
LEMMA GraphEnds ==
    ASSUME GraphInv, NEW t \in Thread, thread[t] # K!Idle, thread' = [thread EXCEPT ![t] = K!Idle],
           UNCHANGED file, mixed \subseteq mixed',
           "overlap" \notin mixed => CompletedAreStored(runs, file)'
    PROVE  GraphInv'
<1>1. "overlap" \notin mixed => K!EndsAreKept(file)'
  BY DEF GraphInv, K!EndsAreKept
<1>2. WholeFind(K!Idle) /\ InStep(K!Idle, file')
  BY IdleIsSound
<1> QED
  BY <1>1, <1>2, GraphMoves DEF GraphInv, GraphTypeOK, IsTable

LEMMA GraphRecords ==
    ASSUME GraphInv, NEW t \in Thread, K!Record(t) \/ K!Fail(t)
    PROVE  GraphInv'
<1>1. CASE K!Record(t)
  <2> DEFINE c == thread[t]
             r == K!Run("completed", c.found)
  <2>1. /\ c # K!Idle /\ c.todo = {} /\ thread' = [thread EXCEPT ![t] = K!Idle] /\ UNCHANGED <<file, mixed>>
        /\ runs' = IF c.op = "graph" THEN runs \cup {r} ELSE runs
    BY <1>1, Zenon DEF K!Record, K!Goto
  <2>2. ASSUME "overlap" \notin mixed PROVE CompletedAreStored(runs, file)'
    <3>1. CompletedAreStored(runs, file) /\ InStep(c, file) /\ WholeFind(c)
      BY <2>2 DEF GraphInv, InStepWith, ThreadsAreSound
    <3>2. ASSUME c.op = "graph", NEW kind \in K!Kinds PROVE DOMAIN c.found[kind] \subseteq DOMAIN file[kind]
      <4>1. SUFFICES ASSUME NEW id \in DOMAIN c.found[kind] PROVE id \in DOMAIN file[kind]
        OBVIOUS
      <4>2. c.op \in ExtractionOp /\ kind \in K!Stores(c.op)
        BY <2>1, <3>1, <3>2, StoresAreKinds DEF WholeFind
      <4>3. <<kind, id>> \in K!Facts(c.op, c.found)
        BY <4>2, FactsHaveKinds
      <4>4. \A f \in K!Facts(c.op, c.found) : f[2] \in DOMAIN file[f[1]]
        BY <2>1, <3>1 DEF InStep
      <4> QED
        BY <4>3, <4>4
    <3>3. r.found = c.found
      BY DEF K!Run
    <3> HIDE DEF r
    <3> QED
      BY <2>1, <3>1, <3>2, <3>3 DEF CompletedAreStored
  <2> QED
    BY <2>1, <2>2, GraphEnds
<1>2. CASE K!Fail(t)
  <2> DEFINE r == K!Run("failed", K!Empty)
  <2>1. PICK step \in {"write", "count"} : K!Busy(t, step)
    BY <1>2, Zenon DEF K!Fail
  <2>2. /\ thread' = [thread EXCEPT ![t] = K!Idle] /\ UNCHANGED file
        /\ mixed' = mixed \cup {"fault"} /\ runs' \in {runs, runs \cup {r}}
    BY <1>2, Zenon DEF K!Fail, K!Goto
  <2>3. thread[t] # K!Idle
    BY <2>1, BusyHasFact
  <2>4. r.status = "failed"
    BY DEF K!Run
  <2> HIDE DEF r
  <2>5. "overlap" \notin mixed => CompletedAreStored(runs, file)'
    BY <2>2, <2>4 DEF GraphInv, CompletedAreStored
  <2> QED
    BY <2>2, <2>3, <2>5, GraphEnds
<1> QED
  BY <1>1, <1>2

\* What is written over what was loaded a moment ago adds a fact to what is stored; an edge
\* is written when its ends are.
LEMMA GraphWrites ==
    ASSUME GraphInv, NEW t \in Thread, K!Write(t)
    PROVE  GraphInv'
<1> DEFINE c == thread[t]
           kind == K!Fact(t)[1]
           id == K!Fact(t)[2]
           fact == c.found[kind][id]
           counts == Extracting(c.op, c.found, c.todo, "count", c.copy)
           th == IF id \notin DOMAIN c.copy[kind] /\ kind \in K!Counted THEN counts ELSE K!Onwards(t)
<1>1. /\ K!Busy(t, "write") /\ UNCHANGED <<runs, mixed>>
      /\ file' = [file EXCEPT ![kind] = K!Upserted(c.copy[kind], id, fact)]
      /\ thread' = [thread EXCEPT ![t] = IF id \notin DOMAIN c.copy[kind] /\ kind \in K!Counted
                                         THEN [c EXCEPT !.step = "count"] ELSE K!Onwards(t)]
  BY Zenon DEF K!Write, K!Goto
<1>2. /\ c # K!Idle /\ WholeFind(c) /\ c.step = "write" /\ K!Fact(t) = Picked(c.todo)
      /\ K!Fact(t) \in c.todo /\ kind \in K!Stores(c.op) /\ kind \in K!Kinds /\ id \in DOMAIN c.found[kind]
      /\ \A g \in c.todo : K!Rank[kind] <= K!Rank[g[1]]
  BY <1>1, BusyHasFact
<1>3. [c EXCEPT !.step = "count"] = counts
  BY <1>2, OneExtractionEdit, Zenon DEF WholeFind
<1>4. thread' = [thread EXCEPT ![t] = th]
  BY <1>1, <1>3, Zenon
<1>5. /\ IsExtracting(counts) /\ counts.op = c.op /\ counts.found = c.found /\ counts.todo = c.todo
      /\ counts.step = "count" /\ counts.copy = c.copy
  BY ExtractingIs
<1> HIDE DEF counts
<1>6. WholeFind(counts)
  BY <1>2, <1>5 DEF WholeFind
<1>7. WholeFind(th)
  BY <1>1, <1>6, GraphGoesOn
<1>8. DOMAIN file = K!Kinds /\ \A k \in K!Kinds : file'[k] = IF k = kind THEN K!Upserted(c.copy[kind], id, fact) ELSE file[k]
  BY <1>1 DEF GraphInv, GraphTypeOK, IsTable
<1>9. IsTable(file')
  BY <1>1, <1>8 DEF GraphInv, GraphTypeOK, IsTable
<1>10. ASSUME "overlap" \notin mixed
       PROVE  InStep(th, file') /\ K!EndsAreKept(file)' /\ CompletedAreStored(runs, file)'
  <2>1. InStep(c, file) /\ K!EndsAreKept(file) /\ CompletedAreStored(runs, file)
    BY <1>10 DEF GraphInv, InStepWith
  <2>2. c.copy[kind] = file[kind]
    BY <1>2, <2>1 DEF InStep
  <2>3. /\ DOMAIN file'[kind] = DOMAIN file[kind] \cup {id}
        /\ \A k \in DOMAIN file'[kind] : file'[kind][k] = IF k = id THEN fact ELSE file[kind][k]
    <3>1. file'[kind] = K!Upserted(file[kind], id, fact)
      BY <1>2, <1>8, <2>2
    <3> HIDE DEF fact, kind, id
    <3> QED
      BY <3>1 DEF K!Upserted
  <2>4. \A k \in K!Kinds : DOMAIN file[k] \subseteq DOMAIN file'[k]
    BY <1>8, <2>3
  <2>5. CompletedAreStored(runs, file)'
    BY <1>1, <2>1, <2>4 DEF CompletedAreStored
  <2>6. c.op \in ExtractionOp
    BY <1>2 DEF WholeFind
  <2>7. \A f \in K!Facts(c.op, c.found) \ c.todo : f[2] \in DOMAIN file'[f[1]]
    <3> TAKE f \in K!Facts(c.op, c.found) \ c.todo
    <3>1. f[2] \in DOMAIN file[f[1]]
      BY <1>2, <2>1 DEF InStep
    <3>2. f[1] \in K!Kinds
      <4>1. PICK k \in K!Stores(c.op) : \E i \in DOMAIN c.found[k] : f = <<k, i>>
        BY <2>6, FactsHaveKinds
      <4> QED
        BY <2>6, <4>1, StoresAreKinds
    <3> QED
      BY <2>4, <3>1, <3>2
  <2>8. InStep(counts, file') /\ InStep(K!Onwards(t), file')
    <3>1. id \in DOMAIN file'[kind]
      BY <2>3
    <3>2. InStep(K!Onwards(t), file')
      BY <1>1, <2>7, <3>1, GraphGoesOn
    <3>3. InStep(counts, file')
      BY <1>2, <1>5, <2>7, <3>1 DEF InStep
    <3> QED
      BY <3>2, <3>3
  <2>9. K!EndsAreKept(file)'
    <3>1. "edges" \in K!Kinds /\ "nodes" \in K!Kinds
      BY DEF K!Kinds
    <3>2. CASE kind # "edges"
      <4>1. file'["edges"] = file["edges"]
        BY <1>8, <3>1, <3>2
      <4> QED
        BY <2>1, <2>4, <3>1, <4>1 DEF K!EndsAreKept
    <3>3. CASE kind = "edges"
      <4>1. c.op = "graph" /\ K!Stores(c.op) = K!Kinds
        BY <1>2, <2>6, <3>3, StoresAreKinds
      <4>2. ASSUME NEW n \in DOMAIN c.found["nodes"] PROVE n \in DOMAIN file["nodes"]
        <5>1. <<"nodes", n>> \in K!Facts(c.op, c.found)
          BY <2>6, <3>1, <4>1, <4>2, FactsHaveKinds
        <5>2. <<"nodes", n>> \notin c.todo
          BY <1>2, <3>3, Ranks
        <5> QED
          BY <1>2, <2>1, <5>1, <5>2 DEF InStep
      <4>3. fact.ends \subseteq DOMAIN c.found["nodes"]
        BY <1>2, <3>3 DEF WholeFind, K!EndsAreKept
      <4>4. file'["nodes"] = file["nodes"]
        BY <1>8, <3>1, <3>3
      <4>5. \A k \in DOMAIN file'["edges"] : file'["edges"][k] = fact \/ (k \in DOMAIN file["edges"] /\ file'["edges"][k] = file["edges"][k])
        BY <2>3, <3>3
      <4> HIDE DEF fact
      <4> QED
        BY <2>1, <4>2, <4>3, <4>4, <4>5 DEF K!EndsAreKept
    <3> QED
      BY <3>2, <3>3
  <2> QED
    BY <2>5, <2>8, <2>9
<1> HIDE DEF th
<1> QED
  BY <1>1, <1>2, <1>4, <1>7, <1>9, <1>10, GraphMoves

\* A request that begins beside another is on record as such.
LEMMA GraphBegins ==
    ASSUME GraphInv, NEW t \in Thread, NEW op \in ExtractionOp, NEW texts \in K!Batches, K!Extract(t, op, texts)
    PROVE  GraphInv'
<1> DEFINE found == K!E!ExtractIntelligence(texts)
           th == Extracting(op, found, K!Facts(op, found), "load", K!Empty)
           r == K!Run("failed", K!Empty)
<1>1. thread[t] = K!Idle /\ UNCHANGED file
  BY Zenon DEF K!Extract
<1>2. CASE texts = <<>>
  <2>1. UNCHANGED <<thread, mixed>> /\ (UNCHANGED runs \/ runs' = runs \cup {r})
    BY <1>2, Zenon DEF K!Extract
  <2>2. r.status = "failed"
    BY DEF K!Run
  <2> HIDE DEF r
  <2>3. GraphTypeOK' /\ ThreadsAreSound'
    BY <1>1, <2>1 DEF GraphInv, GraphTypeOK, IsTable, ThreadsAreSound
  <2>4. Alone => Alone'
    BY <2>1 DEF Alone
  <2>5. InStepWith(file) => InStepWith(file)'
    BY <1>1, <2>1 DEF InStepWith
  <2>6. K!EndsAreKept(file) => K!EndsAreKept(file)'
    BY <1>1 DEF K!EndsAreKept
  <2>7. CompletedAreStored(runs, file) => CompletedAreStored(runs, file)'
    BY <1>1, <2>1, <2>2 DEF CompletedAreStored
  <2> QED
    BY <2>1, <2>3, <2>4, <2>5, <2>6, <2>7 DEF GraphInv
<1>3. CASE texts # <<>>
  <2>1. /\ thread' = [thread EXCEPT ![t] = th] /\ UNCHANGED runs
        /\ mixed' = IF \E u \in Thread : thread[u] # K!Idle THEN mixed \cup {"overlap"} ELSE mixed
    BY <1>3, Zenon DEF K!Extract, K!Storing, Extracting
  <2>2. K!EndsAreKept(found)
    BY ExtractionAssumption, Zenon DEF K!FindsEnds
  <2> HIDE DEF found
  <2>3. /\ IsExtracting(th) /\ th.op = op /\ th.found = found /\ th.todo = K!Facts(op, found)
        /\ th.step = "load" /\ th.copy = K!Empty
    BY ExtractingIs
  <2>4. IsTable(K!Empty)
    BY DEF IsTable, K!Empty
  <2> HIDE DEF th
  <2>5. WholeFind(th) /\ \A stores : InStep(th, stores)
    BY <2>2, <2>3, <2>4 DEF WholeFind, InStep
  <2>6. \A u \in Thread : thread'[u] = IF u = t THEN th ELSE thread[u]
    BY <2>1 DEF GraphInv, GraphTypeOK
  <2>7. GraphTypeOK' /\ ThreadsAreSound'
    <3>1. thread' = [u \in Thread |-> thread'[u]]
      BY <2>1 DEF GraphInv, GraphTypeOK
    <3>2. \A u \in Thread : WholeFind(thread'[u])
      BY <2>5, <2>6 DEF GraphInv, ThreadsAreSound
    <3> QED
      BY <1>1, <3>1, <3>2 DEF GraphInv, GraphTypeOK, ThreadsAreSound, IsTable
  <2>8. ASSUME "overlap" \notin mixed'
        PROVE  Alone' /\ InStepWith(file)' /\ K!EndsAreKept(file)' /\ CompletedAreStored(runs, file)'
    <3>1. \A u \in Thread : thread[u] = K!Idle
      BY <2>1, <2>8
    <3>2. "overlap" \notin mixed
      BY <2>1, <2>8
    <3>3. Alone'
      BY <2>6, <3>1 DEF Alone
    <3>4. \A u \in Thread : InStep(thread'[u], file')
      BY <2>5, <2>6, <3>1, IdleIsSound
    <3>5. InStepWith(file)'
      BY <3>4 DEF InStepWith
    <3>6. K!EndsAreKept(file)' /\ CompletedAreStored(runs, file)'
      BY <1>1, <2>1, <3>2 DEF GraphInv, K!EndsAreKept, CompletedAreStored
    <3> QED
      BY <3>3, <3>5, <3>6
  <2> QED
    BY <2>7, <2>8 DEF GraphInv
<1> QED
  BY <1>2, <1>3

\* What a crash leaves, and what is only read.
LEMMA GraphRest ==
    ASSUME GraphInv, UNCHANGED <<file, runs>>, mixed \subseteq mixed',
           UNCHANGED thread \/ thread' = [t \in Thread |-> K!Idle]
    PROVE  GraphInv'
<1>1. GraphTypeOK'
  BY DEF GraphInv, GraphTypeOK, IsTable
<1>2. ThreadsAreSound'
  BY IdleIsSound DEF GraphInv, ThreadsAreSound
<1>3. Alone => Alone'
  BY DEF Alone
<1>4. InStepWith(file) => InStepWith(file)'
  BY IdleIsSound DEF InStepWith
<1>5. K!EndsAreKept(file) => K!EndsAreKept(file)'
  BY DEF K!EndsAreKept
<1>6. CompletedAreStored(runs, file) => CompletedAreStored(runs, file)'
  BY DEF CompletedAreStored
<1> QED
  BY <1>1, <1>2, <1>3, <1>4, <1>5, <1>6 DEF GraphInv

LEMMA GraphStep == GraphInv /\ [K!Next]_(K!vars) => GraphInv'
<1> SUFFICES ASSUME GraphInv, [K!Next]_(K!vars) PROVE GraphInv'
  OBVIOUS
<1>1. CASE UNCHANGED K!vars
  BY <1>1, GraphRest DEF K!vars
<1>2. CASE K!Summarise \/ K!Crash
  <2>1. UNCHANGED <<file, runs>> /\ mixed \subseteq mixed' /\ (UNCHANGED thread \/ thread' = [t \in Thread |-> K!Idle])
    BY <1>2 DEF K!Summarise, K!Crash
  <2> QED
    BY <2>1, GraphRest
<1>3. ASSUME NEW t \in Thread, \E op \in {"graph", "risks", "metrics"}, texts \in K!Batches : K!Extract(t, op, texts)
      PROVE  GraphInv'
  BY <1>3, GraphBegins DEF ExtractionOp
<1>4. ASSUME NEW t \in Thread, K!Load(t) \/ K!Write(t) \/ K!Count(t) \/ K!Record(t) \/ K!Fail(t)
      PROVE  GraphInv'
  BY <1>4, GraphLoads, GraphWrites, GraphCounts, GraphRecords
<1> QED
  BY <1>1, <1>2, <1>3, <1>4 DEF K!Next

LEMMA GraphAmongDesks ==
    /\ Init => (desk = "graph" => GraphInv)
    /\ (desk = "graph" => GraphInv) /\ [Next]_vars => (desk = "graph" => GraphInv)'
<1>1. Init /\ desk = "graph" => K!Init
  BY DEF Init, InitReviews, InitSources, InitConnectors, InitWorkflows, InitRegistries,
         InitGraph, InitClaims, InitRooms, InitStore, InitRules
<1>2. [Next]_vars => desk' = desk /\ (desk = "graph" => [K!Next]_(K!vars))
  BY DEF Next, NextReviews, NextSources, NextConnectors, NextWorkflows, NextRegistries, NextGraph,
         NextClaims, NextRooms, NextStore, vars, shared, ofGraph, K!vars
<1> QED
  BY <1>1, <1>2, GraphStart, GraphStep

\* Every edge of the graph has its nodes, and what a completed extraction found is stored, also when
\* the process dies or fails in the middle of one, if no two of them overlapped (extract_graph).
THEOREM GraphHoldsTogether == Spec => []EdgesHaveNodes
<1>1. GraphInv => K!EdgesHaveNodes
  BY DEF GraphInv, K!EdgesHaveNodes, CompletedAreStored, K!Stored
<1> QED
  BY <1>1, GraphAmongDesks, PTL DEF Spec, EdgesHaveNodes

-----------------------------------------------------------------------------
(* Claims                                                                   *)

Fine(claim) == claim = None \/ claim.quality = None \/ V!IsBacked(claim)

\* A verdict names the texts it is by.
Fair(verdict) ==
    /\ verdict.status = "supported" =>
          /\ verdict.cites # {} /\ V!V!Supports(V!Named(verdict.cites), V!Statement, 3)
          /\ \A x \in V!Named(verdict.cites) : ~V!V!Contradicts(x, V!Statement)
    /\ verdict.against # {} => \A x \in V!Named(verdict.against) : V!V!Contradicts(x, V!Statement)
    /\ verdict.status = "contradicted" <=> verdict.against # {}

ClaimsInv ==
    /\ vectors \subseteq V!Texts /\ filed \subseteq V!Texts
    /\ file = [c \in Claim |-> file[c]] /\ thread = [t \in Thread |-> thread[t]]
    /\ \A c \in Claim : Fine(file[c])
    /\ \A t \in Thread : Fine(thread[t].copy)
    /\ \A t \in Thread : V!At(t, "reload") => Fair(thread[t].verdict)

\* No two texts have one id, found by whichever search.
LEMMA TextsHaveIds == \A x, y \in V!Known : x.id = y.id => x = y
<1> DEFINE d1 == V!Said(<<"text", "d1">>, "s1", {"churn", "rose"}, {})
           d3 == V!Said(<<"text", "d3">>, "s2", {"churn", "rose", "again"}, {"turn"})
           k1 == V!Said(<<"kw", "d1">>, "s1", {"churn", "rose"}, {})
           k3 == V!Said(<<"kw", "d3">>, "s2", {"churn", "rose", "again"}, {"turn"})
<1>1. V!Texts = {d1, d3}
  BY DEF V!Texts
<1>2. V!ByWords(d1) = k1 /\ V!ByWords(d3) = k3
  BY DEF V!ByWords, V!Said
<1>3. d1.id = <<"text", "d1">> /\ d3.id = <<"text", "d3">> /\ k1.id = <<"kw", "d1">> /\ k3.id = <<"kw", "d3">>
  BY DEF V!Said
<1> HIDE DEF d1, d3, k1, k3
<1>4. V!Known = {d1, d3, k1, k3}
  BY <1>1, <1>2 DEF V!Known
<1> QED
  BY <1>3, <1>4

LEMMA NamedByIds ==
    ASSUME NEW texts \in SUBSET V!Known
    PROVE  V!Named(V!V!Ids(texts)) = texts
BY TextsHaveIds DEF V!Named, V!V!Ids

LEMMA JudgedFairly ==
    ASSUME NEW texts \in SUBSET V!Known, texts # {}, NEW direct \in BOOLEAN
    PROVE  Fair(V!V!Judge(texts, V!Statement, direct))
<1> DEFINE against == {x \in texts : V!V!Contradicts(x, V!Statement)}
           for == texts \ against
           sources == IF direct THEN {x.source : x \in texts} ELSE {}
<1>1. V!Named(V!V!Ids(for)) = for /\ V!Named(V!V!Ids(against)) = against
  <2>1. for \in SUBSET V!Known /\ against \in SUBSET V!Known
    OBVIOUS
  <2> HIDE DEF for, against
  <2> QED
    BY <2>1, NamedByIds
<1>2. against # {} => V!V!Ids(against) # {}
  BY DEF V!V!Ids
<1>3. against = {} => for # {} /\ V!V!Ids(for) # {}
  BY DEF V!V!Ids
<1>4. \A x \in for : ~V!V!Contradicts(x, V!Statement)
  OBVIOUS
<1>5. \A x \in against : V!V!Contradicts(x, V!Statement)
  OBVIOUS
<1>6. V!V!Judge(texts, V!Statement, direct)
      = IF against # {} THEN V!V!Verdict("contradicted", V!V!Ids(for), V!V!Ids(against), sources)
        ELSE V!V!Verdict(IF V!V!Supports(texts, V!Statement, 3) THEN "supported" ELSE "uncertain",
                         V!V!Ids(for), {}, sources)
  BY Zenon DEF V!V!Judge
<1>7. against = {} => for = texts
  OBVIOUS
<1> HIDE DEF for, against, sources
<1> QED
  BY <1>1, <1>2, <1>3, <1>4, <1>5, <1>6, <1>7 DEF Fair, V!V!Verdict

LEMMA ClaimIsVerifiedFairly ==
    ASSUME NEW cited \in SUBSET V!Known, NEW found \in SUBSET V!Known
    PROVE  Fair(V!V!VerifyClaim(V!Statement, cited, found))
<1>1. Fair(V!V!Unsupported(V!Statement))
  BY DEF Fair, V!V!Unsupported, V!V!Verdict
<1>2. CASE cited # {}
  <2>1. V!V!VerifyClaim(V!Statement, cited, found) = V!V!Judge(cited, V!Statement, TRUE)
    BY <1>2, Zenon DEF V!V!VerifyClaim
  <2> QED
    BY <1>2, <2>1, JudgedFairly
<1>3. CASE cited = {} /\ found # {}
  <2>1. V!V!VerifyClaim(V!Statement, cited, found) = V!V!Judge(found, V!Statement, FALSE)
    BY <1>3, Zenon DEF V!V!VerifyClaim
  <2> QED
    BY <1>3, <2>1, JudgedFairly
<1>4. CASE cited = {} /\ found = {}
  BY <1>1, <1>4, Zenon DEF V!V!VerifyClaim
<1> QED
  BY <1>2, <1>3, <1>4

\* What a fair verdict leaves of a claim is fine, whatever was on file.
LEMMA UpdatesAreBacked ==
    ASSUME NEW claim, NEW verdict, Fair(verdict)
    PROVE  Fine(V!Updated(claim, verdict))
<1> DEFINE new == V!Updated(claim, verdict)
<1>1. /\ new.status = verdict.status /\ new.quality = V!V!Score(verdict)
      /\ verdict.cites # {} => new.cites = verdict.cites
      /\ verdict.against # {} => new.against = verdict.against
  BY DEF V!Updated, V!OrOld
<1>2. V!V!Score(verdict) = "contradicted" <=> verdict.against # {}
  <2>1. CASE verdict.against # {}
    BY <2>1, Zenon DEF V!V!Score
  <2>2. CASE verdict.against = {}
    <3>1. V!V!Score(verdict) \in {"strong", "moderate", "weak", "missing"}
      BY <2>2 DEF V!V!Score
    <3> QED
      BY <2>2, <3>1
  <2> QED
    BY <2>1, <2>2
<1> HIDE DEF new
<1>3. ASSUME new.status = "supported"
      PROVE  /\ V!V!Supports(V!Named(new.cites), V!Statement, 3)
             /\ \A x \in V!Named(new.cites) : ~V!V!Contradicts(x, V!Statement)
  <2>1. verdict.status = "supported"
    BY <1>1, <1>3
  <2>2. verdict.cites # {}
    BY <2>1 DEF Fair
  <2>3. new.cites = verdict.cites
    BY <1>1, <2>2
  <2> QED
    BY <2>1, <2>3, Zenon DEF Fair
<1>4. ASSUME new.status = "contradicted"
      PROVE  new.against # {} /\ \A x \in V!Named(new.against) : V!V!Contradicts(x, V!Statement)
  <2>1. verdict.against # {}
    BY <1>1, <1>4 DEF Fair
  <2>2. new.against = verdict.against
    BY <1>1, <2>1
  <2> QED
    BY <2>1, <2>2, Zenon DEF Fair
<1>5. new.status = "contradicted" <=> new.quality = "contradicted"
  BY <1>1, <1>2 DEF Fair
<1>6. V!IsBacked(new)
  BY <1>3, <1>4, <1>5, Zenon DEF V!IsBacked
<1> QED
  BY <1>6, Zenon DEF Fine, new

LEMMA ClaimsStart == V!Init => ClaimsInv
<1> SUFFICES ASSUME V!Init PROVE ClaimsInv
  OBVIOUS
<1>1. filed = {} /\ vectors = {} /\ file = [c \in Claim |-> None] /\ thread = [t \in Thread |-> V!Idle]
  BY DEF V!Init
<1>2. V!Idle.copy = None /\ V!Idle.step = "-"
  BY DEF V!Idle, V!Doing
<1> HIDE DEF V!Init
<1> QED
  BY <1>1, <1>2 DEF ClaimsInv, Fine, V!At

\* A thread comes to what is fine; what it writes is, too.
LEMMA ClaimsMove ==
    ASSUME ClaimsInv, NEW t \in Thread, NEW th, thread' = [thread EXCEPT ![t] = th],
           Fine(th.copy), th.step = "reload" => Fair(th.verdict),
           UNCHANGED file \/ \E c, claim : Fine(claim) /\ file' = [file EXCEPT ![c] = claim],
           UNCHANGED <<filed, vectors>>
    PROVE  ClaimsInv'
<1>1. \A u \in Thread : thread'[u] = IF u = t THEN th ELSE thread[u]
  BY DEF ClaimsInv
<1>2. thread' = [u \in Thread |-> thread'[u]]
  BY DEF ClaimsInv
<1>3. file' = [c \in Claim |-> file'[c]] /\ \A c \in Claim : Fine(file'[c])
  <2>1. CASE UNCHANGED file
    BY <2>1 DEF ClaimsInv
  <2>2. ASSUME NEW d, NEW claim, Fine(claim), file' = [file EXCEPT ![d] = claim]
        PROVE  file' = [c \in Claim |-> file'[c]] /\ \A c \in Claim : Fine(file'[c])
    <3>1. \A c \in Claim : file'[c] = claim \/ file'[c] = file[c]
      BY <2>2 DEF ClaimsInv
    <3>2. file' = [c \in Claim |-> file'[c]]
      BY <2>2 DEF ClaimsInv
    <3> QED
      BY <2>2, <3>1, <3>2 DEF ClaimsInv
  <2> QED
    BY <2>1, <2>2
<1>4. \A u \in Thread : Fine(thread'[u].copy) /\ (thread'[u].step = "reload" => Fair(thread'[u].verdict))
  BY <1>1 DEF ClaimsInv, V!At
<1> QED
  BY <1>2, <1>3, <1>4 DEF ClaimsInv, V!At

LEMMA DoingIs ==
    ASSUME NEW op, NEW step, NEW c, NEW verdict, NEW copy, NEW ids
    PROVE  /\ LET d == V!Doing(op, step, c, verdict, copy) IN
              d.op = op /\ d.step = step /\ d.c = c /\ d.verdict = verdict /\ d.copy = copy
           /\ LET d == [V!Doing(op, step, c, verdict, copy) EXCEPT !.ids = ids] IN
              d.op = op /\ d.step = step /\ d.c = c /\ d.verdict = verdict /\ d.copy = copy
BY DEF V!Doing

LEMMA ClaimsStep ==
    ASSUME ClaimsInv, V!Next
    PROVE  ClaimsInv'
<1>1. Fine(None) /\ V!Idle.copy = None /\ V!Idle.step = "-"
  BY DEF Fine, V!Idle, V!Doing
<1>2. CASE V!Evidence
  <2>1. UNCHANGED <<file, thread>> /\ vectors' \subseteq V!Texts /\ filed' \subseteq V!Texts
    BY <1>2 DEF V!Evidence, ClaimsInv
  <2> QED
    BY <2>1 DEF ClaimsInv, V!At
<1>3. CASE V!Crash
  <2>1. UNCHANGED <<file, filed, vectors>> /\ thread' = [t \in Thread |-> V!Idle]
    BY <1>3 DEF V!Crash
  <2> QED
    BY <1>1, <2>1 DEF ClaimsInv, V!At
<1>4. ASSUME NEW t \in Thread, V!Create(t) PROVE ClaimsInv'
  <2>1. PICK c \in Claim \ used, cites \in {{}, {<<"text", "d3">>}} :
            V!Begin(t, V!Doing("create", "write", c, None, V!Fresh(cites)))
    BY <1>4, Zenon DEF V!Create
  <2> DEFINE th == V!Doing("create", "write", c, None, V!Fresh(cites))
  <2>2. thread' = [thread EXCEPT ![t] = th] /\ UNCHANGED <<file, filed, vectors>>
    BY <1>4, <2>1, Zenon DEF V!Create, V!Begin, V!Goto
  <2>3. th.copy = V!Fresh(cites) /\ th.step = "write"
    BY DoingIs
  <2>4. Fine(V!Fresh(cites))
    BY DEF Fine, V!Fresh
  <2> HIDE DEF th
  <2> QED
    BY <2>2, <2>3, <2>4, ClaimsMove
<1>5. ASSUME NEW t \in Thread, V!Delete(t) PROVE ClaimsInv'
  <2>1. PICK c \in Claim : V!Begin(t, V!Doing("delete", "write", c, None, None))
    BY <1>5, Zenon DEF V!Delete
  <2> DEFINE th == V!Doing("delete", "write", c, None, None)
  <2>2. thread' = [thread EXCEPT ![t] = th] /\ UNCHANGED <<file, filed, vectors>>
    BY <1>5, <2>1, Zenon DEF V!Delete, V!Begin, V!Goto
  <2>3. th.copy = None /\ th.step = "write"
    BY DoingIs
  <2> HIDE DEF th
  <2> QED
    BY <1>1, <2>2, <2>3, ClaimsMove
<1>6. ASSUME NEW t \in Thread, V!Judge(t) PROVE ClaimsInv'
  <2>1. PICK c \in Claim : \E cited \in SUBSET {x \in vectors : x.id \in file[c].cites} :
            V!Begin(t, V!Doing("verify", "reload", c, V!V!VerifyClaim(V!Statement, cited, V!Found), None))
    BY <1>6, Zenon DEF V!Judge
  <2>2. PICK cited \in SUBSET {x \in vectors : x.id \in file[c].cites} :
            V!Begin(t, V!Doing("verify", "reload", c, V!V!VerifyClaim(V!Statement, cited, V!Found), None))
    BY <2>1, Zenon
  <2> DEFINE verdict == V!V!VerifyClaim(V!Statement, cited, V!Found)
             th == V!Doing("verify", "reload", c, verdict, None)
  <2>3. thread' = [thread EXCEPT ![t] = th] /\ UNCHANGED <<file, filed, vectors>>
    BY <1>6, <2>2, Zenon DEF V!Judge, V!Begin, V!Goto
  <2>4. cited \in SUBSET V!Known
    BY DEF ClaimsInv, V!Known
  <2>5. V!Found \in SUBSET V!Known
    BY DEF ClaimsInv, V!Known, V!Found
  <2>6. Fair(verdict)
    BY <2>4, <2>5, ClaimIsVerifiedFairly
  <2> HIDE DEF verdict
  <2>7. th.copy = None /\ th.verdict = verdict
    BY DoingIs
  <2> HIDE DEF th
  <2> QED
    BY <1>1, <2>3, <2>6, <2>7, ClaimsMove
<1>7. ASSUME NEW t \in Thread, V!Reload(t) PROVE ClaimsInv'
  <2> DEFINE old == thread[t]
             new == V!Updated(file[old.c], old.verdict)
             writes == V!Doing(old.op, "write", old.c, None, new)
  <2>1. /\ V!At(t, "reload") /\ UNCHANGED <<file, filed, vectors>>
        /\ thread' = [thread EXCEPT ![t] = IF file[old.c] = None THEN V!Idle ELSE writes]
    BY <1>7, Zenon DEF V!Reload, V!Goto
  <2>2. Fine(new)
    BY <2>1, UpdatesAreBacked DEF ClaimsInv
  <2> HIDE DEF new
  <2>3. writes.copy = new /\ writes.step = "write"
    BY DoingIs
  <2> HIDE DEF writes
  <2> QED
    BY <1>1, <2>1, <2>2, <2>3, ClaimsMove
<1>8. ASSUME NEW t \in Thread, V!Write(t) PROVE ClaimsInv'
  <2> DEFINE th == V!Doing(thread[t].op, "ids", thread[t].c, None, None)
  <2>1. /\ thread' = [thread EXCEPT ![t] = th] /\ UNCHANGED <<filed, vectors>>
        /\ file' = [file EXCEPT ![thread[t].c] = thread[t].copy]
    BY <1>8, Zenon DEF V!Write, V!Goto
  <2>2. th.copy = None /\ th.step = "ids"
    BY DoingIs
  <2>3. Fine(thread[t].copy)
    BY DEF ClaimsInv
  <2> HIDE DEF th
  <2> QED
    BY <1>1, <2>1, <2>2, <2>3, ClaimsMove
<1>9. ASSUME NEW t \in Thread, V!LoadIds(t) \/ V!SaveIds(t) PROVE ClaimsInv'
  <2> DEFINE th == [V!Doing(thread[t].op, "list", thread[t].c, None, None) EXCEPT !.ids = listed]
  <2>1. /\ UNCHANGED <<file, filed, vectors>>
        /\ thread' = [thread EXCEPT ![t] = th] \/ thread' = [thread EXCEPT ![t] = V!Idle]
    BY <1>9, Zenon DEF V!LoadIds, V!SaveIds, V!Goto
  <2>2. th.copy = None /\ th.step = "list"
    BY DoingIs
  <2> HIDE DEF th
  <2> QED
    BY <1>1, <2>1, <2>2, ClaimsMove
<1> QED
  BY <1>2, <1>3, <1>4, <1>5, <1>6, <1>7, <1>8, <1>9 DEF V!Next

LEMMA ClaimsAmongDesks ==
    /\ Init => (desk = "claims" => ClaimsInv)
    /\ (desk = "claims" => ClaimsInv) /\ [Next]_vars => (desk = "claims" => ClaimsInv)'
<1>1. Init /\ desk = "claims" => V!Init
  BY DEF Init, InitReviews, InitSources, InitConnectors, InitWorkflows, InitRegistries,
         InitGraph, InitClaims, InitRooms, InitStore, InitRules
<1>2. [Next]_vars => desk' = desk /\ (desk = "claims" => [V!Next]_(V!vars))
  BY DEF Next, NextReviews, NextSources, NextConnectors, NextWorkflows, NextRegistries, NextGraph,
         NextClaims, NextRooms, NextStore, vars, shared, ofClaims, V!vars
<1>3. ClaimsInv /\ UNCHANGED V!vars => ClaimsInv'
  BY DEF V!vars, ClaimsInv, V!At
<1> QED
  BY <1>1, <1>2, <1>3, ClaimsStart, ClaimsStep

\* A claim that reads supported cites texts that support it, one that reads contradicted names what is
\* against it, however requests interleave and evidence comes and goes (verify_claim, update_claim).
THEOREM ClaimsHaveBackedVerdicts == Spec => []VerdictsAreBacked
<1>1. ClaimsInv => V!VerdictsAreBacked
  BY DEF ClaimsInv, V!VerdictsAreBacked, Fine
<1> QED
  BY <1>1, ClaimsAmongDesks, PTL DEF Spec, VerdictsAreBacked

-----------------------------------------------------------------------------
(* War rooms                                                                *)

RoomFile == {"ontology", "insights", "latest"}
Noticed == UNION O!Detectable
Names == {i.id : i \in Noticed}

\* What a war room has seen and said: each role cites all that is relevant, and what it saw
\* of serious insights is among that and still on file, unless they were written meanwhile.
Attends(th, held) ==
    th.step = "roles" =>
        /\ th.context.relevant \subseteq Names
        /\ th.cited \in Seq(SUBSET Names)
        /\ \A n \in 1..Len(th.cited) : th.context.relevant \subseteq th.cited[n]
        /\ th.calm /\ ~th.context.bare =>
            \A id \in th.context.serious :
                /\ id \in th.context.relevant
                /\ \E x \in held : x.id = id /\ O!O!Serious(x)

RoomsInv ==
    /\ thread = [t \in Thread |-> thread[t]] /\ file = [f \in RoomFile |-> file[f]]
    /\ O!Held \subseteq Noticed
    /\ \A t \in Thread : thread[t].op \in {"orchestrate", "fill"} => thread[t].found \subseteq Noticed
    /\ \A t \in Thread : thread[t].op = "discuss" => Attends(thread[t], O!Held)
    /\ O!SeriousInsightsReachReview

LEMMA DiscussingIs ==
    ASSUME NEW step, NEW q, NEW context, NEW cited, NEW calm
    PROVE  LET th == O!Discussing(step, q, context, cited, calm) IN
           /\ th.op = "discuss" /\ th.step = step /\ th.q = q /\ th.context = context
           /\ th.cited = cited /\ th.calm = calm
BY DEF O!Discussing

LEMMA OrchestratingIs ==
    ASSUME NEW op, NEW step, NEW id, NEW found
    PROVE  LET th == O!Orchestrating(op, step, id, found) IN
           th.op = op /\ th.step = step /\ th.id = id /\ th.found = found
BY DEF O!Orchestrating

\* A step of one thread that leaves the insights alone.
LEMMA RoomsGoOn ==
    ASSUME RoomsInv, NEW t \in Thread, NEW th, thread' = [thread EXCEPT ![t] = th],
           file' = [f \in RoomFile |-> file'[f]], O!Held' = O!Held,
           th.op \in {"orchestrate", "fill"} => th.found \subseteq Noticed,
           th.op = "discuss" => Attends(th, O!Held),
           O!SeriousInsightsReachReview'
    PROVE  RoomsInv'
<1>1. \A u \in Thread : thread'[u] = IF u = t THEN th ELSE thread[u]
  BY DEF RoomsInv
<1>2. thread' = [u \in Thread |-> thread'[u]]
  BY DEF RoomsInv
<1>3. \A u \in Thread : thread'[u].op \in {"orchestrate", "fill"} => thread'[u].found \subseteq Noticed
  BY <1>1 DEF RoomsInv
<1>4. \A u \in Thread : thread'[u].op = "discuss" => Attends(thread'[u], O!Held')
  BY <1>1 DEF RoomsInv
<1>5. O!Held' \subseteq Noticed
  BY DEF RoomsInv
<1> QED
  BY <1>2, <1>3, <1>4, <1>5 DEF RoomsInv

\* A step that writes the insights while others discuss them.
LEMMA RoomsAreDisturbed ==
    ASSUME RoomsInv, NEW t \in Thread, NEW th,
           thread' = [O!Disturbed("insights") EXCEPT ![t] = th],
           file' = [f \in RoomFile |-> file'[f]], O!Held' \subseteq Noticed, UNCHANGED runs,
           th.op \in {"orchestrate", "fill"}, th.found \subseteq Noticed
    PROVE  RoomsInv'
<1> DEFINE New(u) == IF u = t THEN th ELSE O!Warned(thread[u])
<1>1. thread' = [u \in Thread |-> New(u)]
  <2>1. O!Disturbed("insights") = [u \in Thread |-> O!Warned(thread[u])]
    BY Zenon DEF O!Disturbed
  <2> QED
    BY <2>1
<1>2. ASSUME NEW u \in Thread
      PROVE  LET d == O!Warned(thread[u]) IN
             /\ thread[u].op # "discuss" => d = thread[u]
             /\ thread[u].op = "discuss" => d.op = "discuss" /\ Attends(d, O!Held')
  <2>1. CASE thread[u].op # "discuss"
    BY <2>1, Zenon DEF O!Warned
  <2>2. CASE thread[u].op = "discuss"
    <3>1. PICK c : c = thread[u]
      OBVIOUS
    <3>2. PICK d : d = O!Discussing(c.step, c.q, c.context, c.cited, FALSE)
      OBVIOUS
    <3>3. O!Warned(thread[u]) = d
      BY <2>2, <3>1, <3>2, Zenon DEF O!Warned
    <3>4. /\ d.op = "discuss" /\ d.step = c.step /\ d.context = c.context /\ d.cited = c.cited
          /\ d.calm = FALSE
      BY <3>2 DEF O!Discussing
    <3>5. Attends(c, O!Held)
      BY <2>2, <3>1 DEF RoomsInv
    <3>6. Attends(d, O!Held')
      BY <3>4, <3>5 DEF Attends
    <3> QED
      BY <2>2, <3>3, <3>4, <3>6
  <2> QED
    BY <2>1, <2>2
<1>3. \A u \in Thread : thread'[u] = New(u)
  BY <1>1
<1>4. thread' = [u \in Thread |-> thread'[u]]
  <2> HIDE DEF New
  <2> QED BY <1>1, <1>3
<1>5. \A u \in Thread : thread'[u].op \in {"orchestrate", "fill"} => thread'[u].found \subseteq Noticed
  BY <1>2, <1>3 DEF RoomsInv
<1>6. \A u \in Thread : thread'[u].op = "discuss" => Attends(thread'[u], O!Held')
  BY <1>2, <1>3
<1>7. O!SeriousInsightsReachReview'
  BY DEF RoomsInv, O!SeriousInsightsReachReview
<1> QED
  BY <1>4, <1>5, <1>6, <1>7 DEF RoomsInv

LEMMA RoomsStart == O!Init => RoomsInv
<1> SUFFICES ASSUME O!Init PROVE RoomsInv
  OBVIOUS
<1>1. \A t \in Thread : thread[t].op = "-"
  BY OrchestratingIs DEF O!Init, O!Idle
<1>2. O!Held = {}
  BY DEF O!Init, O!Held, O!Empty
<1>3. O!SeriousInsightsReachReview
  BY DEF O!Init, O!SeriousInsightsReachReview
<1>4. thread = [t \in Thread |-> thread[t]] /\ file = [f \in RoomFile |-> file[f]]
  BY DEF O!Init, RoomFile
<1> QED
  BY <1>1, <1>2, <1>3, <1>4 DEF RoomsInv

LEMMA RoomsBegin ==
    ASSUME RoomsInv, NEW t \in Thread, O!Orchestrate(t) \/ O!Discuss(t)
    PROVE  RoomsInv'
<1>1. file' = file /\ runs' = runs
  BY DEF O!Orchestrate, O!Discuss
<1>2. O!Held' = O!Held /\ O!SeriousInsightsReachReview' /\ file' = [f \in RoomFile |-> file'[f]]
  BY <1>1 DEF O!Held, O!SeriousInsightsReachReview, RoomsInv
<1>3. CASE O!Orchestrate(t)
  <2>1. PICK found \in O!Detectable : thread' = [thread EXCEPT ![t] = O!Orchestrating("orchestrate", "ontology", requests, found)]
    BY <1>3, Zenon DEF O!Orchestrate, O!Begin, O!Goto
  <2>2. PICK th : th = O!Orchestrating("orchestrate", "ontology", requests, found)
    OBVIOUS
  <2>3. th.op = "orchestrate" /\ th.found \subseteq Noticed
    BY <2>2, OrchestratingIs DEF Noticed
  <2> QED
    BY <1>2, <2>1, <2>2, <2>3, RoomsGoOn
<1>4. CASE O!Discuss(t)
  <2>1. PICK q \in O!Questions : thread' = [thread EXCEPT ![t] = O!Discussing("context", q, None, <<>>, TRUE)]
    BY <1>4, Zenon DEF O!Discuss, O!Begin, O!Goto
  <2>2. PICK th : th = O!Discussing("context", q, None, <<>>, TRUE)
    OBVIOUS
  <2>3. /\ th.op = "discuss" /\ th.step = "context"
    BY <2>2 DEF O!Discussing
  <2>4. Attends(th, O!Held)
    BY <2>3 DEF Attends
  <2> QED
    BY <1>2, <2>1, <2>2, <2>3, <2>4, RoomsGoOn
<1> QED
  BY <1>3, <1>4

\* Opening the insights for writing, and filling them, tells those who discuss.
LEMMA RoomsWrite ==
    ASSUME RoomsInv, NEW t \in Thread, O!Truncate(t) \/ O!Fill(t)
    PROVE  RoomsInv'
<1>1. PICK c : c = thread[t]
  OBVIOUS
<1>2. PICK f : f = c.step
  OBVIOUS
<1>3. c.op \in {"orchestrate", "fill"} /\ c.found \subseteq Noticed
  BY <1>1 DEF RoomsInv, O!Truncate, O!Fill
<1>4. PICK th : /\ thread' = [O!Disturbed(f) EXCEPT ![t] = th]
                /\ th.op \in {"-", "orchestrate", "fill"}
                /\ th.op # "-" => th.found \subseteq Noticed
                /\ f = "insights" => th.op # "-"
  <2>1. CASE O!Truncate(t)
    <3>1. thread' = [O!Disturbed(f) EXCEPT ![t] = O!Orchestrating("fill", f, c.id, c.found)]
      BY <2>1, <1>1, <1>2, Zenon DEF O!Truncate
    <3>2. PICK th : th = O!Orchestrating("fill", f, c.id, c.found)
      OBVIOUS
    <3>3. th.op = "fill" /\ th.found \subseteq Noticed
      BY <3>2, <1>3, OrchestratingIs
    <3> QED
      BY <3>1, <3>2, <3>3
  <2>2. CASE O!Fill(t)
    <3>1. thread' = [O!Disturbed(f) EXCEPT ![t] =
                        IF O!Following(f) = "-" THEN O!Idle
                        ELSE O!Orchestrating("orchestrate", O!Following(f), c.id, c.found)]
      BY <2>2, <1>1, <1>2, Zenon DEF O!Fill
    <3>2. f = "insights" => O!Following(f) = "session"
      BY Zenon DEF O!Following
    <3>3. CASE O!Following(f) = "-"
      <4>1. thread' = [O!Disturbed(f) EXCEPT ![t] = O!Idle]
        BY <3>1, <3>3, Zenon
      <4>2. O!Idle.op = "-"
        BY OrchestratingIs DEF O!Idle
      <4> QED
        BY <4>1, <4>2, <3>2, <3>3
    <3>4. CASE O!Following(f) # "-"
      <4>1. thread' = [O!Disturbed(f) EXCEPT ![t] =
                          O!Orchestrating("orchestrate", O!Following(f), c.id, c.found)]
        BY <3>1, <3>4, Zenon
      <4>2. PICK th : th = O!Orchestrating("orchestrate", O!Following(f), c.id, c.found)
        OBVIOUS
      <4>3. th.op = "orchestrate" /\ th.found \subseteq Noticed
        BY <4>2, <1>3, OrchestratingIs
      <4> QED
        BY <4>1, <4>2, <4>3
    <3> QED
      BY <3>3, <3>4
  <2> QED
    BY <2>1, <2>2
<1>5. /\ UNCHANGED runs
      /\ file' = file \/ file' = [file EXCEPT ![f] = O!Content(c)]
  BY <1>1, <1>2, Zenon DEF O!Truncate, O!Fill
<1>6. f = "insights" => O!Content(c) = c.found
  BY <1>2 DEF O!Content
<1>7. file' = [g \in RoomFile |-> file'[g]]
  BY <1>5 DEF RoomsInv
<1>8. CASE f = "insights"
  <2>1. O!Held' \subseteq Noticed
    BY <1>3, <1>5, <1>6, <1>8 DEF RoomsInv, RoomFile, O!Held, O!Empty
  <2>2. thread' = [O!Disturbed("insights") EXCEPT ![t] = th]
    BY <1>4, <1>8
  <2>3. th.op \in {"orchestrate", "fill"} /\ th.found \subseteq Noticed
    BY <1>4, <1>8
  <2> QED
    BY <1>5, <1>7, <2>1, <2>2, <2>3, RoomsAreDisturbed
<1>9. CASE f # "insights"
  <2>1. O!Held' = O!Held
    BY <1>5, <1>9 DEF RoomsInv, RoomFile, O!Held
  <2>2. thread' = [thread EXCEPT ![t] = th]
    BY <1>4, <1>9, Zenon DEF O!Disturbed
  <2>3. O!SeriousInsightsReachReview'
    BY <1>5 DEF RoomsInv, O!SeriousInsightsReachReview
  <2>4. th.op # "discuss" /\ (th.op \in {"orchestrate", "fill"} => th.found \subseteq Noticed)
    BY <1>4
  <2> QED
    BY <1>7, <2>1, <2>2, <2>3, <2>4, RoomsGoOn
<1> QED
  BY <1>8, <1>9

LEMMA RoomsSave ==
    ASSUME RoomsInv, NEW t \in Thread, O!SaveSession(t)
    PROVE  RoomsInv'
<1>1. PICK c : c = thread[t]
  OBVIOUS
<1>2. PICK th : th = O!Orchestrating("orchestrate", "latest", c.id, c.found)
  OBVIOUS
<1>3. c.op = "orchestrate" /\ thread' = [thread EXCEPT ![t] = th] /\ file' = file /\ runs' = runs
  BY <1>1, <1>2, Zenon DEF O!SaveSession, O!Goto
<1>4. th.op = "orchestrate" /\ th.found \subseteq Noticed
  BY <1>1, <1>2, <1>3, OrchestratingIs DEF RoomsInv
<1>5. O!Held' = O!Held /\ O!SeriousInsightsReachReview' /\ file' = [f \in RoomFile |-> file'[f]]
  BY <1>3 DEF O!Held, O!SeriousInsightsReachReview, RoomsInv
<1> QED
  BY <1>3, <1>4, <1>5, RoomsGoOn

\* What is serious is relevant to any question.
LEMMA SeriousIsRelevant ==
    ASSUME NEW q, NEW x \in O!Held, O!O!Serious(x)
    PROVE  x \in O!O!Relevant(q, O!Held)
BY DEF O!O!Relevant

LEMMA ContextHasTheSerious ==
    ASSUME RoomsInv, NEW q
    PROVE  LET context == O!Context(q) IN
           /\ context.relevant \subseteq Names
           /\ ~context.bare => \A id \in context.serious :
                 id \in context.relevant /\ \E x \in O!Held : x.id = id /\ O!O!Serious(x)
<1> DEFINE relevant == {i.id : i \in O!O!Relevant(q, O!Held)}
           serious == {i.id : i \in {x \in O!Held : O!O!Serious(x)}}
<1>1. PICK bare \in BOOLEAN : bare = (~O!Readable("ontology") \/ ~O!Readable("insights"))
  OBVIOUS
<1>2. PICK context : context = O!Context(q)
  OBVIOUS
<1>3. /\ context.bare = bare
      /\ context.relevant = IF bare THEN {} ELSE relevant
      /\ context.serious = IF bare THEN {} ELSE serious
  BY <1>1, <1>2 DEF O!Context
<1>4. relevant \subseteq Names
  BY DEF O!O!Relevant, Names, RoomsInv
<1>5. \A id \in serious : id \in relevant /\ \E x \in O!Held : x.id = id /\ O!O!Serious(x)
  BY SeriousIsRelevant
<1> HIDE DEF relevant, serious
<1> QED
  BY <1>2, <1>3, <1>4, <1>5

LEMMA RoomsBuildContext ==
    ASSUME RoomsInv, NEW t \in Thread, O!BuildContext(t)
    PROVE  RoomsInv'
<1>1. PICK c : c = thread[t]
  OBVIOUS
<1>2. PICK context : context = O!Context(c.q)
  OBVIOUS
<1>3. PICK th : th = O!Discussing("roles", c.q, context, <<>>, c.calm)
  OBVIOUS
<1>4. thread' = [thread EXCEPT ![t] = th] /\ file' = file /\ runs' = runs
  BY <1>1, <1>2, <1>3, Zenon DEF O!BuildContext, O!Goto
<1>5. /\ th.op = "discuss" /\ th.context = context /\ th.cited = <<>>
  BY <1>3, DiscussingIs
<1>6. /\ context.relevant \subseteq Names
      /\ ~context.bare => \A id \in context.serious :
            id \in context.relevant /\ \E x \in O!Held : x.id = id /\ O!O!Serious(x)
  BY <1>2, ContextHasTheSerious
<1>7. Attends(th, O!Held)
  BY <1>5, <1>6 DEF Attends
<1>8. O!Held' = O!Held /\ O!SeriousInsightsReachReview' /\ file' = [f \in RoomFile |-> file'[f]]
  BY <1>4 DEF O!Held, O!SeriousInsightsReachReview, RoomsInv
<1> QED
  BY <1>4, <1>5, <1>7, <1>8, RoomsGoOn

\* A role cites all that is in the context.
LEMMA RoomsSpeak ==
    ASSUME RoomsInv, NEW t \in Thread, O!Speak(t)
    PROVE  RoomsInv'
<1>1. PICK c : c = thread[t]
  OBVIOUS
<1>2. PICK insights : insights = IF O!Readable("insights") THEN O!Held ELSE O!Empty
  OBVIOUS
<1>3. PICK said : said = O!Cited(c, insights)
  OBVIOUS
<1>4. PICK th : th = O!Discussing("roles", c.q, c.context, Append(c.cited, said), c.calm)
  OBVIOUS
<1>5. /\ thread' = [thread EXCEPT ![t] = th] /\ file' = file /\ runs' = runs
      /\ c.op = "discuss" /\ c.step = "roles"
  BY <1>1, <1>2, <1>3, <1>4, Zenon DEF O!Speak, O!Goto, O!At
<1>6. Attends(c, O!Held)
  BY <1>1, <1>5 DEF RoomsInv
<1>7. insights \subseteq Noticed
  BY <1>2 DEF RoomsInv, O!Empty
<1>8. said \in SUBSET Names /\ c.context.relevant \subseteq said
  BY <1>3, <1>5, <1>6, <1>7 DEF O!Cited, Attends, Names
<1>9. /\ th.op = "discuss" /\ th.context = c.context /\ th.cited = Append(c.cited, said) /\ th.calm = c.calm
  BY <1>4 DEF O!Discussing
<1>10. PICK before : before = c.cited
  OBVIOUS
<1>11. before \in Seq(SUBSET Names) /\ \A n \in 1..Len(before) : c.context.relevant \subseteq before[n]
  BY <1>5, <1>6, <1>10 DEF Attends
<1>12. PICK cited : cited = Append(before, said)
  OBVIOUS
<1>13. cited \in Seq(SUBSET Names) /\ \A n \in 1..Len(cited) : c.context.relevant \subseteq cited[n]
  BY <1>8, <1>11, <1>12
<1>14. Attends(th, O!Held)
  BY <1>5, <1>6, <1>9, <1>10, <1>12, <1>13 DEF Attends
<1>15. O!Held' = O!Held /\ O!SeriousInsightsReachReview' /\ file' = [f \in RoomFile |-> file'[f]]
  BY <1>5 DEF O!Held, O!SeriousInsightsReachReview, RoomsInv
<1> QED
  BY <1>5, <1>9, <1>14, <1>15, RoomsGoOn

\* The judge looks at the insights that were there all along.
LEMMA RoomsJudge ==
    ASSUME RoomsInv, NEW t \in Thread, O!Judge(t)
    PROVE  RoomsInv'
<1>1. PICK c : c = thread[t]
  OBVIOUS
<1>2. PICK r : r = O!Report(c)
  OBVIOUS
<1>3. /\ thread' = [thread EXCEPT ![t] = O!Idle] /\ file' = file /\ runs' \subseteq runs \cup {r}
      /\ c.op = "discuss" /\ c.step = "roles" /\ Len(c.cited) = Len(c.context.roles)
  BY <1>1, <1>2 DEF O!Judge, O!Goto, O!At
<1>4. Attends(c, O!Held)
  BY <1>1, <1>3 DEF RoomsInv
<1>5. PICK calm \in BOOLEAN : calm = (c.calm /\ ~c.context.bare)
  OBVIOUS
<1>6. PICK flagged : flagged = O!Flagged(c.cited, O!Held)
  OBVIOUS
<1>7. /\ r.roles = c.context.roles /\ r.serious = c.context.serious /\ r.calm = calm
      /\ r.flagged = {<<f[1], f[2].id>> : f \in flagged}
  BY <1>2, <1>5, <1>6 DEF O!Report
<1>8. ASSUME calm, NEW n \in 1..Len(r.roles), NEW id \in r.serious
      PROVE  <<n, id>> \in r.flagged
  <2>1. PICK x \in O!Held : x.id = id /\ O!O!Serious(x) /\ id \in c.context.relevant
    BY <1>3, <1>4, <1>5, <1>7, <1>8 DEF Attends
  <2>2. n \in DOMAIN c.cited /\ id \in c.cited[n]
    BY <1>3, <1>4, <1>7, <1>8, <2>1 DEF Attends
  <2>3. PICK f : f = <<n, x>>
    OBVIOUS
  <2>4. f \in flagged
    BY <1>6, <2>1, <2>2, <2>3 DEF O!Flagged
  <2> QED
    BY <1>7, <2>1, <2>3, <2>4
<1>9. O!SeriousInsightsReachReview'
  BY <1>3, <1>7, <1>8 DEF RoomsInv, O!SeriousInsightsReachReview
<1>10. O!Held' = O!Held /\ file' = [f \in RoomFile |-> file'[f]]
  BY <1>3 DEF O!Held, RoomsInv
<1>11. O!Idle.op = "-"
  BY OrchestratingIs DEF O!Idle
<1> QED
  BY <1>3, <1>9, <1>10, <1>11, RoomsGoOn

LEMMA RoomsStep == RoomsInv /\ [O!Next]_(O!vars) => RoomsInv'
<1> SUFFICES ASSUME RoomsInv, [O!Next]_(O!vars) PROVE RoomsInv'
  OBVIOUS
<1>1. CASE UNCHANGED O!vars
  BY <1>1 DEF O!vars, RoomsInv, Attends, O!Held, O!SeriousInsightsReachReview
<1>2. CASE O!Crash
  <2>1. file' = file /\ runs' = runs /\ thread' = [t \in Thread |-> O!Idle]
    BY <1>2 DEF O!Crash
  <2>2. O!Idle.op = "-"
    BY OrchestratingIs DEF O!Idle
  <2>3. O!Held' = O!Held /\ O!SeriousInsightsReachReview'
    BY <2>1 DEF RoomsInv, O!Held, O!SeriousInsightsReachReview
  <2> QED
    BY <2>1, <2>2, <2>3 DEF RoomsInv
<1>3. ASSUME NEW t \in Thread,
             \/ O!Orchestrate(t) \/ O!Truncate(t) \/ O!Fill(t) \/ O!SaveSession(t)
             \/ O!Discuss(t) \/ O!BuildContext(t) \/ O!Speak(t) \/ O!Judge(t)
      PROVE  RoomsInv'
  BY <1>3, RoomsBegin, RoomsWrite, RoomsSave, RoomsBuildContext, RoomsSpeak, RoomsJudge
<1> QED
  BY <1>1, <1>2, <1>3 DEF O!Next

LEMMA RoomsAmongDesks ==
    /\ Init => (desk = "rooms" => RoomsInv)
    /\ (desk = "rooms" => RoomsInv) /\ [Next]_vars => (desk = "rooms" => RoomsInv)'
<1>1. Init /\ desk = "rooms" => O!Init
  BY DEF Init, InitReviews, InitSources, InitConnectors, InitWorkflows, InitRegistries,
         InitGraph, InitClaims, InitRooms, InitStore, InitRules
<1>2. [Next]_vars => desk' = desk /\ (desk = "rooms" => [O!Next]_(O!vars))
  BY DEF Next, NextReviews, NextSources, NextConnectors, NextWorkflows, NextRegistries, NextGraph,
         NextClaims, NextRooms, NextStore, vars, shared, ofWorkflows, ofGraph, O!vars
<1> QED
  BY <1>1, <1>2, RoomsStart, RoomsStep

\* Every serious insight on file is flagged for human review in what each role of a recorded war
\* room wrote, if the insights were readable at its start and none was written during it.
THEOREM WarRoomsFlagTheSerious == Spec => []SeriousInsightsReachReview
<1>1. RoomsInv => O!SeriousInsightsReachReview
  BY DEF RoomsInv
<1> QED
  BY <1>1, RoomsAmongDesks, PTL DEF Spec, SeriousInsightsReachReview
=============================================================================
