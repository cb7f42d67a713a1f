------------------------ MODULE ExecutionStreamProofs ------------------------
(***************************************************************************)
(* A connection that is alone with an execution yields what the execution    *)
(* emits, for any number of executions, connections and events.              *)
(***************************************************************************)
EXTENDS ExecutionStream, SequenceTheorems, TLAPS

-----------------------------------------------------------------------------
(* The invariant.                                                           *)

Event == {"started", "node", "workflow_completed", "paused", "workflow_failed",
          "resumed", "rejected"}
Connection == [pc : {"waiting", "sending", "left"}, exec : Exec, queue : Watcher,
               event : Event \cup {"none", "heartbeat"}]

TypeOK ==
    /\ emitted \in [Exec -> Seq(Event)]
    /\ queueOf \in [Exec -> Watcher \cup {None}]
    /\ queue \in [Watcher -> Seq(Event)]
    /\ watch \in [Watcher -> Connection \cup {New, Closed}]
    /\ got \in [Watcher -> Seq(Event)] /\ since \in [Watcher -> Nat]

\* A queue belongs to the execution its maker watches, or watched.
Belongs(u, e) == ~At(u, "new") /\ \A f \in Exec : On(u, f) => f = e

\* The table, and the connections, hold queues of the execution.
QueuesBelong ==
    /\ \A e \in Exec : queueOf[e] # None => Belongs(queueOf[e], e)
    /\ \A w \in Watcher : ~At(w, "new") /\ ~At(w, "closed") => Belongs(watch[w].queue, watch[w].exec)

\* Of an execution that is not shared at most one connection knows, which made its queue;
\* without one there is no queue, so that nothing waits for the next.
OneWatches ==
    \A e \in Exec \ shared :
        /\ \A v, w \in Watcher : On(v, e) /\ On(w, e) => v = w
        /\ \A w \in Watcher : On(w, e) => queueOf[e] = w /\ watch[w].queue = w
        /\ queueOf[e] # None => On(queueOf[e], e)

\* A connection begins with nothing.
BeginsEmpty == \A w \in Watcher : At(w, "new") => queue[w] = <<>> /\ got[w] = <<>>

\* An event that is being sent is one.
SendsEvents == \A w \in Watcher : At(w, "sending") => watch[w].event # "none"

\* It connected before what it is owed.
ConnectedBefore ==
    \A w \in Watcher : ~At(w, "new") /\ ~At(w, "closed") => since[w] <= Len(emitted[watch[w].exec])

StreamInv ==
    TypeOK /\ QueuesBelong /\ OneWatches /\ BeginsEmpty /\ SendsEvents /\ ConnectedBefore /\ YieldsEvents

-----------------------------------------------------------------------------
(* Sequences.                                                               *)

\* What is emitted comes behind what was emitted since.
LEMMA EmittedSince ==
  ASSUME NEW S, NEW s \in Seq(S), NEW t \in Seq(S), NEW k \in Nat, k <= Len(s)
  PROVE  SubSeq(s \o t, k + 1, Len(s \o t)) = SubSeq(s, k + 1, Len(s)) \o t
<1>1. /\ s \o t \in Seq(S) /\ Len(s \o t) = Len(s) + Len(t)
      /\ \A i \in 1..Len(s) + Len(t) : (s \o t)[i] = IF i <= Len(s) THEN s[i] ELSE t[i - Len(s)]
  BY ConcatProperties
<1>2. Len(s) \in Nat /\ Len(t) \in Nat
  BY LenProperties
<1>3. \A i \in 1..Len(s) : s[i] \in S
  BY ElementOfSeq
<1>4. \A i \in 1..Len(s \o t) : (s \o t)[i] \in S
  BY <1>1, ElementOfSeq
<1> DEFINE u == SubSeq(s, k + 1, Len(s))
           v == SubSeq(s \o t, k + 1, Len(s \o t))
<1>5. u \in Seq(S) /\ Len(u) = Len(s) - k /\ \A i \in 1..Len(s) - k : u[i] = s[k + i]
  <2>1. \A i \in (k + 1)..Len(s) : s[i] \in S
    BY <1>2, <1>3
  <2> QED
    BY <1>2, <2>1, SubSeqProperties
<1>6. v \in Seq(S) /\ Len(v) = Len(s) + Len(t) - k /\ \A i \in 1..Len(s) + Len(t) - k : v[i] = (s \o t)[k + i]
  <2>1. \A i \in (k + 1)..Len(s \o t) : (s \o t)[i] \in S
    BY <1>1, <1>2, <1>4
  <2>2. k + 1 \in Int /\ Len(s \o t) \in Int
    BY <1>1, <1>2
  <2>3. /\ v \in Seq(S)
        /\ Len(v) = IF k + 1 <= Len(s \o t) THEN Len(s \o t) - (k + 1) + 1 ELSE 0
        /\ \A i \in 1..Len(s \o t) - (k + 1) + 1 : v[i] = (s \o t)[k + 1 + i - 1]
    BY <2>1, <2>2, SubSeqProperties
  <2>4. Len(s \o t) - (k + 1) + 1 = Len(s) + Len(t) - k
    BY <1>1, <1>2
  <2>5. Len(v) = Len(s) + Len(t) - k
    BY <1>1, <1>2, <2>3
  <2>6. \A i \in 1..Len(s) + Len(t) - k : k + 1 + i - 1 = k + i
    BY <1>2
  <2> QED
    BY <2>3, <2>4, <2>5, <2>6
<1> HIDE DEF u, v
<1>7. /\ u \o t \in Seq(S) /\ Len(u \o t) = Len(u) + Len(t)
      /\ \A i \in 1..Len(u) + Len(t) : (u \o t)[i] = IF i <= Len(u) THEN u[i] ELSE t[i - Len(u)]
  BY <1>5, ConcatProperties
<1>8. \A i \in 1..Len(v) : v[i] = (u \o t)[i]
  BY <1>1, <1>2, <1>5, <1>6, <1>7
<1>9. Len(v) = Len(u \o t)
  BY <1>2, <1>5, <1>6, <1>7
<1>10. v = u \o t
  BY <1>6, <1>7, <1>8, <1>9, SeqEqual
<1> QED
  BY <1>10 DEF u, v

\* An event taken from a queue stands before what is left of it.
LEMMA TakenFirst ==
  ASSUME NEW S, NEW q \in Seq(S), q # <<>>
  PROVE  Head(q) \in S /\ Tail(q) \in Seq(S) /\ <<Head(q)>> \o Tail(q) = q
  BY HeadTailProperties

-----------------------------------------------------------------------------
(* What an execution emits.                                                 *)

\* Where a connection is, and what it is sending.
LEMMA Connected ==
  ASSUME StreamInv, NEW w \in Watcher
  PROVE  /\ ~At(w, "new") /\ ~At(w, "closed") => watch[w] \in Connection
         /\ \A e \in Exec : On(w, e) => watch[w] \in Connection
         /\ InFlight(w) \in Seq(Event)
<1>1. watch[w] \in Connection \cup {New, Closed}
  BY DEF StreamInv, TypeOK
<1>2. ~At(w, "new") /\ ~At(w, "closed") => watch[w] \in Connection
  BY <1>1 DEF At, New, Closed
<1>3. InFlight(w) \in Seq(Event)
  <2>1. CASE At(w, "sending") /\ watch[w].event # "heartbeat"
    <3>1. watch[w].event \in Event
      BY <1>2, <2>1 DEF At, StreamInv, SendsEvents, Connection
    <3> QED
      BY <2>1, <3>1 DEF InFlight
  <2>2. CASE ~(At(w, "sending") /\ watch[w].event # "heartbeat")
    BY <2>2 DEF InFlight
  <2> QED
    BY <2>1, <2>2
<1> QED
  BY <1>2, <1>3 DEF On

\* A connection that is alone with its execution reads the execution's queue, its own, and
\* no other execution writes there.
LEMMA OwnQueue ==
  ASSUME StreamInv, NEW w \in Watcher, At(w, "waiting") \/ At(w, "sending"),
         watch[w].exec \notin shared
  PROVE  /\ watch[w] \in Connection /\ On(w, watch[w].exec)
         /\ watch[w].queue = w /\ queueOf[watch[w].exec] = w
         /\ \A e \in Exec : queueOf[e] = w => e = watch[w].exec
<1>1. watch[w] \in Connection /\ watch[w].exec \in Exec /\ On(w, watch[w].exec)
  BY Connected DEF At, On, Connection
<1>2. watch[w].queue = w /\ queueOf[watch[w].exec] = w
  BY <1>1 DEF StreamInv, OneWatches
<1>3. \A e \in Exec : queueOf[e] = w => e = watch[w].exec
  BY <1>1, StreamAssumption DEF StreamInv, QueuesBelong, Belongs, StreamAssumption
<1> QED
  BY <1>1, <1>2, <1>3

\* Whatever an execution emits, its own connection will be sent and no other will.
LEMMA EmitKeeps ==
  ASSUME StreamInv, NEW e \in Exec, NEW events \in Seq(Event), Emit(e, events)
  PROVE  StreamInv'
<1>1. /\ UNCHANGED <<queueOf, watch, got, since, shared>>
      /\ emitted' = [emitted EXCEPT ![e] = emitted[e] \o events]
  BY DEF Emit, client
<1>2. emitted \in [Exec -> Seq(Event)] /\ queue \in [Watcher -> Seq(Event)]
  BY DEF StreamInv, TypeOK
<1>3. \A f \in Exec : /\ emitted'[f] = IF f = e THEN emitted[e] \o events ELSE emitted[f]
                      /\ emitted[f] \in Seq(Event) /\ Len(emitted[f]) \in Nat
                      /\ emitted'[f] \in Seq(Event) /\ Len(emitted'[f]) \in Nat
                      /\ Len(emitted[f]) <= Len(emitted'[f])
  <2>1. emitted[e] \o events \in Seq(Event) /\ Len(emitted[e] \o events) = Len(emitted[e]) + Len(events)
    BY <1>2, ConcatProperties
  <2> QED
    BY <1>1, <1>2, <2>1, LenProperties
<1>4. \A u \in Watcher : /\ queue'[u] = IF u = queueOf[e] THEN queue[u] \o events ELSE queue[u]
                         /\ queue[u] \in Seq(Event) /\ queue'[u] \in Seq(Event)
  <2>1. \A u \in Watcher : queue[u] \in Seq(Event) /\ queue[u] \o events \in Seq(Event)
    BY <1>2, ConcatProperties
  <2>2. CASE queueOf[e] = None
    BY <2>1, <2>2, StreamAssumption DEF Emit, StreamAssumption
  <2>3. CASE queueOf[e] # None
    <3>1. queueOf[e] \in Watcher /\ queue' = [queue EXCEPT ![queueOf[e]] = queue[queueOf[e]] \o events]
      BY <2>3 DEF Emit, StreamInv, TypeOK
    <3> QED
      BY <1>2, <2>1, <3>1
  <2> QED
    BY <2>2, <2>3
<1>5. TypeOK'
  <2>1. emitted' \in [Exec -> Seq(Event)]
    BY <1>1, <1>2, <1>3
  <2>2. queue' \in [Watcher -> Seq(Event)]
    <3>1. DOMAIN queue' = Watcher /\ queue' = [u \in DOMAIN queue' |-> queue'[u]]
      BY <1>2 DEF Emit
    <3> QED
      BY <1>4, <3>1
  <2> QED
    BY <1>1, <2>1, <2>2 DEF StreamInv, TypeOK
<1>6. QueuesBelong' /\ OneWatches' /\ SendsEvents'
  BY <1>1 DEF StreamInv, QueuesBelong, OneWatches, SendsEvents, Belongs, On, At
<1>7. BeginsEmpty'
  <2>1. \A w \in Watcher : At(w, "new") => queueOf[e] # w
    BY StreamAssumption DEF StreamInv, QueuesBelong, Belongs, StreamAssumption
  <2> QED
    BY <1>1, <1>4, <2>1 DEF StreamInv, BeginsEmpty, At
<1>8. ConnectedBefore'
  <2> SUFFICES ASSUME NEW w \in Watcher, ~At(w, "new") /\ ~At(w, "closed")
               PROVE  since[w] <= Len(emitted'[watch[w].exec])
    BY <1>1 DEF ConnectedBefore, At
  <2>1. watch[w].exec \in Exec /\ since[w] \in Nat
    BY Connected DEF Connection, StreamInv, TypeOK
  <2>2. since[w] <= Len(emitted[watch[w].exec])
    BY DEF StreamInv, ConnectedBefore
  <2> QED
    BY <1>3, <2>1, <2>2
<1>9. YieldsEvents'
  <2> SUFFICES ASSUME NEW w \in Watcher, At(w, "waiting") \/ At(w, "sending"), watch[w].exec \notin shared
               PROVE  SubSeq(emitted'[watch[w].exec], since[w] + 1, Len(emitted'[watch[w].exec]))
                        = got[w] \o InFlight(w) \o queue'[watch[w].queue]
    BY <1>1 DEF YieldsEvents, At, InFlight
  <2> DEFINE f == watch[w].exec
  <2>1. f \in Exec /\ watch[w].queue = w /\ queueOf[f] = w /\ \A g \in Exec : queueOf[g] = w => g = f
    BY OwnQueue DEF Connection
  <2>2. SubSeq(emitted[f], since[w] + 1, Len(emitted[f])) = got[w] \o InFlight(w) \o queue[w]
    BY <2>1 DEF StreamInv, YieldsEvents
  <2>3. CASE f # e
    BY <1>3, <1>4, <2>1, <2>2, <2>3
  <2>4. CASE f = e
    <3>1. emitted[e] \in Seq(Event) /\ since[w] \in Nat /\ since[w] <= Len(emitted[e])
      BY <1>2, <2>4 DEF StreamInv, TypeOK, ConnectedBefore, At
    <3>2. SubSeq(emitted[e] \o events, since[w] + 1, Len(emitted[e] \o events))
            = SubSeq(emitted[e], since[w] + 1, Len(emitted[e])) \o events
      BY <3>1, EmittedSince
    <3>3. got[w] \o InFlight(w) \in Seq(Event)
      <4>1. got[w] \in Seq(Event) /\ InFlight(w) \in Seq(Event)
        BY Connected DEF StreamInv, TypeOK
      <4> QED
        BY <4>1, ConcatProperties
    <3>4. got[w] \o InFlight(w) \o queue[w] \o events = got[w] \o InFlight(w) \o (queue[w] \o events)
      <4>1. \A x, y \in Seq(Event) : (x \o y) \o events = x \o (y \o events)
        BY ConcatAssociative
      <4> QED
        BY <1>4, <3>3, <4>1
    <3>5. emitted'[f] = emitted[e] \o events /\ queue'[w] = queue[w] \o events
      BY <1>3, <1>4, <2>1, <2>4
    <3> QED
      BY <2>1, <2>2, <2>4, <3>2, <3>4, <3>5
  <2> QED
    BY <2>3, <2>4
<1> QED
  BY <1>5, <1>6, <1>7, <1>8, <1>9 DEF StreamInv

\* Every step of an execution emits events.
LEMMA RunsEmit ==
  ASSUME NEW e \in Exec, Runs(e)
  PROVE  \E events \in Seq(Event) : Emit(e, events)
<1>1. /\ <<>> \in Seq(Event) /\ <<"started">> \in Seq(Event) /\ <<"node">> \in Seq(Event)
      /\ <<"workflow_completed">> \in Seq(Event) /\ <<"paused", "workflow_completed">> \in Seq(Event)
      /\ <<"paused">> \in Seq(Event) /\ <<"workflow_failed">> \in Seq(Event)
      /\ <<"resumed">> \in Seq(Event) /\ <<"rejected">> \in Seq(Event)
  BY DEF Event
<1> QED
  BY <1>1 DEF Runs, Start, NodeEvent, Complete, Pause, PauseAgain, Fail, Resume, Reject, FinishResumed

-----------------------------------------------------------------------------
(* What the connections do.                                                 *)

\* A connection that is alone makes a queue, which is empty, or it shares the execution.
LEMMA ConnectKeeps ==
  ASSUME StreamInv, NEW w \in Watcher, NEW e \in Exec, Connect(w, e)
  PROVE  StreamInv'
<1>1. /\ At(w, "new") /\ UNCHANGED <<emitted, queue, got>>
      /\ queueOf' = [queueOf EXCEPT ![e] = IF queueOf[e] = None THEN w ELSE queueOf[e]]
      /\ since' = [since EXCEPT ![w] = Len(emitted[e])]
      /\ shared' = shared \cup (IF \E v \in Watcher : On(v, e) THEN {e} ELSE {})
  BY DEF Connect, engine
<1>2. PICK c : /\ c = [pc |-> "waiting", exec |-> e, queue |-> queueOf'[e], event |-> "none"]
               /\ watch' = [watch EXCEPT ![w] = c]
  BY DEF Connect
<1>3. queueOf' \in [Exec -> Watcher \cup {None}] /\ queueOf'[e] \in Watcher
  BY <1>1 DEF StreamInv, TypeOK
<1>4. c \in Connection
  BY <1>2, <1>3 DEF Connection
<1>5. c.pc = "waiting" /\ c.exec = e /\ c.queue = queueOf'[e]
  BY <1>2
<1>6. watch'[w] = c /\ \A v \in Watcher \ {w} : watch'[v] = watch[v]
  BY <1>2 DEF StreamInv, TypeOK
<1>7. TypeOK'
  <2>1. Len(emitted[e]) \in Nat
    BY LenProperties DEF StreamInv, TypeOK
  <2>2. since' \in [Watcher -> Nat] /\ watch' \in [Watcher -> Connection \cup {New, Closed}]
    BY <1>1, <1>2, <1>4, <2>1 DEF StreamInv, TypeOK
  <2> QED
    BY <1>1, <1>3, <2>2 DEF StreamInv, TypeOK
<1>8. /\ \A f \in Exec : On(w, f)' <=> f = e
      /\ \A v \in Watcher \ {w}, f \in Exec : On(v, f)' <=> On(v, f)
      /\ \A f \in Exec : ~On(w, f)
      /\ ~At(w, "new")' /\ \A v \in Watcher \ {w} : At(v, "new")' <=> At(v, "new")
  BY <1>1, <1>5, <1>6 DEF On, At
<1> DEFINE Kept(u, f) == /\ watch'[u].pc # "new"
                         /\ watch'[u].pc # "closed" => \A g \in Exec : watch'[u].exec = g => g = f
<1>9. \A u \in Watcher, f \in Exec : Belongs(u, f) => Kept(u, f)
  BY <1>1, <1>6 DEF Belongs, At, On
<1>10. Kept(w, e)
  BY <1>5, <1>6
<1> HIDE DEF Kept
<1>11. QueuesBelong'
  <2>1. \A f \in Exec : queueOf'[f] # None => Kept(queueOf'[f], f)
    <3> SUFFICES ASSUME NEW f \in Exec, queueOf'[f] # None PROVE Kept(queueOf'[f], f)
      OBVIOUS
    <3>1. CASE f = e /\ queueOf[e] = None
      BY <1>1, <1>10, <3>1 DEF StreamInv, TypeOK
    <3>2. CASE ~(f = e /\ queueOf[e] = None)
      <4>1. queueOf'[f] = queueOf[f] /\ queueOf[f] \in Watcher /\ queueOf[f] # None
        BY <1>1, <3>2 DEF StreamInv, TypeOK
      <4>2. Belongs(queueOf[f], f)
        BY <4>1 DEF StreamInv, QueuesBelong
      <4>3. Kept(queueOf[f], f)
        BY <1>9, <4>1, <4>2
      <4> QED
        BY <4>1, <4>3
    <3> QED
      BY <3>1, <3>2
  <2>2. \A v \in Watcher : (~At(v, "new") /\ ~At(v, "closed"))' => Kept(watch'[v].queue, watch'[v].exec)
    <3> SUFFICES ASSUME NEW v \in Watcher, (~At(v, "new") /\ ~At(v, "closed"))'
                 PROVE  Kept(watch'[v].queue, watch'[v].exec)
      OBVIOUS
    <3>1. CASE v = w
      <4>1. watch'[v].queue = queueOf'[e] /\ watch'[v].exec = e /\ queueOf'[e] # None
        BY <1>3, <1>5, <1>6, <3>1, StreamAssumption DEF StreamAssumption
      <4>2. Kept(queueOf'[e], e)
        BY <2>1, <4>1
      <4> QED
        BY <4>1, <4>2
    <3>2. CASE v # w
      <4>1. watch'[v] = watch[v] /\ ~At(v, "new") /\ ~At(v, "closed")
        BY <1>6, <3>2 DEF At
      <4>2. watch[v].queue \in Watcher /\ watch[v].exec \in Exec
        BY <4>1, Connected DEF Connection
      <4>3. Belongs(watch[v].queue, watch[v].exec)
        BY <4>1 DEF StreamInv, QueuesBelong
      <4>4. Kept(watch[v].queue, watch[v].exec)
        BY <1>9, <4>2, <4>3
      <4> QED
        BY <4>1, <4>4
    <3> QED
      BY <3>1, <3>2
  <2> QED
    BY <2>1, <2>2, Zenon DEF QueuesBelong, Belongs, At, On, Kept
<1>12. ASSUME e \notin shared' PROVE queueOf'[e] = w /\ e \notin shared /\ \A v \in Watcher : ~On(v, e)
  <2>1. e \notin shared /\ \A v \in Watcher : ~On(v, e)
    BY <1>1, <1>12
  <2>2. queueOf[e] = None
    BY <2>1 DEF StreamInv, TypeOK, OneWatches
  <2> QED
    BY <1>1, <2>1, <2>2 DEF StreamInv, TypeOK
<1>13. OneWatches'
  <2> SUFFICES ASSUME NEW f \in Exec, f \notin shared'
               PROVE  /\ \A u, v \in Watcher : On(u, f)' /\ On(v, f)' => u = v
                      /\ \A v \in Watcher : On(v, f)' => queueOf'[f] = v /\ watch'[v].queue = v
                      /\ queueOf'[f] # None => On(queueOf[f], f)'
    BY DEF OneWatches, On, At
  <2>1. CASE f = e
    <3>1. queueOf'[e] = w /\ \A v \in Watcher : On(v, e)' => v = w
      BY <1>8, <1>12, <2>1
    <3>2. watch'[w].queue = w /\ On(queueOf[e], e)'
      BY <1>5, <1>6, <1>8, <3>1 DEF On, At
    <3> QED
      BY <2>1, <3>1, <3>2
  <2>2. CASE f # e
    <3>1. queueOf'[f] = queueOf[f] /\ f \notin shared /\ queueOf[f] \in Watcher \cup {None}
      BY <1>1, <2>2 DEF StreamInv, TypeOK
    <3>2. queueOf[f] # None => queueOf[f] # w
      BY <1>8, <3>1 DEF StreamInv, OneWatches
    <3>3. \A v \in Watcher : On(v, f)' => On(v, f) /\ v # w
      BY <1>8, <2>2
    <3>4. /\ \A u, v \in Watcher : On(u, f) /\ On(v, f) => u = v
          /\ \A v \in Watcher : On(v, f) => queueOf[f] = v /\ watch[v].queue = v
          /\ queueOf[f] # None => On(queueOf[f], f)
      BY <3>1 DEF StreamInv, OneWatches
    <3>5. queueOf'[f] # None => On(queueOf[f], f)'
      BY <1>6, <3>1, <3>2, <3>4 DEF On, At
    <3> QED
      BY <1>6, <3>1, <3>3, <3>4, <3>5
  <2> QED
    BY <2>1, <2>2
<1>14. BeginsEmpty' /\ SendsEvents'
  BY <1>1, <1>5, <1>6 DEF StreamInv, BeginsEmpty, SendsEvents, At
<1>15. ConnectedBefore'
  <2>1. Len(emitted[e]) \in Nat
    BY LenProperties DEF StreamInv, TypeOK
  <2> QED
    BY <1>1, <1>5, <1>6, <2>1 DEF StreamInv, TypeOK, ConnectedBefore, At
<1>16. YieldsEvents'
  <2> SUFFICES ASSUME NEW v \in Watcher, (At(v, "waiting") \/ At(v, "sending"))', watch'[v].exec \notin shared'
               PROVE  SubSeq(emitted[watch'[v].exec], since'[v] + 1, Len(emitted[watch'[v].exec]))
                        = got[v] \o InFlight(v)' \o queue[watch'[v].queue]
    BY <1>1 DEF YieldsEvents
  <2>1. CASE v = w
    <3>1. watch'[v].exec = e /\ watch'[v].queue = w /\ since'[v] = Len(emitted[e]) /\ InFlight(v)' = <<>>
      BY <1>1, <1>5, <1>6, <1>12, <2>1 DEF InFlight, At, StreamInv, TypeOK
    <3>2. got[v] = <<>> /\ queue[w] = <<>>
      BY <1>1, <2>1 DEF StreamInv, BeginsEmpty
    <3>3. SubSeq(emitted[e], Len(emitted[e]) + 1, Len(emitted[e])) = <<>>
      <4>1. Len(emitted[e]) \in Nat
        BY LenProperties DEF StreamInv, TypeOK
      <4> QED
        BY <4>1, SubSeqEmpty
    <3>4. <<>> \o <<>> \o <<>> = <<>>
      BY ConcatEmptySeq, EmptySeq
    <3> QED
      BY <3>1, <3>2, <3>3, <3>4
  <2>2. CASE v # w
    <3>1. watch'[v] = watch[v] /\ since'[v] = since[v] /\ watch[v].exec \notin shared
      BY <1>1, <1>6, <2>2 DEF StreamInv, TypeOK
    <3>2. InFlight(v)' = InFlight(v) /\ (At(v, "waiting") \/ At(v, "sending"))
      BY <3>1 DEF InFlight, At
    <3> QED
      BY <3>1, <3>2 DEF StreamInv, YieldsEvents
  <2> QED
    BY <2>1, <2>2
<1> QED
  BY <1>7, <1>11, <1>13, <1>14, <1>15, <1>16 DEF StreamInv

\* A connection that goes on watches what it watched.
LEMMA ProceedsOnItsOwn ==
  ASSUME StreamInv, NEW w \in Watcher, ~At(w, "new"), ~At(w, "closed"),
         NEW pc \in {"waiting", "sending", "left"}, NEW event \in Event \cup {"none", "heartbeat"},
         Proceed(w, pc, event), UNCHANGED <<emitted, queueOf, since, shared>>,
         queue' \in [Watcher -> Seq(Event)], got' \in [Watcher -> Seq(Event)],
         \A v \in Watcher : At(v, "new") => queue'[v] = queue[v] /\ got'[v] = got[v],
         pc = "sending" => event # "none"
  PROVE  /\ TypeOK' /\ QueuesBelong' /\ OneWatches' /\ BeginsEmpty' /\ SendsEvents' /\ ConnectedBefore'
         /\ \A v \in Watcher \ {w} : watch'[v] = watch[v]
         /\ At(w, pc)' /\ watch'[w].exec = watch[w].exec /\ watch'[w].queue = watch[w].queue
         /\ watch'[w].event = event
<1>1. watch[w] \in Connection
  BY Connected
<1>2. PICK c : /\ c = [pc |-> pc, exec |-> watch[w].exec, queue |-> watch[w].queue, event |-> event]
               /\ watch' = [watch EXCEPT ![w] = c]
  BY DEF Proceed
<1>3. /\ c \in Connection /\ c.pc = pc /\ c.exec = watch[w].exec /\ c.queue = watch[w].queue
      /\ c.event = event
  BY <1>1, <1>2 DEF Connection
<1>4. watch'[w] = c /\ \A v \in Watcher \ {w} : watch'[v] = watch[v]
  BY <1>2 DEF StreamInv, TypeOK
<1>5. TypeOK'
  <2>1. watch' \in [Watcher -> Connection \cup {New, Closed}]
    BY <1>2, <1>3 DEF StreamInv, TypeOK
  <2> QED
    BY <2>1 DEF StreamInv, TypeOK
<1>6. \A v \in Watcher : /\ watch'[v].pc = "new" <=> watch[v].pc = "new"
                         /\ watch'[v].pc = "closed" <=> watch[v].pc = "closed"
                         /\ watch[v].pc # "new" /\ watch[v].pc # "closed" =>
                               watch'[v].exec = watch[v].exec /\ watch'[v].queue = watch[v].queue
  BY <1>3, <1>4 DEF At
<1>7. QueuesBelong'
  <2> DEFINE Was(u, e) == watch[u].pc # "new" /\ (watch[u].pc # "closed" => \A f \in Exec : watch[u].exec = f => f = e)
             Is(u, e) == watch'[u].pc # "new" /\ (watch'[u].pc # "closed" => \A f \in Exec : watch'[u].exec = f => f = e)
  <2>1. \A u \in Watcher, e \in Exec : Was(u, e) => Is(u, e)
    BY <1>6
  <2>2. /\ \A e \in Exec : queueOf[e] \in Watcher \cup {None}
        /\ \A v \in Watcher : watch[v].pc # "new" /\ watch[v].pc # "closed" =>
              watch[v].queue \in Watcher /\ watch[v].exec \in Exec
    BY Connected DEF StreamInv, TypeOK, At, Connection
  <2>3. /\ \A e \in Exec : queueOf[e] # None => Was(queueOf[e], e)
        /\ \A v \in Watcher : watch[v].pc # "new" /\ watch[v].pc # "closed" => Was(watch[v].queue, watch[v].exec)
    BY DEF StreamInv, QueuesBelong, Belongs, On, At
  <2> HIDE DEF Was, Is
  <2>4. /\ \A e \in Exec : queueOf'[e] # None => Is(queueOf'[e], e)
        /\ \A v \in Watcher : watch'[v].pc # "new" /\ watch'[v].pc # "closed" => Is(watch'[v].queue, watch'[v].exec)
    BY <1>6, <2>1, <2>2, <2>3
  <2> QED
    BY <2>4, Zenon DEF QueuesBelong, Belongs, On, At, Is
<1>8. OneWatches'
  <2>1. \A v \in Watcher, e \in Exec : On(v, e)' <=> On(v, e)
    BY <1>6 DEF On, At
  <2>2. \A v \in Watcher, e \in Exec : On(v, e) => watch'[v].queue = watch[v].queue
    BY <1>6 DEF On, At
  <2>3. \A e \in Exec : queueOf[e] # None => (On(queueOf[e], e) => On(queueOf[e], e)')
    BY <2>1 DEF StreamInv, TypeOK
  <2> QED
    BY <2>1, <2>2, <2>3 DEF StreamInv, OneWatches
<1>9. BeginsEmpty' /\ ConnectedBefore'
  BY <1>6 DEF StreamInv, BeginsEmpty, ConnectedBefore, At
<1>10. SendsEvents'
  BY <1>3, <1>4 DEF StreamInv, SendsEvents, At
<1> QED
  BY <1>3, <1>4, <1>5, <1>7, <1>8, <1>9, <1>10 DEF At

\* The others of a step that changes the queue of one connection only are owed what they were.
LEMMA OthersAreOwed ==
  ASSUME StreamInv, NEW w \in Watcher, NEW v \in Watcher \ {w},
         ~At(w, "new"), ~At(w, "closed"),
         watch'[v] = watch[v], UNCHANGED <<emitted, since, shared>>, got'[v] = got[v],
         \A u \in Watcher : queue'[u] = queue[u] \/ u = watch[w].queue,
         (At(v, "waiting") \/ At(v, "sending"))', watch'[v].exec \notin shared'
  PROVE  SubSeq(emitted'[watch'[v].exec], since'[v] + 1, Len(emitted'[watch'[v].exec]))
            = got'[v] \o InFlight(v)' \o queue'[watch'[v].queue]
<1>1. (At(v, "waiting") \/ At(v, "sending")) /\ watch[v].exec \notin shared
  BY DEF At
<1>2. /\ watch[v] \in Connection /\ On(v, watch[v].exec) /\ watch[v].queue = v
  BY <1>1, OwnQueue
<1>3. watch[v].exec \in Exec
  BY <1>2 DEF Connection
<1>4. watch[w].queue # v
  <2> SUFFICES ASSUME watch[w].queue = v PROVE FALSE
    OBVIOUS
  <2>1. watch[w] \in Connection
    BY Connected
  <2>2. Belongs(v, watch[w].exec)
    BY DEF StreamInv, QueuesBelong
  <2>3. watch[w].exec = watch[v].exec
    BY <1>2, <1>3, <2>2 DEF Belongs
  <2>4. On(w, watch[v].exec)
    BY <2>3 DEF On
  <2> QED
    BY <1>1, <1>2, <1>3, <2>4 DEF StreamInv, OneWatches
<1>5. queue'[v] = queue[v] /\ InFlight(v)' = InFlight(v)
  BY <1>4 DEF InFlight, At
<1> QED
  BY <1>1, <1>2, <1>5 DEF StreamInv, YieldsEvents

\* An event taken is being sent; the connection got what it got.
LEMMA TakeKeeps ==
  ASSUME StreamInv, NEW w \in Watcher, Take(w)
  PROVE  StreamInv'
<1>1. /\ At(w, "waiting") /\ ~At(w, "new") /\ ~At(w, "closed")
      /\ UNCHANGED <<emitted, queueOf, got, since, shared>>
  BY DEF Take, At, engine
<1>2. watch[w] \in Connection
  BY <1>1, Connected
<1>3. PICK q \in Watcher : /\ q = watch[w].queue /\ queue[q] # <<>>
                           /\ Proceed(w, "sending", Head(queue[q]))
                           /\ queue' = [queue EXCEPT ![q] = Tail(queue[q])]
  BY <1>2 DEF Take, Connection
<1>4. /\ queue[q] \in Seq(Event) /\ Head(queue[q]) \in Event /\ Tail(queue[q]) \in Seq(Event)
      /\ <<Head(queue[q])>> \o Tail(queue[q]) = queue[q]
  BY <1>3, TakenFirst DEF StreamInv, TypeOK
<1>5. Head(queue[q]) # "none" /\ Head(queue[q]) # "heartbeat" /\ Head(queue[q]) \in Event \cup {"none", "heartbeat"}
  BY <1>4 DEF Event
<1>6. /\ queue' \in [Watcher -> Seq(Event)] /\ queue'[q] = Tail(queue[q])
      /\ \A u \in Watcher : queue'[u] = queue[u] \/ u = q
  BY <1>3, <1>4 DEF StreamInv, TypeOK
<1>7. \A v \in Watcher : At(v, "new") => v # q
  BY <1>1, <1>2, <1>3 DEF StreamInv, QueuesBelong, Belongs
<1>8. /\ TypeOK' /\ QueuesBelong' /\ OneWatches' /\ BeginsEmpty' /\ SendsEvents' /\ ConnectedBefore'
      /\ \A v \in Watcher \ {w} : watch'[v] = watch[v]
      /\ At(w, "sending")' /\ watch'[w].exec = watch[w].exec /\ watch'[w].queue = q
      /\ watch'[w].event = Head(queue[q])
  <2>1. got' \in [Watcher -> Seq(Event)] /\ \A v \in Watcher : At(v, "new") => queue'[v] = queue[v] /\ got'[v] = got[v]
    BY <1>1, <1>6, <1>7 DEF StreamInv, TypeOK
  <2> QED
    BY <1>1, <1>3, <1>5, <1>6, <2>1, ProceedsOnItsOwn
<1>9. YieldsEvents'
  <2> SUFFICES ASSUME NEW v \in Watcher, (At(v, "waiting") \/ At(v, "sending"))', watch'[v].exec \notin shared'
               PROVE  SubSeq(emitted'[watch'[v].exec], since'[v] + 1, Len(emitted'[watch'[v].exec]))
                        = got'[v] \o InFlight(v)' \o queue'[watch'[v].queue]
    BY DEF YieldsEvents
  <2>1. CASE v # w
    <3>1. /\ v \in Watcher \ {w} /\ watch'[v] = watch[v] /\ got'[v] = got[v]
          /\ \A u \in Watcher : queue'[u] = queue[u] \/ u = watch[w].queue
      BY <1>1, <1>3, <1>6, <1>8, <2>1
    <3> QED
      BY <1>1, <3>1, OthersAreOwed
  <2>2. CASE v = w
    <3>1. SubSeq(emitted[watch[w].exec], since[w] + 1, Len(emitted[watch[w].exec]))
            = got[w] \o InFlight(w) \o queue[q]
      BY <1>1, <1>3, <1>8, <2>2 DEF StreamInv, YieldsEvents
    <3>2. InFlight(w) = <<>> /\ InFlight(w)' = <<Head(queue[q])>>
      BY <1>1, <1>5, <1>8 DEF InFlight, At
    <3>3. got[w] \in Seq(Event) /\ got[w] \o <<>> = got[w]
      BY ConcatEmptySeq DEF StreamInv, TypeOK
    <3>4. \A x \in Event : <<x>> \in Seq(Event)
      OBVIOUS
    <3>5. \A x, y, z \in Seq(Event) : (x \o y) \o z = x \o (y \o z)
      BY ConcatAssociative
    <3>6. (got[w] \o <<Head(queue[q])>>) \o Tail(queue[q]) = got[w] \o queue[q]
      <4>1. <<Head(queue[q])>> \in Seq(Event)
        BY <1>4, <3>4
      <4>2. (got[w] \o <<Head(queue[q])>>) \o Tail(queue[q]) = got[w] \o (<<Head(queue[q])>> \o Tail(queue[q]))
        BY <1>4, <3>3, <3>5, <4>1, Zenon
      <4> QED
        BY <1>4, <4>2
    <3> QED
      BY <1>1, <1>6, <1>8, <2>2, <3>1, <3>2, <3>3, <3>6
  <2> QED
    BY <2>1, <2>2
<1> QED
  BY <1>8, <1>9 DEF StreamInv

\* A heartbeat, and a client that is gone, take nothing from anyone.
LEMMA BeatOrLostKeeps ==
  ASSUME StreamInv, NEW w \in Watcher, Beat(w) \/ Lost(w)
  PROVE  StreamInv'
<1>1. UNCHANGED <<emitted, queueOf, queue, got, since, shared>>
  BY DEF Beat, Lost, At, engine
<1>2. ~At(w, "new") /\ ~At(w, "closed")
  BY DEF Beat, Lost, At
<1>3. watch[w] \in Connection
  BY <1>2, Connected
<1>4. queue' \in [Watcher -> Seq(Event)] /\ got' \in [Watcher -> Seq(Event)]
  BY <1>1 DEF StreamInv, TypeOK
<1>5. PICK pc \in {"sending", "left"}, event \in Event \cup {"none", "heartbeat"} :
        /\ Proceed(w, pc, event) /\ (pc = "sending" => event = "heartbeat" /\ At(w, "waiting"))
  <2>1. CASE Beat(w)
    BY <2>1 DEF Beat
  <2>2. CASE Lost(w)
    BY <1>3, <2>2 DEF Lost, Connection
  <2> QED
    BY <2>1, <2>2
<1>6. /\ TypeOK' /\ QueuesBelong' /\ OneWatches' /\ BeginsEmpty' /\ SendsEvents' /\ ConnectedBefore'
      /\ \A v \in Watcher \ {w} : watch'[v] = watch[v]
      /\ At(w, pc)' /\ watch'[w].exec = watch[w].exec /\ watch'[w].queue = watch[w].queue
      /\ watch'[w].event = event
  BY <1>1, <1>2, <1>4, <1>5, ProceedsOnItsOwn
<1>7. YieldsEvents'
  <2> SUFFICES ASSUME NEW v \in Watcher, (At(v, "waiting") \/ At(v, "sending"))', watch'[v].exec \notin shared'
               PROVE  SubSeq(emitted'[watch'[v].exec], since'[v] + 1, Len(emitted'[watch'[v].exec]))
                        = got'[v] \o InFlight(v)' \o queue'[watch'[v].queue]
    BY DEF YieldsEvents
  <2>1. CASE v # w
    <3>1. /\ v \in Watcher \ {w} /\ watch'[v] = watch[v] /\ got'[v] = got[v]
          /\ \A u \in Watcher : queue'[u] = queue[u] \/ u = watch[w].queue
      BY <1>1, <1>6, <2>1
    <3> QED
      BY <1>1, <1>2, <3>1, OthersAreOwed
  <2>2. CASE v = w
    <3>1. At(w, "waiting") /\ InFlight(w) = <<>> /\ InFlight(w)' = <<>>
      BY <1>5, <1>6, <2>2 DEF InFlight, At
    <3> QED
      BY <1>1, <1>6, <2>2, <3>1 DEF StreamInv, YieldsEvents
  <2> QED
    BY <2>1, <2>2
<1> QED
  BY <1>6, <1>7 DEF StreamInv

\* A stream that ends takes the queue of its execution along.  Only a connection that
\* shared the execution can miss it.
LEMMA EndKeeps ==
  ASSUME StreamInv, NEW w \in Watcher, ~At(w, "new"), ~At(w, "closed"),
         watch' = [watch EXCEPT ![w] = Closed], Cleanup(watch[w].exec),
         UNCHANGED <<emitted, queue, since, shared>>,
         got' \in [Watcher -> Seq(Event)], \A v \in Watcher \ {w} : got'[v] = got[v]
  PROVE  StreamInv'
<1>1. watch[w] \in Connection /\ watch[w].exec \in Exec
  BY Connected DEF Connection
<1> DEFINE e == watch[w].exec
<1>2. watch'[w] = Closed /\ \A v \in Watcher \ {w} : watch'[v] = watch[v]
  BY DEF StreamInv, TypeOK
<1>3. /\ queueOf'[e] = None /\ \A f \in Exec \ {e} : queueOf'[f] = queueOf[f]
      /\ queueOf' \in [Exec -> Watcher \cup {None}]
  BY <1>1 DEF Cleanup, StreamInv, TypeOK
<1>4. /\ watch'[w].pc = "closed"
      /\ \A v \in Watcher : /\ watch'[v].pc = "new" <=> watch[v].pc = "new"
                            /\ watch'[v].pc # "new" /\ watch'[v].pc # "closed" => v # w /\ watch'[v] = watch[v]
  BY <1>2 DEF Closed, At
<1>5. TypeOK'
  BY <1>3 DEF StreamInv, TypeOK
<1>6. QueuesBelong'
  <2> DEFINE Was(u, f) == watch[u].pc # "new" /\ (watch[u].pc # "closed" => \A g \in Exec : watch[u].exec = g => g = f)
             Is(u, f) == watch'[u].pc # "new" /\ (watch'[u].pc # "closed" => \A g \in Exec : watch'[u].exec = g => g = f)
  <2>1. \A u \in Watcher, f \in Exec : Was(u, f) => Is(u, f)
    BY <1>4
  <2>2. /\ \A f \in Exec : queueOf[f] \in Watcher \cup {None}
        /\ \A v \in Watcher : watch[v].pc # "new" /\ watch[v].pc # "closed" =>
              watch[v].queue \in Watcher /\ watch[v].exec \in Exec
    BY Connected DEF StreamInv, TypeOK, At, Connection
  <2>3. /\ \A f \in Exec : queueOf[f] # None => Was(queueOf[f], f)
        /\ \A v \in Watcher : watch[v].pc # "new" /\ watch[v].pc # "closed" => Was(watch[v].queue, watch[v].exec)
    BY DEF StreamInv, QueuesBelong, Belongs, On, At
  <2> HIDE DEF Was, Is
  <2>4. /\ \A f \in Exec : queueOf'[f] # None => Is(queueOf'[f], f)
        /\ \A v \in Watcher : watch'[v].pc # "new" /\ watch'[v].pc # "closed" => Is(watch'[v].queue, watch'[v].exec)
    BY <1>3, <1>4, <2>1, <2>2, <2>3
  <2> QED
    BY <2>4, Zenon DEF QueuesBelong, Belongs, On, At, Is
<1>7. OneWatches'
  <2>1. \A v \in Watcher, f \in Exec : On(v, f)' <=> On(v, f) /\ v # w
    BY <1>4, <1>2 DEF On, At
  <2> SUFFICES ASSUME NEW f \in Exec, f \notin shared'
               PROVE  /\ \A u, v \in Watcher : On(u, f)' /\ On(v, f)' => u = v
                      /\ \A v \in Watcher : On(v, f)' => queueOf'[f] = v /\ watch'[v].queue = v
                      /\ queueOf'[f] # None => watch'[queueOf'[f]].pc # "new" /\ watch'[queueOf'[f]].pc # "closed"
                                               /\ watch'[queueOf'[f]].exec = f
    BY DEF OneWatches, On, At
  <2>2. On(w, e)
    BY DEF On
  <2>3. /\ \A u, v \in Watcher : On(u, f) /\ On(v, f) => u = v
        /\ \A v \in Watcher : On(v, f) => queueOf[f] = v /\ watch[v].queue = v
        /\ queueOf[f] # None => On(queueOf[f], f)
    BY DEF StreamInv, OneWatches
  <2>4. CASE f = e
    BY <1>3, <2>1, <2>2, <2>3, <2>4
  <2>5. CASE f # e
    <3>1. queueOf'[f] = queueOf[f] /\ queueOf[f] \in Watcher \cup {None} /\ ~On(w, f)
      BY <1>3, <2>5 DEF StreamInv, TypeOK, On
    <3>2. \A v \in Watcher : On(v, f)' => On(v, f) /\ watch'[v] = watch[v]
      BY <1>2, <2>1
    <3>3. queueOf[f] # None => queueOf[f] # w /\ watch'[queueOf[f]] = watch[queueOf[f]]
      BY <1>2, <2>3, <3>1
    <3> QED
      BY <2>3, <3>1, <3>2, <3>3 DEF On, At
  <2> QED
    BY <2>4, <2>5
<1>8. BeginsEmpty' /\ SendsEvents' /\ ConnectedBefore'
  <2>1. \A v \in Watcher : watch'[v].pc = "new" => v # w /\ got'[v] = got[v]
    BY <1>4 DEF At
  <2>2. BeginsEmpty'
    BY <1>4, <2>1 DEF StreamInv, BeginsEmpty, At
  <2>3. SendsEvents' /\ ConnectedBefore'
    BY <1>4 DEF StreamInv, SendsEvents, ConnectedBefore, At
  <2> QED
    BY <2>2, <2>3
<1>9. YieldsEvents'
  <2> SUFFICES ASSUME NEW v \in Watcher, (At(v, "waiting") \/ At(v, "sending"))', watch'[v].exec \notin shared'
               PROVE  SubSeq(emitted'[watch'[v].exec], since'[v] + 1, Len(emitted'[watch'[v].exec]))
                        = got'[v] \o InFlight(v)' \o queue'[watch'[v].queue]
    BY DEF YieldsEvents
  <2>1. v \in Watcher \ {w} /\ watch'[v] = watch[v] /\ got'[v] = got[v]
    BY <1>4 DEF At
  <2> QED
    BY <2>1, OthersAreOwed
<1> QED
  BY <1>5, <1>6, <1>7, <1>8, <1>9 DEF StreamInv

\* What was being sent is got; a terminal event ends the stream.
LEMMA SentKeeps ==
  ASSUME StreamInv, NEW w \in Watcher, Sent(w)
  PROVE  StreamInv'
<1>1. /\ At(w, "sending") /\ ~At(w, "new") /\ ~At(w, "closed")
      /\ UNCHANGED <<emitted, queue, since, shared>>
      /\ got' = IF watch[w].event = "heartbeat" THEN got
                ELSE [got EXCEPT ![w] = Append(got[w], watch[w].event)]
  BY DEF Sent, At, engine
<1>2. watch[w] \in Connection /\ watch[w].event \in Event \cup {"none", "heartbeat"}
  BY <1>1, Connected DEF Connection
<1>3. watch[w].event # "heartbeat" => watch[w].event \in Event
  BY <1>1, <1>2 DEF StreamInv, SendsEvents
<1>4. got[w] \in Seq(Event) /\ (watch[w].event # "heartbeat" =>
         Append(got[w], watch[w].event) \in Seq(Event) /\ Append(got[w], watch[w].event) = got[w] \o <<watch[w].event>>)
  BY <1>3, AppendProperties, AppendIsConcat DEF StreamInv, TypeOK
<1>5. /\ got' \in [Watcher -> Seq(Event)] /\ \A v \in Watcher \ {w} : got'[v] = got[v]
      /\ got'[w] = got[w] \o InFlight(w)
  <2>1. got \in [Watcher -> Seq(Event)]
    BY DEF StreamInv, TypeOK
  <2>2. CASE watch[w].event = "heartbeat"
    <3>1. got[w] \o <<>> = got[w]
      BY <1>4, ConcatEmptySeq
    <3> QED
      BY <1>1, <2>1, <2>2, <3>1 DEF InFlight
  <2>3. CASE watch[w].event # "heartbeat"
    BY <1>1, <1>4, <2>1, <2>3 DEF InFlight
  <2> QED
    BY <2>2, <2>3
<1>6. CASE watch[w].event \in Terminal
  <2>1. watch' = [watch EXCEPT ![w] = Closed] /\ Cleanup(watch[w].exec)
    BY <1>6 DEF Sent
  <2> QED
    BY <1>1, <1>5, <2>1, EndKeeps
<1>7. CASE watch[w].event \notin Terminal
  <2>1. Proceed(w, "waiting", watch[w].event) /\ UNCHANGED queueOf
    BY <1>7 DEF Sent
  <2>2. queue' \in [Watcher -> Seq(Event)] /\ \A v \in Watcher : At(v, "new") => queue'[v] = queue[v] /\ got'[v] = got[v]
    BY <1>1, <1>5 DEF StreamInv, TypeOK, At
  <2>3. /\ TypeOK' /\ QueuesBelong' /\ OneWatches' /\ BeginsEmpty' /\ SendsEvents' /\ ConnectedBefore'
        /\ \A v \in Watcher \ {w} : watch'[v] = watch[v]
        /\ At(w, "waiting")' /\ watch'[w].exec = watch[w].exec /\ watch'[w].queue = watch[w].queue
    BY <1>1, <1>2, <1>5, <2>1, <2>2, ProceedsOnItsOwn
  <2>4. YieldsEvents'
    <3> SUFFICES ASSUME NEW v \in Watcher, (At(v, "waiting") \/ At(v, "sending"))', watch'[v].exec \notin shared'
                 PROVE  SubSeq(emitted'[watch'[v].exec], since'[v] + 1, Len(emitted'[watch'[v].exec]))
                          = got'[v] \o InFlight(v)' \o queue'[watch'[v].queue]
      BY DEF YieldsEvents
    <3>1. CASE v # w
      <4>1. /\ v \in Watcher \ {w} /\ watch'[v] = watch[v] /\ got'[v] = got[v]
            /\ \A u \in Watcher : queue'[u] = queue[u] \/ u = watch[w].queue
        BY <1>1, <1>5, <2>3, <3>1
      <4> QED
        BY <1>1, <4>1, OthersAreOwed
    <3>2. CASE v = w
      <4>1. SubSeq(emitted[watch[w].exec], since[w] + 1, Len(emitted[watch[w].exec]))
              = got[w] \o InFlight(w) \o queue[watch[w].queue]
        BY <1>1, <2>3, <3>2 DEF StreamInv, YieldsEvents
      <4>2. InFlight(w)' = <<>>
        BY <2>3 DEF InFlight, At
      <4>3. got'[w] \o <<>> = got'[w]
        BY <1>5, ConcatEmptySeq
      <4> QED
        BY <1>1, <1>5, <2>3, <3>2, <4>1, <4>2, <4>3
    <3> QED
      BY <3>1, <3>2
  <2> QED
    BY <2>3, <2>4 DEF StreamInv
<1> QED
  BY <1>6, <1>7

LEMMA CloseKeeps ==
  ASSUME StreamInv, NEW w \in Watcher, Close(w)
  PROVE  StreamInv'
<1>1. /\ ~At(w, "new") /\ ~At(w, "closed") /\ watch' = [watch EXCEPT ![w] = Closed]
      /\ Cleanup(watch[w].exec) /\ UNCHANGED <<emitted, queue, got, since, shared>>
  BY DEF Close, At, engine
<1>2. got' \in [Watcher -> Seq(Event)] /\ \A v \in Watcher \ {w} : got'[v] = got[v]
  BY <1>1 DEF StreamInv, TypeOK
<1> QED
  BY <1>1, <1>2, EndKeeps

-----------------------------------------------------------------------------
(* The theorem.                                                             *)

\* Before anything runs nobody is connected.
LEMMA InitStream == Init => StreamInv
<1> SUFFICES ASSUME Init PROVE StreamInv
  OBVIOUS
<1>1. <<>> \in Seq(Event)
  BY EmptySeq
<1>2. TypeOK
  BY <1>1 DEF Init, TypeOK
<1>3. \A w \in Watcher : watch[w].pc = "new"
  BY DEF Init, New
<1> QED
  BY <1>2, <1>3 DEF Init, StreamInv, QueuesBelong, OneWatches, BeginsEmpty, SendsEvents,
                    ConnectedBefore, YieldsEvents, At, On

\* Every step keeps the invariant.
LEMMA NextStream == StreamInv /\ [Next]_vars => StreamInv'
<1> SUFFICES ASSUME StreamInv, [Next]_vars PROVE StreamInv'
  OBVIOUS
<1>1. ASSUME NEW e \in Exec, Runs(e) PROVE StreamInv'
  BY <1>1, RunsEmit, EmitKeeps
<1>2. ASSUME NEW w \in Watcher, Serves(w) PROVE StreamInv'
  BY <1>2, TakeKeeps, BeatOrLostKeeps, SentKeeps, CloseKeeps DEF Serves
<1>3. ASSUME NEW w \in Watcher, Lost(w) PROVE StreamInv'
  BY <1>3, BeatOrLostKeeps
<1>4. ASSUME NEW w \in Watcher, NEW e \in Exec, Connect(w, e) PROVE StreamInv'
  BY <1>4, ConnectKeeps
<1>5. CASE UNCHANGED vars
  <2>1. UNCHANGED <<emitted, queueOf, queue, watch, got, since, shared>>
    BY <1>5 DEF vars, engine, stream, client
  <2>2. TypeOK' /\ BeginsEmpty' /\ SendsEvents' /\ ConnectedBefore'
    BY <2>1 DEF StreamInv, TypeOK, BeginsEmpty, SendsEvents, ConnectedBefore, At
  <2>3. QueuesBelong'
    BY <2>1 DEF StreamInv, QueuesBelong, Belongs, At, On
  <2>4. OneWatches'
    BY <2>1 DEF StreamInv, OneWatches, At, On
  <2>5. YieldsEvents'
    BY <2>1 DEF StreamInv, YieldsEvents, InFlight, At
  <2> QED
    BY <2>2, <2>3, <2>4, <2>5 DEF StreamInv
<1> QED
  BY <1>1, <1>2, <1>3, <1>4, <1>5 DEF Next

\* For any number of executions, connections, events and resumes, a connection of which no
\* other was on its execution has got, is being sent and has waiting for it exactly what was
\* emitted since it connected, in that order (ExecutionEventStream, emit_event, cleanup_queue).
THEOREM YieldsEventsHolds == Spec => []YieldsEvents
<1>1. StreamInv => YieldsEvents
  BY DEF StreamInv
<1> QED
  BY <1>1, InitStream, NextStream, PTL DEF Spec

=============================================================================
