---------------------------- MODULE KnowledgeGraph ----------------------------
(***************************************************************************)
(* The knowledge graph of a workspace: the route and the workflow nodes that *)
(* extract facts from texts (api/routes_graph.py, nodes/builtin/             *)
(* graph_nodes.py) and the files they are kept in (graphing/store.py): one   *)
(* each for nodes, edges, risks and metrics, the counts shown as summary,    *)
(* and the log of extraction runs.                                          *)
(*                                                                         *)
(* Every fact is an upsert of its own, which loads a file and writes it      *)
(* back; what another request does in between is lost.  _update_meta reads   *)
(* and writes in one step here.  Routes that read the graph, audit events    *)
(* and durations are left out.                                              *)
(***************************************************************************)
EXTENDS Naturals, Sequences, FiniteSets

CONSTANTS Thread, None, MaxRequests, MaxCrashes

Long == {"holding"}
E == INSTANCE Extraction

VARIABLES
    file,      \* the files: a function of the ids stored
    summary,   \* meta.json
    runs,      \* the log of extraction runs
    thread,    \* what each thread is doing
    requests, crashes,
    mixed      \* history: "overlap", "crash", "fault": what went wrong so far

vars == <<file, summary, runs, thread, requests, crashes, mixed>>

-----------------------------------------------------------------------------
(* Texts                                                                    *)

Contract == [evidence |-> "contract", firms |-> {"acme"}, phrases |-> {"beta"}, dates |-> {},
             risks |-> {"outage"}, amounts |-> {}, metrics |-> {},
             relations |-> <<<<"acme", "supplies", "beta">>>>]
Filing == [evidence |-> "filing", firms |-> {"acme"}, phrases |-> {}, dates |-> {},
           risks |-> {}, amounts |-> {}, metrics |-> {"revenue"},
           relations |-> <<<<"holding", "owns", "acme">>, <<"holding", "owns", "beta">>>>]
Batches == {<<>>, <<Contract>>, <<Contract, Filing>>}

\* An edge leads from one node that is there to another.
EndsAreKept(found) ==
    \A id \in DOMAIN found["edges"] : found["edges"][id].ends \subseteq DOMAIN found["nodes"]

\* extract_intelligence finds the ends of what it relates.
FindsEnds == \A texts \in Batches : EndsAreKept(E!ExtractIntelligence(texts))


-----------------------------------------------------------------------------

Kinds == {"nodes", "edges", "risks", "metrics"}
Empty == [kind \in Kinds |-> <<>>]

Storing(op, found, todo) == [op |-> op, found |-> found, todo |-> todo, step |-> "load", copy |-> Empty]
Idle == Storing("-", Empty, {})

\* The facts a request stores.  The nodes that extract risks or metrics store only
\* those.
Stores(op) == IF op = "graph" THEN Kinds ELSE {op}
Facts(op, found) == UNION {{<<kind, id>> : id \in DOMAIN found[kind]} : kind \in Stores(op)}

EdgesFirst == [edges |-> 1, nodes |-> 2, risks |-> 3, metrics |-> 4]   \* a mutant: edges before their nodes

\* The order in which what was found is stored.
Rank == [nodes |-> 1, edges |-> 2, risks |-> 3, metrics |-> 4]
First(todo) == {f \in todo : \A g \in todo : Rank[f[1]] <= Rank[g[1]]}

Run(status, found) == [status |-> status, found |-> found]

\* A request of a route or a workflow node.  Without texts nothing is stored; only
\* the node records that as a failure.
Extract(t, op, texts) ==
    LET found == E!ExtractIntelligence(texts) IN
    /\ thread[t] = Idle /\ requests < MaxRequests
    /\ requests' = requests + 1
    /\ IF texts = <<>>
       THEN /\ \/ UNCHANGED runs
               \/ op = "graph" /\ runs' = runs \cup {Run("failed", Empty)}
            /\ UNCHANGED <<thread, mixed>>
       ELSE /\ thread' = [thread EXCEPT ![t] = Storing(op, found, Facts(op, found))]
            /\ mixed' = IF \E u \in Thread : thread[u] # Idle THEN mixed \cup {"overlap"} ELSE mixed
            /\ UNCHANGED runs
    /\ UNCHANGED <<file, summary, crashes>>

Busy(t, step) == thread[t].step = step /\ thread[t].todo # {}
Fact(t) == CHOOSE f \in First(thread[t].todo) : TRUE
Goto(t, th) == thread' = [thread EXCEPT ![t] = th]
Onwards(t) == Storing(thread[t].op, thread[t].found, thread[t].todo \ {Fact(t)})

Load(t) ==
    /\ Busy(t, "load")
    /\ Goto(t, [thread[t] EXCEPT !.copy = [@ EXCEPT ![Fact(t)[1]] = file[Fact(t)[1]]], !.step = "write"])
    /\ UNCHANGED <<file, summary, runs, requests, crashes, mixed>>

\* A fact that is stored is replaced as a whole, the evidence of earlier extractions
\* included; a new one is appended.
Upserted(stored, id, fact) == [k \in DOMAIN stored \cup {id} |-> IF k = id THEN fact ELSE stored[k]]

Counted == {"nodes", "edges"}            \* not in upsert_risk and upsert_metric

Write(t) ==
    LET th == thread[t]
        kind == Fact(t)[1]
        id == Fact(t)[2] IN
    /\ Busy(t, "write")
    /\ file' = [file EXCEPT ![kind] = Upserted(th.copy[kind], id, th.found[kind][id])]
    /\ Goto(t, IF id \notin DOMAIN th.copy[kind] /\ kind \in Counted THEN [th EXCEPT !.step = "count"]
               ELSE Onwards(t))
    /\ UNCHANGED <<summary, runs, requests, crashes, mixed>>

Counts(stored) == [kind \in Kinds |-> Cardinality(DOMAIN stored[kind])]

\* _update_meta
Count(t) ==
    /\ Busy(t, "count")
    /\ summary' = Counts(file)
    /\ Goto(t, Onwards(t))
    /\ UNCHANGED <<file, runs, requests, crashes, mixed>>

\* record_extraction_run, when everything is stored.
Record(t) ==
    /\ thread[t] # Idle /\ thread[t].todo = {}
    /\ runs' = IF thread[t].op = "graph" THEN runs \cup {Run("completed", thread[t].found)} ELSE runs
    /\ Goto(t, Idle)
    /\ UNCHANGED <<file, summary, requests, crashes, mixed>>

\* A file cannot be written: the route records that it failed, a node does not.
Fail(t) ==
    /\ \E step \in {"write", "count"} : Busy(t, step)
    /\ mixed' = mixed \cup {"fault"}
    /\ runs' \in {runs, runs \cup {Run("failed", Empty)}}
    /\ thread[t].op # "graph" => runs' = runs
    /\ Goto(t, Idle)
    /\ UNCHANGED <<file, summary, requests, crashes>>

\* get_workspace_meta: the counts are made when they are asked for the first time.
Summarise ==
    /\ summary = None
    /\ summary' = Counts(file)
    /\ UNCHANGED <<file, runs, thread, requests, crashes, mixed>>

Crash ==
    /\ crashes < MaxCrashes /\ crashes' = crashes + 1
    /\ mixed' = mixed \cup {"crash"}
    /\ thread' = [t \in Thread |-> Idle]
    /\ UNCHANGED <<file, summary, runs, requests>>

Init ==
    /\ file = Empty /\ summary = None /\ runs = {}
    /\ thread = [t \in Thread |-> Idle]
    /\ requests = 0 /\ crashes = 0 /\ mixed = {}

Next ==
    \/ Summarise \/ Crash
    \/ \E t \in Thread :
        \/ \E op \in {"graph", "risks", "metrics"}, texts \in Batches : Extract(t, op, texts)
        \/ Load(t) \/ Write(t) \/ Count(t) \/ Record(t) \/ Fail(t)

Spec == Init /\ [][Next]_vars

-----------------------------------------------------------------------------
(* Properties                                                               *)

\* What an extraction that is recorded as completed has found is stored, with its
\* evidence, unless a later one found it again.
Stored(found) == \A kind \in Kinds : DOMAIN found[kind] \subseteq DOMAIN file[kind]

\* An edge that is stored leads from a node that is stored to another, also when the
\* process dies or fails in the middle of an extraction, and nothing a completed run
\* counts is missing; unless two extractions overlapped (extract_graph).
EdgesHaveNodes ==
    "overlap" \notin mixed =>
        /\ EndsAreKept(file)
        /\ \A r \in runs : r.status = "completed" => Stored(r.found)

=============================================================================
