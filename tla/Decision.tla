------------------------------- MODULE Decision -------------------------------
(***************************************************************************)
(* The decision pipeline: documents are cut into chunks (rag), the chunks    *)
(* retrieved for a question go to two analysts and a claim extractor (llm),   *)
(* the claims into a ledger, past the verifier (ledger) and into a report    *)
(* (graph, reports), to which a request may add the context of insights      *)
(* (context).  And the synthesis of evidence by a provider (synthesis).      *)
(*                                                                         *)
(* A text is a sequence of pieces; a chunk that has the two pieces of the    *)
(* marker one after the other contradicts the claims that cite it.           *)
(***************************************************************************)
EXTENDS Integers, Sequences, SequencesExt, FiniteSets, FiniteSetsExt, Functions

-----------------------------------------------------------------------------
(* Evidence                                                                 *)

\* Windows of `size` pieces, each beginning size - overlap after the one before it, the
\* last one the first to reach the end.
Windows(text, size, overlap) ==
    LET step == size - overlap
        Start(k) == (k - 1) * step
        last == CHOOSE k \in 1..Len(text) :
                    /\ Start(k) + size >= Len(text)
                    /\ \A j \in 1..(k - 1) : Start(j) + size < Len(text) IN
    IF text = <<>> THEN <<>>
    ELSE [k \in 1..last |-> SubSeq(text, Start(k) + 1, Min({Start(k) + size, Len(text)}))]

ChunkDocuments(texts, size, overlap) ==
    FlattenSeq([d \in DOMAIN texts |->
        LET windows == Windows(texts[d], size, overlap) IN
        [k \in DOMAIN windows |-> [id |-> <<d, k>>, text |-> windows[k]]]])

\* How near a chunk is to the question is for the index to say: here the first or the last
\* chunk is the nearest.
RetrieveEvidence(chunks, nearest, top_k) ==
    LET ranked == IF nearest = "first" THEN chunks ELSE Reverse(chunks) IN
    SubSeq(ranked, 1, Max({0, Min({top_k, Len(ranked)})}))

Marked(text) == \E i \in 1..(Len(text) - 1) : text[i] = "contra" /\ text[i + 1] = "dicts"

-----------------------------------------------------------------------------
(* Claims                                                                   *)

\* A claim of a memo for each chunk, or one without any.
Memo(agent, evidence) ==
    [agent |-> agent, claims |-> Max({1, Len(evidence)}),
     cited |-> [i \in DOMAIN evidence |-> evidence[i].id]]

\* Each claim cites the chunk it stands for; they are numbered over both memos.
ExtractClaims(memos) ==
    LET Of(memo, before) ==
            [i \in 1..memo.claims |->
                [id |-> before + i, type |-> memo.agent,
                 cites |-> IF i <= Len(memo.cited) THEN <<memo.cited[i]>> ELSE <<>>]] IN
    Of(memos[1], 0) \o Of(memos[2], memos[1].claims)

\* ClaimLedger.add_claims: a claim with a known id takes the place of the earlier one.
AddClaims(claims) ==
    LET Add(ledger, claim) ==
            LET known == {i \in DOMAIN ledger : ledger[i].id = claim.id} IN
            IF known = {} THEN Append(ledger, claim)
            ELSE [ledger EXCEPT ![CHOOSE i \in known : TRUE] = claim] IN
    FoldLeft(Add, <<>>, claims)

\* Mutant of Verify: all evidence must contradict a claim.
VerifyByAll(claim, evidence) ==
    LET cited == {k \in DOMAIN evidence : evidence[k].id \in Range(claim.cites)}
        against == {k \in cited : Marked(evidence[k].text)} IN
    [claim |-> claim, against |-> {evidence[k].id : k \in against},
     status |-> IF cited = {} THEN "unsupported" ELSE IF cited = against THEN "contradicted" ELSE "verified",
     evidence |-> {evidence[k].id : k \in cited}]

\* A claim that cites none of the evidence is unsupported, one of whose citations is marked
\* contradicted, any other verified; only a verified claim loses citations of what is not there.
Verify(claim, evidence) ==
    LET cited == {k \in DOMAIN evidence : evidence[k].id \in Range(claim.cites)}
        against == {evidence[k].id : k \in {j \in cited : Marked(evidence[j].text)}} IN
    [claim |-> claim, against |-> against,
     status |-> CASE cited = {} -> "unsupported"
                  [] cited # {} /\ against # {} -> "contradicted"
                  [] OTHER -> "verified",
     evidence |-> IF cited # {} /\ against = {} THEN {evidence[k].id : k \in cited}
                  ELSE Range(claim.cites)]

VerifyClaims(claims, evidence) == [i \in DOMAIN claims |-> Verify(claims[i], evidence)]

-----------------------------------------------------------------------------
(* The context of a question                                                *)

\* select_relevant_insights: the serious ones, and those that match the question.
SelectInsights(insights) ==
    SelectSeq(insights, LAMBDA i : i.severity = "high" \/ i.matches)

\* The judge of the latest session; its remarks are left out of a report without it.
ReviewItems(insights, judge) ==
    {<<"serious", i>> : i \in {j \in Range(insights) : j.severity = "high"}}
    \cup {<<"contradiction", i>> : i \in {j \in Range(insights) : j.category = "contradiction"}}
    \cup (IF judge = "low" THEN {<<"Judge", "confidence">>} ELSE {})
    \cup (IF judge \in {"low", "flags"} THEN {<<"Judge", "flag">>} ELSE {})
    \cup {<<"missing", i>> : i \in {j \in Range(insights) : j.category = "missing_data" /\ j.severity = "high"}}

BuildContext(insights, judge) ==
    [insights |-> SelectInsights(insights), judge |-> judge,
     items |-> ReviewItems(SelectInsights(insights), judge)]

NoContext == [insights |-> <<>>, judge |-> "none", items |-> {}]

\* _report_context
ReportContext(context, wants) ==
    [insights |-> IF "insights" \in wants THEN context.insights ELSE <<>>,
     judge |-> IF "orchestrated" \in wants THEN context.judge ELSE "none",
     items |-> IF "orchestrated" \in wants THEN context.items
               ELSE {item \in context.items : item[1] # "Judge"}]

-----------------------------------------------------------------------------
(* The report                                                               *)

Render(claims, context) ==
    LET With(status) == SelectSeq(claims, LAMBDA c : c.status = status)
        verified == With("verified")  unsupported == With("unsupported")
        contradicted == With("contradicted") IN
    [citations |-> UNION {verified[i].evidence : i \in DOMAIN verified},
     risks |-> SelectSeq(claims, LAMBDA c : c.claim.type = "risk"),
     contradictions |-> contradicted, unsupported |-> unsupported,
     proceed |-> verified # <<>> /\ contradicted = <<>>,
     confidence |-> CASE verified = <<>> \/ contradicted # <<>> -> "low"
                      [] verified # <<>> /\ contradicted = <<>> /\ unsupported # <<>> -> "medium"
                      [] OTHER -> "high",
     review |-> (IF contradicted # <<>> THEN {<<"resolve">>} ELSE {})
                \cup (IF unsupported # <<>> THEN {<<"review">>} ELSE {})
                \cup (IF verified = <<>> THEN {<<"support">>} ELSE {})
                \cup context.items,
     insights |-> context.insights]

\* The claims of a run: a provider other than the fake one says what it likes, and its
\* answer may not be read.
Claims(provider, evidence) ==
    IF provider.name = "fake" THEN ExtractClaims(<<Memo("technical", evidence), Memo("risk", evidence)>>)
    ELSE provider.claims

\* The six nodes of the graph, one after the other.
RunGraph(request) ==
    LET evidence == RetrieveEvidence(ChunkDocuments(request.texts, request.size, request.overlap),
                                     request.nearest, request.top_k)
        ledger == AddClaims(Claims(request.provider, evidence)) IN
    [evidence |-> evidence, claims |-> VerifyClaims(ledger, evidence)]

Fails(provider) == provider.name = "malformed"

\* POST /ask saves the report it answers; the command line saves the run before the context
\* is added to its report.
Ask(request) ==
    LET run == RunGraph(request)
        context == BuildContext(request.insights, request.judge)
        plain == Render(run.claims, NoContext)
        full == IF request.wants = {} THEN plain
                ELSE Render(run.claims, ReportContext(context, request.wants)) IN
    IF Fails(request.provider) THEN [status |-> "failed"]
    ELSE [status |-> "completed", run |-> run, report |-> full,
          saved |-> IF request.from = "api" THEN full ELSE plain]

-----------------------------------------------------------------------------
(* Synthesis of evidence                                                    *)

\* parse_synthesis_output.  An answer is blank, a text, or a JSON value, in a fence or not:
\* a list, an object with or without claims and a summary, or anything else.
Valid(items) == SelectSeq(items, LAMBDA i : i = "claim")
Skipped(items) == [i \in DOMAIN SelectSeq(items, LAMBDA j : j = "invalid") |-> "skipped"]
Parsed(claims, summary, warnings) == [claims |-> claims, summary |-> summary, warnings |-> warnings]
ParseAnswer(answer) ==
    CASE answer.form = "blank" -> Parsed(<<>>, "", <<"empty">>)
      [] answer.form = "text" -> Parsed(<<>>, "text", <<"not JSON">>)
      [] answer.form = "list" ->
            IF Valid(answer.items) = <<>>
            THEN Parsed(<<>>, "value", Append(Skipped(answer.items), "no claims"))
            ELSE Parsed(Valid(answer.items), "", Skipped(answer.items))
      [] answer.form = "object" -> Parsed(Valid(answer.items), answer.summary, Skipped(answer.items))
      [] answer.form = "value" -> Parsed(<<>>, "value", <<"type">>)

\* A provider that fails answers nothing and warns.
Answer(answer) ==
    IF answer.form = "fails" THEN Parsed(<<>>, "", <<"provider", "empty">>) ELSE ParseAnswer(answer)

\* run_synthesis: a configuration goes before an id; without a provider nothing is asked.
RunSynthesis(request) ==
    LET found == request.config \/ request.id = "known"
        parsed == Answer(request.answer) IN
    IF ~found THEN Parsed(<<>>, "", <<IF request.id = "unknown" THEN "not found" ELSE "no provider">>)
    ELSE [parsed EXCEPT !.warnings =
            IF request.mode = "claims" /\ parsed.claims = <<>> THEN Append(@, "no claims in claims mode") ELSE @]
=============================================================================
