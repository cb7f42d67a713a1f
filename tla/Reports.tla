------------------------------- MODULE Reports -------------------------------
(***************************************************************************)
(* Reports on claims and on workspaces: the trust report, the report on an   *)
(* execution, the export of the latest war room, the coverage score, the      *)
(* comparison of two exported workspaces and the audit timeline (reports/,   *)
(* api/routes_execution_reports.py), and the offline evaluations             *)
(* (provider_eval/, war_room/evals.py).                                      *)
(***************************************************************************)
EXTENDS Integers, Sequences, SequencesExt, FiniteSets, FiniteSetsExt, Functions, TLC

D == INSTANCE Decision

Those(claims, statuses) == SelectSeq(claims, LAMBDA c : c.status \in statuses)
FirstOf(list, n) == SubSeq(list, 1, Min({n, Len(list)}))
Once(list) == FoldLeft(LAMBDA seen, e : IF e \in ToSet(seen) THEN seen ELSE Append(seen, e), <<>>, list)

-----------------------------------------------------------------------------
(* The trust report                                                         *)

\* A claim that is still pending is in no section.
Sections == [supported |-> {"supported", "verified"}, contradicted |-> {"contradicted"},
             unsupported |-> {"unsupported"}, uncertain |-> {"uncertain"}, needs_review |-> {"needs_review"}]
ClassifyClaims(claims) == [s \in DOMAIN Sections |-> Those(claims, Sections[s])]

\* The counts, unless they are given.
Summarize(claims) == [s \in DOMAIN Sections |-> Len(Those(claims, Sections[s]))]

\* Mutant of BuildEvidenceTable: rows for what supports claims only.
SupportTable(claims) ==
    LET ids == Once(FlattenSeq([i \in DOMAIN claims |-> claims[i].cites])) IN
    [r \in DOMAIN ids |->
        [id |-> ids[r],
         supports |-> {i \in DOMAIN claims : ids[r] \in ToSet(claims[i].cites)},
         contradicts |-> {i \in DOMAIN claims : ids[r] \in ToSet(claims[i].against)}]]

\* One row for each piece of evidence, with the claims it supports and contradicts.
BuildEvidenceTable(claims) ==
    LET ids == Once(FlattenSeq([i \in DOMAIN claims |-> claims[i].cites \o claims[i].against])) IN
    [r \in DOMAIN ids |->
        [id |-> ids[r],
         supports |-> {i \in DOMAIN claims : ids[r] \in ToSet(claims[i].cites)},
         contradicts |-> {i \in DOMAIN claims : ids[r] \in ToSet(claims[i].against)}]]

BuildRecommendation(n) ==
    CASE n.contradicted > 0 -> "do not proceed"
      [] n.contradicted = 0 /\ n.needs_review > 0 -> "cautiously"
      [] n.contradicted + n.needs_review = 0 /\ n.unsupported + n.uncertain > 0 -> "with caution"
      [] n.contradicted + n.needs_review + n.unsupported + n.uncertain = 0 /\ n.supported > 0 -> "proceed"
      [] OTHER -> "insufficient"

\* Claims that need review do not count.
BuildConfidenceLevel(n) ==
    CASE n.supported = 0 -> "low"
      [] n.supported > n.unsupported + n.uncertain + n.contradicted -> "high"
      [] OTHER -> "medium"

BuildReviewItems(n) == {s \in DOMAIN Sections \ {"supported"} : n[s] > 0}

\* Records that are given go before those that follow from the claims, all of them.
Contradictions(claims, given) ==
    IF given # {} THEN given ELSE {i \in DOMAIN claims : claims[i].against # <<>>}

\* The most severe of the graph's risks, entities by confidence, and relationships and
\* metrics as they come: what does not fit is counted.
ByLevel(items, levels) == FlattenSeq([l \in DOMAIN levels |-> SelectSeq(items, LAMBDA i : i.level = levels[l])])
Severities == <<"critical", "high", "medium", "low", "other">>
RisksShown(risks) == FirstOf(ByLevel(risks, Severities), 10)
EntitiesShown(nodes) == FirstOf(ByLevel(nodes, <<"high", "medium", "low", "other">>), 15)
RelationshipsShown(edges, nodes) ==
    LET named == {nodes[i].id : i \in DOMAIN nodes} IN
    FirstOf([e \in DOMAIN edges |-> [edges[e] EXCEPT !.source = IF @ \in named THEN @ ELSE "id"]], 20)
MetricsShown(metrics) == FirstOf(metrics, 20)

\* The text: what each section lists, of the evidence of a claim the first three, of the
\* claims of a piece of evidence the first two, the sections of the graph, and what to do next.
Markdown(report, graph) ==
    LET Entry(s, c) ==
            [claim |-> c, evidence |-> CASE s = "supported" -> FirstOf(c.cites, 3)
                                         [] s = "contradicted" -> FirstOf(c.against, 3)
                                         [] OTHER -> <<>>] IN
    [listed |-> [s \in DOMAIN Sections |->
                    [i \in DOMAIN report.sections[s] |-> Entry(s, report.sections[s][i])]],
     evidence |-> [r \in DOMAIN report.table |->
                      [id |-> report.table[r].id,
                       supports |-> FirstOf(SetToSeq(report.table[r].supports), 2),
                       contradicts |-> FirstOf(SetToSeq(report.table[r].contradicts), 2)]],
     warned |-> report.counts.contradicted + report.counts.unsupported > 0,
     entities |-> EntitiesShown(graph.nodes), risks |-> RisksShown(graph.risks),
     relationships |-> RelationshipsShown(graph.edges, graph.nodes), metrics |-> MetricsShown(graph.metrics),
     next |-> CASE report.counts.contradicted > 0 -> "resolve"
                [] report.counts.contradicted = 0 /\ report.counts.unsupported > 0 -> "add evidence"
                [] OTHER -> "oversight"]

\* render_trust_report, with a summary and contradictions given or not.
RenderTrustReport(claims, summary, given, graph) ==
    LET counts == IF summary = <<>> THEN Summarize(claims) ELSE Head(summary)
        report == [sections |-> ClassifyClaims(claims),
                   counts |-> counts,
                   table |-> BuildEvidenceTable(claims),
                   records |-> Contradictions(claims, given),
                   risks |-> {i \in DOMAIN claims : claims[i].type = "risk"},
                   recommendation |-> BuildRecommendation(counts),
                   confidence |-> BuildConfidenceLevel(counts),
                   review |-> BuildReviewItems(counts)] IN
    [text |-> Markdown(report, graph)] @@ report

-----------------------------------------------------------------------------
(* The coverage score                                                       *)

\* Results go before claims; a claim that is supported counts as pending.
Score(items) ==
    LET N(status) == Cardinality({i \in DOMAIN items : items[i].status = status})
        decided == N("verified") + N("unsupported") + N("contradicted")
        \* in percent, rounded up to keep a half on its side
        share == IF decided = 0 THEN 0 ELSE (100 * N("verified") + decided - 1) \div decided IN
    [total |-> Len(items), verified |-> N("verified"), pending |-> Len(items) - decided, share |-> share,
     status |-> CASE items = <<>> -> "no claims"
                  [] N("contradicted") > 0 -> "contradictions found"
                  [] N("contradicted") = 0 /\ N("unsupported") > 0 -> "unsupported found"
                  [] N("contradicted") + N("unsupported") = 0 /\ share >= 80 -> "good"
                  [] N("contradicted") + N("unsupported") = 0 /\ share \in 50..79 -> "moderate"
                  [] OTHER -> "low coverage"]
ComputeCoverage(claims, results) == Score(IF results # <<>> THEN results ELSE claims)

\* Of a run that is not there there are no claims; what does not parse is left out.
RunCoverage(run) ==
    LET Parse(items) == SelectSeq(items, LAMBDA i : i.status # "torn") IN
    IF run = <<>> THEN Score(<<>>) ELSE ComputeCoverage(Parse(run[1].claims), Parse(run[1].results))

-----------------------------------------------------------------------------
(* The report on an execution                                               *)

GenerateReportData(claims) ==
    LET All(field) == Once(FlattenSeq([i \in DOMAIN claims |-> claims[i][field]])) IN
    [claims |-> claims, evidence |-> All("cites"), snippets |-> All("snippets"),
     statuses |-> [id \in {claims[i].id : i \in DOMAIN claims} |->
                      claims[Max({i \in DOMAIN claims : claims[i].id = id})].status],
     \* the executions that are stored have no events
     timeline |-> <<>>,
     warnings |-> IF All("cites") = <<>> /\ All("snippets") = <<>> THEN <<"no evidence">> ELSE <<>>]

\* A draft that cannot be had says so; one without text leaves no trace.
Draft(request) ==
    LET synthesis == D!RunSynthesis(request) IN
    CASE request.answer.form = "raises" -> [ai_draft |-> "none", ai_warnings |-> <<"unavailable">>]
      [] request.answer.form # "raises" /\ synthesis.summary = "" -> <<>>
      [] OTHER -> [ai_draft |-> synthesis.summary, ai_warnings |-> synthesis.warnings]

GenerateExecutionReport(execution, claims, mode, request) ==
    CASE execution.found = FALSE -> [status |-> 404]
      [] execution.found /\ ~execution.workspace -> [status |-> 400]
      [] OTHER -> [status |-> 200, saved |-> TRUE] @@ GenerateReportData(claims)
                  @@ (IF mode = "trust_ai_draft" THEN Draft(request) ELSE <<>>)

-----------------------------------------------------------------------------
(* The export of the latest war room                                        *)

\* A run has no claims: what is exported are its risks, and what to review.
BuildReportPayload(claims, risks, review) ==
    [claims |-> claims, risks |-> risks, review |-> review,
     unsupported |-> {c \in ToSet(claims) : c.status = "unsupported"},
     contradicted |-> {c \in ToSet(claims) : c.status = "contradicted"}]
LoadLatestPayload(room) ==
    IF room = <<>> THEN [status |-> 404]
    ELSE BuildReportPayload(<<>>,
             SelectSeq(room, LAMBDA j : j.risk \/ j.severity \in {"high", "critical"}),
             Cardinality({i \in DOMAIN room : room[i].review}))

-----------------------------------------------------------------------------
(* The comparison of two exports                                            *)

\* An artifact is known by its path and by its title.
Titles(export) == UNION {{export[i].path, export[i].title} : i \in DOMAIN export} \ {""}
ContentAt(export, path) ==
    LET at == {i \in DOMAIN export : export[i].path = path} IN
    IF at = {} THEN <<>> ELSE export[Max(at)].content
Concepts(export) == UNION {export[i].content.concepts : i \in {j \in DOMAIN export : export[j].type = "ontology_map"}}
InsightsIn(export) ==
    FlattenSeq([i \in DOMAIN export |-> IF export[i].type = "insight_store" THEN export[i].content.insights ELSE <<>>])
Metrics(export) == FlattenSeq([i \in DOMAIN export |-> export[i].metrics])
Security(export) == {export[i].title : i \in {j \in DOMAIN export : export[j].type = "audit_event"}}

\* What both have of the concepts and insights counts as changed, whether it is or not.
DiffWorkspaces(old, new) ==
    LET Named(insights) == {insights[i].title : i \in DOMAIN insights}
        before == Metrics(old)  after == Metrics(new)
        docs == Titles(old) \cap Titles(new)
        ins == InsightsIn(old)  outs == InsightsIn(new)
        diff == [added |-> Titles(new) \ Titles(old), removed |-> Titles(old) \ Titles(new),
                 changed |-> {d \in docs : ContentAt(old, d) # ContentAt(new, d)},
                 concepts_added |-> Concepts(new) \ Concepts(old),
                 concepts_removed |-> Concepts(old) \ Concepts(new),
                 concepts_changed |-> Concepts(old) \cap Concepts(new),
                 insights_added |-> Named(outs) \ Named(ins), insights_removed |-> Named(ins) \ Named(outs),
                 insights_changed |-> Named(ins) \cap Named(outs),
                 metrics_added |-> ToSet(SubSeq(after, Len(before) + 1, Len(after))),
                 metrics_removed |-> ToSet(SubSeq(before, Len(after) + 1, Len(before))),
                 metrics_changed |-> IF before = <<>> \/ after = <<>> THEN {} ELSE ToSet(after) \ ToSet(before),
                 security |-> (Security(old) \ Security(new)) \cup (Security(new) \ Security(old))] IN
    [has_changes |-> \E f \in DOMAIN diff : diff[f] # {}] @@ diff

-----------------------------------------------------------------------------
(* The audit timeline                                                       *)

\* A log is read up to the first line that does not parse; of what was read the last come first.
LoadLog(lines, max) ==
    LET bad == {i \in DOMAIN lines : ~lines[i].ok}
        read == IF bad = {} THEN lines ELSE SubSeq(lines, 1, Min(bad) - 1) IN
    FirstOf(Reverse(read), max)

\* Files by name, the last first; those that do not parse are passed over.
LoadDir(files, max) == FirstOf(SelectSeq(Reverse(files), LAMBDA f : f.ok), max)

\* The events of all sources, the newest first.
BuildTimeline(log, dirs, max) ==
    LET events == LoadLog(log, max) \o FlattenSeq([d \in DOMAIN dirs |-> LoadDir(dirs[d], max)]) IN
    SortSeq(events, LAMBDA a, b : a.at > b.at)
-----------------------------------------------------------------------------
(* The offline evaluations: of providers (provider_eval/runner.py), which     *)
(* get a question with evidence and give claims, and of war rooms             *)
(* (war_room/evals.py), whose runs pass or fail quality gates.                *)
(*                                                                         *)
(* Evidence is a sequence of booleans, whether a text holds the marker of a   *)
(* contradiction.  A claim is the sequence of numbers of the texts it cites;   *)
(* what is said beside it is a set of words.                                 *)

-----------------------------------------------------------------------------
(* Providers                                                                *)

Providers == {"fake", "nvidia_nim", "ollama"}

\* FakeProvider and _MockProvider: two memos with a claim for each text, or one claim
\* without a citation.
Mock(evidence) ==
    LET memo == IF evidence = <<>> THEN <<<<>>>> ELSE [i \in DOMAIN evidence |-> <<i>>] IN
    [fails |-> FALSE, claims |-> memo \o memo,
     words |-> (IF evidence = <<>> THEN {"unsupported"} ELSE {})
               \cup (IF TRUE \in Range(evidence) THEN {"contradict"} ELSE {})]

Cited(claims) == UNION {Range(claims[i]) : i \in DOMAIN claims}

CitationsGrounded(claims, evidence) ==
    IF evidence = <<>> THEN Cited(claims) = {}
    ELSE Cited(claims) # {} /\ Cited(claims) \subseteq DOMAIN evidence

UnsupportedHandled(answer, evidence) ==
    evidence = <<>> /\ "unsupported" \in answer.words /\ Cited(answer.claims) = {}

ContradictionHandled(answer, evidence) ==
    TRUE \in Range(evidence) /\ "contradict" \in answer.words

HallucinationRisk(answer, evidence) ==
    CASE ~(Cited(answer.claims) \subseteq DOMAIN evidence) -> "high"
      [] /\ Cited(answer.claims) \subseteq DOMAIN evidence
         /\ \/ evidence # <<>> /\ CitationsGrounded(answer.claims, evidence)
            \/ UnsupportedHandled(answer, evidence) -> "low"
      [] OTHER -> IF evidence = <<>> /\ answer.claims # <<>> THEN "high" ELSE "medium"

\* _case_passed, for answers that came
CasePassed(case, answer) ==
    LET enough == Len(answer.claims) >= case.least
        high == HallucinationRisk(answer, case.evidence) = "high" IN
    CASE case.expects = "structured_memo" -> TRUE
      [] case.expects = "structured_claims" -> enough
      [] case.expects = "contradiction" -> ContradictionHandled(answer, case.evidence) /\ ~high
      [] case.expects = "unsupported_claim" -> UnsupportedHandled(answer, case.evidence) /\ ~high
      [] case.expects = "citation" -> CitationsGrounded(answer.claims, case.evidence) /\ enough
      [] OTHER -> FALSE

\* run_provider_eval_case: the probes of failures ask no provider, and none is asked that
\* is not known.
RunProviderCase(case, provider) ==
    LET known == provider.name \in Providers
        probe == case.expects \in {"malformed_json", "refusal", "timeout"}
        answer == IF provider.real THEN provider.answer ELSE Mock(case.evidence) IN
    [provider |-> provider.name, expects |-> case.expects,
     passed |-> known /\ (probe \/ (~answer.fails /\ CasePassed(case, answer))),
     asked |-> known /\ ~probe, error |-> ~known \/ probe \/ answer.fails,
     risk |-> IF known /\ ~probe /\ ~answer.fails THEN HallucinationRisk(answer, case.evidence)
              ELSE IF known /\ probe THEN "low" ELSE "medium"]

\* run_provider_eval_suite: a provider that is wanted for real, but is not there, fails all
\* cases, the probes included.
RunProviderSuite(cases, providers) ==
    LET Result(case, provider) ==
            IF provider.real /\ provider.absent
            THEN [provider |-> provider.name, expects |-> case.expects, passed |-> FALSE,
                  asked |-> FALSE, error |-> TRUE, risk |-> "medium"]
            ELSE RunProviderCase(case, provider) IN
    FlattenSeq([p \in DOMAIN providers |-> [c \in DOMAIN cases |-> Result(cases[c], providers[p])]])

-----------------------------------------------------------------------------
(* War rooms                                                                *)

\* The gates that a run does not pass.  A run is [own, artifacts, judge, has, raises]: whether
\* each personal context refers to the common one, what is wrong with the text of each
\* artifact, and the interventions of the judge.  Left out are the gates every run passes:
\* that there is a context, that it and the artifacts cannot be changed, that a judge was asked.
FailedGates(run, case) ==
    LET flagged == {i \in DOMAIN run.judge : run.judge[i].review}
        serious == {i \in DOMAIN run.judge : run.judge[i].severity = "high"}
        Wrong(what) == \E i \in DOMAIN run.artifacts : what \in run.artifacts[i] IN
    {gate \in {"personal_context_reference", "artifact_count", "human_review_contradictions",
               "human_review_not_blocked", "no_external_apis", "no_unbounded_chat"} :
        CASE gate = "personal_context_reference" -> FALSE \in Range(run.own)
          [] gate = "artifact_count" -> Len(run.artifacts) < case.least
          [] gate = "human_review_contradictions" -> ~(serious \subseteq flagged)
          [] gate = "human_review_not_blocked" -> ~case.reviews /\ flagged # {}
          [] gate = "no_external_apis" -> Wrong("url")
          [] gate = "no_unbounded_chat" -> Wrong("chat")}

Expectations == {"roles", "tools", "categories"}

\* run_war_room_eval_case: what a case expects must be among what the run had.
RunWarRoomCase(case, run) ==
    LET unmet == {e \in Expectations : ~(case.expects[e] \subseteq run.has[e])}
        failed == FailedGates(run, case) IN
    IF run.raises THEN [passed |-> FALSE, notes |-> {"crash"}]
    ELSE [passed |-> unmet = {} /\ failed = {}, notes |-> unmet \cup failed]

\* run_war_room_eval_suite and the head of its report
RunWarRoomSuite(cases, runs) ==
    LET results == [i \in DOMAIN cases |-> RunWarRoomCase(cases[i], runs[i])]
        failed == Cardinality({i \in DOMAIN results : ~results[i].passed}) IN
    [results |-> results, failed |-> failed, passes |-> results # <<>> /\ failed = 0]
=============================================================================
