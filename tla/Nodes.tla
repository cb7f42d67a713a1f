-------------------------------- MODULE Nodes --------------------------------
(***************************************************************************)
(* The nodes of a workflow (workflow_engine/nodes): the builtin ones, which   *)
(* are triggers, flow, evidence, analysts, claims and reports, the graph and  *)
(* verification, and the specialists.                                         *)
(*                                                                         *)
(* Inputs, configuration and results are records of the fields a node reads   *)
(* and sets.  A node that raises has the one field "raises".  A model is       *)
(* "none", one that "fails", or what its answer is.                          *)
(***************************************************************************)
EXTENDS Integers, Sequences, SequencesExt, FiniteSets, FiniteSetsExt, Functions, TLC

D == INSTANCE Decision

Raises(what) == [raises |-> what]

\* inputs.get(field): an absent field is read as empty.
Get(inputs, field, otherwise) == IF field \in DOMAIN inputs THEN inputs[field] ELSE otherwise
\* inputs.get(a) or inputs.get(b)
Either(inputs, a, b) ==
    IF Get(inputs, a, <<>>) # <<>> THEN inputs[a] ELSE Get(inputs, b, <<>>)

-----------------------------------------------------------------------------
(* Triggers and flow                                                        *)

\* A payload's fields are laid over the node's own; the other two triggers drop them.
ManualTrigger(inputs) == inputs @@ [triggered |-> TRUE]
InputText(text) == [text |-> text, question |-> text]
CronTrigger == [trigger_type |-> "cron", expression |-> "expression", triggered |-> TRUE]
WebhookTrigger(inputs) ==
    inputs @@ [trigger_type |-> "webhook", webhook_path |-> "path", triggered |-> TRUE]
FileWatchTrigger(inputs) ==
    [trigger_type |-> "file_watch", directory |-> "directory", pattern |-> "*",
     changed_files |-> Get(inputs, "_changed_files", <<>>), triggered |-> TRUE]

\* A value that is no number is neither greater nor less; the inputs are laid over the verdict.
Word == 99
Compare(operator, target, value) ==
    CASE operator = "equals" -> target = value
      [] operator = "not_equals" -> target # value
      [] operator = "greater_than" -> target # Word /\ target > value
      [] operator = "less_than" -> target # Word /\ target < value
      [] OTHER -> TRUE
Filter(inputs, config) ==
    LET passed == \/ config.field = ""
                  \/ config.field \in DOMAIN inputs
                     /\ Compare(config.operator, inputs[config.field], config.value) IN
    inputs @@ [passed |-> passed, filtered |-> ~passed]

\* Merging hands on what it gets; concatenating takes the lists among the inputs.
Merge(inputs, lists, strategy) ==
    CASE strategy = "merge" -> inputs
      [] strategy = "concat" ->
            LET items == FlattenSeq(SetToSeq({inputs[f] : f \in lists \cap DOMAIN inputs})) IN
            [items |-> items, count |-> Len(items)]
      [] OTHER -> inputs

\* The code a user writes runs only where the process is told to allow it.
Code(inputs, config) ==
    CASE ~config.enabled -> Raises("disabled")
      [] config.enabled /\ config.source = "" -> inputs
      [] config.enabled /\ config.source = "fails" -> Raises("code")
      [] OTHER -> [output |-> "output"]

-----------------------------------------------------------------------------
(* Evidence and the knowledge graph                                         *)

\* The search by vectors knows neither workspace nor filters; words are looked for only if it
\* finds nothing or fails.
EvidenceSearch(inputs, found) ==
    LET results == IF found.vectors # <<>> THEN found.vectors ELSE found.words
        Nothing(why) == [error |-> why, evidence_results |-> <<>>, retrieval_mode |-> "none", result_count |-> 0] IN
    CASE "workspace_id" \notin DOMAIN inputs -> Nothing("workspace")
      [] "workspace_id" \in DOMAIN inputs /\ "query" \notin DOMAIN inputs -> Nothing("query")
      [] OTHER -> [evidence_results |-> results, result_count |-> Len(results),
                   retrieval_mode |-> IF found.vectors # <<>> THEN "vector" ELSE "keyword"]

\* Blank texts are dropped.
Texts(inputs) == SelectSeq(Get(inputs, "texts", <<>>), LAMBDA t : t # "blank")
Counts == {"nodes_extracted", "edges_extracted", "risks_extracted", "metrics_extracted"}
\* The facts of the texts are stored and the run recorded, also one without texts.
GraphExtraction(inputs) ==
    IF Texts(inputs) = <<>>
    THEN [error |-> "no texts", warnings |-> <<"no texts">>] @@ [f \in Counts |-> 0]
    ELSE [warnings |-> <<>>] @@ [f \in Counts |-> Len(Texts(inputs))]
RiskExtraction(inputs) ==
    [risks_extracted |-> Len(Texts(inputs)), risks |-> Texts(inputs),
     warnings |-> IF Texts(inputs) = <<>> THEN <<"no texts">> ELSE <<>>]
MetricExtraction(inputs) ==
    [metrics_extracted |-> Len(Texts(inputs)), metrics |-> Texts(inputs),
     warnings |-> IF Texts(inputs) = <<>> THEN <<"no texts">> ELSE <<>>]

\* The five worst risks, a severity that is not known being medium, and ten metrics.
Severities == <<"low", "medium", "high", "critical">>
Rank(severity) ==
    IF severity \in Range(Severities) THEN CHOOSE i \in 1..4 : Severities[i] = severity ELSE 2
GraphSummary(risks, metrics) ==
    LET sorted == SortSeq(risks, LAMBDA a, b : Rank(a) > Rank(b)) IN
    [entity_count |-> 0, edge_count |-> 0, risk_count |-> Len(risks), metric_count |-> metrics,
     entities_by_type |-> <<>>,
     risks_by_severity |-> [s \in Range(risks) |-> Cardinality({i \in DOMAIN risks : risks[i] = s})],
     top_risks |-> SubSeq(sorted, 1, Min({5, Len(sorted)})), metrics_by_name |-> Min({10, metrics}),
     summary_text |-> "summary", limitations |-> <<"limitations">>]

\* Files of a known category that can be read are profiled.
ProfileData(files) ==
    LET read == SelectSeq(files, LAMBDA f : f = "csv") IN [profiles |-> read, count |-> Len(read)]
ExtractGraph(inputs) ==
    [graph |-> "graph", entity_count |-> Len(Get(inputs, "chunks", <<>>)), relationship_count |-> 0]
\* A list of profiles is not the store of profiles the mapper and the detectors take.
MapOntology(inputs) == Raises("AttributeError")
DetectPatterns(inputs) == Raises("AttributeError")
\* The counts are of fields a run does not have.
WarRoom(inputs) == [war_room_run |-> "run", artifact_count |-> 0, judge_interventions |-> 0]

-----------------------------------------------------------------------------
(* Analysts, claims and the report                                          *)

\* The store it asks for does not exist: a question finds no chunks, and an error is told.
Retrieve(inputs) ==
    [chunks |-> <<>>, count |-> 0]
    @@ IF Either(inputs, "question", "text") = <<>> THEN <<>> ELSE [error |-> "ImportError"]

\* A chunk is whole, a record with a text and not all else it needs, or anything else.
Evidence(chunks) == [i \in DOMAIN chunks |-> [id |-> IF chunks[i] = "whole" THEN "id" ELSE "", text |-> <<>>]]
Malformed(chunks) == \E i \in DOMAIN chunks : chunks[i] = "partial"

\* A failure of the model is the node's; without one the memo is FakeProvider's.
TechnicalAnalyst(inputs, model) ==
    LET chunks == Get(inputs, "chunks", <<>>) IN
    CASE model = "fails" -> Raises("LLMError")
      [] model = "none" /\ Malformed(chunks) -> Raises("ValidationError")
      [] model = "none" /\ ~Malformed(chunks) ->
            [memo |-> D!Memo("technical", Evidence(chunks)), analysis |-> "memo"]
      [] OTHER -> [memo |-> [agent |-> "technical", claims |-> 0, cited |-> <<>>], analysis |-> model]

\* The options of a technical memo that is not handed over are asked for as soon as there is
\* evidence.
RiskAnalyst(inputs, model) ==
    LET chunks == Get(inputs, "chunks", <<>>) IN
    CASE model = "fails" -> Raises("LLMError")
      [] model = "none" /\ Malformed(chunks) -> Raises("ValidationError")
      [] model = "none" /\ ~Malformed(chunks) /\ chunks # <<>> -> Raises("AttributeError")
      [] model = "none" /\ chunks = <<>> -> [memo |-> D!Memo("risk", <<>>), analysis |-> "memo"]
      [] OTHER -> [memo |-> [agent |-> "risk", claims |-> 0, cited |-> <<>>], analysis |-> model]

\* A claim is a record with a text, or else.  A memo without a name of its own is read as
\* both analysts'; its claims lose their citations.
Record(status) == [record |-> TRUE, status |-> status]
Other == [record |-> FALSE, status |-> "pending"]
NodeExtractClaims(inputs, model) ==
    LET none == [agent |-> "none", claims |-> 0, cited |-> <<>>]
        memo == Get(inputs, "memo", none)
        n == Get(inputs, "technical_memo", memo).claims + Get(inputs, "risk_memo", memo).claims IN
    CASE model = "fails" -> Raises("LLMError")
      [] model = "list" -> [claims |-> <<Other, Other>>, count |-> 2]
      [] model = "text" -> [claims |-> <<Other>>, count |-> 1]
      [] model = "none" -> [claims |-> [i \in 1..n |-> Record("pending")], count |-> n]

\* verify_claims returns a pair, of claims and of results, and these two lists are what is
\* handed on; a model's verdicts are records of other fields than a claim's.
NodeVerifyClaims(inputs, model) ==
    CASE model = "fails" -> Raises("LLMError")
      [] model = "list" -> [verified_claims |-> <<Other, Other>>, count |-> 2]
      [] model = "text" -> [verified_claims |-> <<Other>>, count |-> 1]
      [] model = "none" ->
            IF Malformed(Get(inputs, "chunks", <<>>)) THEN Raises("ValidationError")
            ELSE [verified_claims |-> <<Other, Other>>, count |-> 2]

\* A claim that is no record with a text is one that nobody looked at.
WriteReport(inputs, model) ==
    LET claims == Either(inputs, "verified_claims", "claims")
        ledger == [i \in DOMAIN claims |->
                     [claim |-> [id |-> i, type |-> "technical", cites |-> <<>>],
                      status |-> claims[i].status, against |-> {}, evidence |-> {}]] IN
    CASE model = "fails" -> Raises("LLMError")
      [] model = "none" -> [report |-> D!Render(ledger, D!NoContext), format |-> "markdown", length |-> 1]
      [] OTHER -> [report |-> model, format |-> "markdown", length |-> 1]

-----------------------------------------------------------------------------
(* Verification and synthesis                                               *)

\* Claims named come before those of an execution, and those before all of the workspace; a
\* claim that is not known is left out.
ClaimVerifier(inputs, known) ==
    LET named == Get(inputs, "claim_ids", <<>>)
        verified == IF named # <<>> THEN SelectSeq(named, LAMBDA c : c \in known) ELSE SetToSeq(known) IN
    IF "workspace_id" \notin DOMAIN inputs
    THEN [error |-> "workspace", verified_claims |-> <<>>, verification_summary |-> "none", warnings |-> <<"workspace">>]
    ELSE [verified_claims |-> verified, verification_summary |-> "summary", warnings |-> <<>>]

\* The scan of a whole workspace finds nothing.
ContradictionScan(inputs, found) ==
    LET contradictions == IF "claim_id" \in DOMAIN inputs THEN found ELSE <<>> IN
    IF "workspace_id" \notin DOMAIN inputs
    THEN [error |-> "workspace", contradictions |-> <<>>, contradiction_count |-> 0]
    ELSE [contradictions |-> contradictions, contradiction_count |-> Len(contradictions)]

VerificationSummary(inputs) ==
    IF {"workspace_id", "execution_id"} \cap DOMAIN inputs = {}
    THEN [error |-> "workspace", verification_summary |-> "none", warnings |-> <<"none">>]
    ELSE [verification_summary |-> "summary", warnings |-> <<>>]

\* The claims of a synthesis are never stored: the ledger it imports does not exist.
EvidenceSynthesis(inputs, parsed) ==
    IF \E f \in {"workspace_id", "question"} : f \notin DOMAIN inputs
    THEN [error |-> "input", claim_ids |-> <<>>, result_count |-> 0]
    ELSE [synthesis_id |-> "id", summary_text |-> parsed.summary, claim_ids |-> <<>>,
          warnings |-> parsed.warnings, result_count |-> 0]

-----------------------------------------------------------------------------
(* What the nodes' output schemas promise                                   *)

ManualTriggerOutputs == {"triggered"}
InputTextOutputs == {"text", "question"}
CronTriggerOutputs == {"trigger_type", "expression", "triggered"}
WebhookTriggerOutputs == {"trigger_type", "webhook_path", "triggered"}
FileWatchTriggerOutputs == {"trigger_type", "directory", "pattern", "changed_files", "triggered"}
FilterOutputs == {"passed", "filtered"}
MergeOutputs == {"items", "count"}
EvidenceSearchOutputs == {"evidence_results", "retrieval_mode", "result_count", "error"}
GraphExtractionOutputs == Counts \cup {"warnings"}
RiskExtractionOutputs == {"risks_extracted", "risks", "warnings"}
MetricExtractionOutputs == {"metrics_extracted", "metrics", "warnings"}
GraphSummaryOutputs ==
    {"entity_count", "edge_count", "risk_count", "metric_count", "entities_by_type", "risks_by_severity",
     "top_risks", "metrics_by_name", "summary_text", "limitations"}
ProfileDataOutputs == {"profiles", "count"}
ExtractGraphOutputs == {"graph", "entity_count", "relationship_count"}
WarRoomOutputs == {"war_room_run", "artifact_count", "judge_interventions"}
RetrieveOutputs == {"chunks", "count"}
TechnicalAnalystOutputs == {"memo", "analysis"}
RiskAnalystOutputs == {"memo", "analysis"}
ExtractClaimsOutputs == {"claims", "count"}
VerifyClaimsOutputs == {"verified_claims", "count"}
WriteReportOutputs == {"report", "format", "length"}
ClaimVerifierOutputs == {"verified_claims", "verification_summary", "warnings", "error"}
ContradictionScanOutputs == {"contradictions", "contradiction_count", "error"}
VerificationSummaryOutputs == {"verification_summary", "warnings", "error"}

\* A node of a kind, with the fields it reads and what it finds.
RunNode(node, x) ==
    CASE node = "manual" -> <<ManualTrigger(x.inputs), ManualTriggerOutputs>>
      [] node = "text" -> <<InputText(<<"why">>), InputTextOutputs>>
      [] node = "cron" -> <<CronTrigger, CronTriggerOutputs>>
      [] node = "webhook" -> <<WebhookTrigger(x.inputs), WebhookTriggerOutputs>>
      [] node = "file_watch" -> <<FileWatchTrigger(x.inputs), FileWatchTriggerOutputs>>
      [] node = "filter" -> <<Filter(x.inputs, x.config), FilterOutputs>>
      [] node = "concat" -> <<Merge(x.inputs, {"claims", "chunks"}, "concat"), MergeOutputs>>
      [] node = "code" -> <<Code(x.inputs, x.config), {}>>
      [] node = "evidence" -> <<EvidenceSearch(x.inputs, x.found), EvidenceSearchOutputs>>
      [] node = "graph" -> <<GraphExtraction(x.inputs), GraphExtractionOutputs>>
      [] node = "risks" -> <<RiskExtraction(x.inputs), RiskExtractionOutputs>>
      [] node = "metrics" -> <<MetricExtraction(x.inputs), MetricExtractionOutputs>>
      [] node = "summary" -> <<GraphSummary(x.found, x.metrics), GraphSummaryOutputs>>
      [] node = "profile" -> <<ProfileData(x.found), ProfileDataOutputs>>
      [] node = "extract_graph" -> <<ExtractGraph(x.inputs), ExtractGraphOutputs>>
      [] node = "ontology" -> <<MapOntology(x.inputs), {}>>
      [] node = "patterns" -> <<DetectPatterns(x.inputs), {}>>
      [] node = "war_room" -> <<WarRoom(x.inputs), WarRoomOutputs>>
      [] node = "retrieve" -> <<Retrieve(x.inputs), RetrieveOutputs>>
      [] node = "technical" -> <<TechnicalAnalyst(x.inputs, x.model), TechnicalAnalystOutputs>>
      [] node = "risk" -> <<RiskAnalyst(x.inputs, x.model), RiskAnalystOutputs>>
      [] node = "extract" -> <<NodeExtractClaims(x.inputs, x.model), ExtractClaimsOutputs>>
      [] node = "verify" -> <<NodeVerifyClaims(x.inputs, x.model), VerifyClaimsOutputs>>
      [] node = "report" -> <<WriteReport(x.inputs, x.model), WriteReportOutputs>>
      [] node = "verifier" -> <<ClaimVerifier(x.inputs, x.found), ClaimVerifierOutputs>>
      [] node = "scan" -> <<ContradictionScan(x.inputs, x.found), ContradictionScanOutputs>>
      [] node = "verified" -> <<VerificationSummary(x.inputs), VerificationSummaryOutputs>>
      [] node = "synthesis" -> <<EvidenceSynthesis(x.inputs, x.found), {"claim_ids", "result_count"}>>

-----------------------------------------------------------------------------
(* A workflow of such nodes, joined by their default ports                  *)

\* execute_node's inputs: those of the workflow, under the results of the nodes before it.
Inputs(global, results) == FoldLeft(LAMBDA inputs, r : r @@ inputs, global, results)

Failed(result) == "raises" \in DOMAIN result

\* Retrieval and the risk analyst may be left out; each node may have a model.  A node that
\* raises ends the run.
RunChain(chain) ==
    LET question == [question |-> <<"why">>] @@ [chunks |-> chain.chunks]
        r == IF chain.retrieves THEN Retrieve(question) ELSE <<>>
        t == TechnicalAnalyst(Inputs(question, <<r>>), chain.models.analyst)
        k == IF chain.risks THEN RiskAnalyst(Inputs(question, <<r>>), chain.models.analyst) ELSE <<>>
        e == NodeExtractClaims(Inputs(question, <<t, k>>), chain.models.extractor)
        v == NodeVerifyClaims(Inputs(question, <<e>>), chain.models.verifier)
        w == WriteReport(Inputs(question, <<v>>), chain.models.writer) IN
    CASE Failed(t) \/ Failed(k) -> Raises("analyst")
      [] ~(Failed(t) \/ Failed(k)) /\ Failed(e) -> Raises("extractor")
      [] ~(Failed(t) \/ Failed(k) \/ Failed(e)) /\ Failed(v) -> Raises("verifier")
      [] OTHER -> w

-----------------------------------------------------------------------------
(* Specialists: what they answer by rule, when there is no model or it fails. *)
(* A task is what a specialist reads of its inputs and its configuration; its *)
(* model is a record: whether it is configured, whether it fails (the call,   *)
(* or an answer that is no JSON object), and its answer, a record.  Words of  *)
(* a text are a set.                                                          *)

\* _find_mock_findings: the first keyword of the query, two findings each.
FakeResearch(task) ==
    LET known == SelectSeq(<<"revenue", "risk", "growth">>, LAMBDA k : k \in task.words)
        topic == IF known = <<>> THEN "default" ELSE Head(known) IN
    [findings |-> [i \in 1..2 |-> [says |-> {topic}, evidence |-> <<>>, citation |-> <<topic, i>>]],
     summary |-> "rule", gaps |-> <<"mock">>]

FakeAnalysis(task) ==
    LET known == SelectSeq(<<"profile", "trend", "anomaly", "correlation">>, LAMBDA k : k \in task.words)
        type == IF known = <<>> THEN "summary" ELSE Head(known) IN
    [analysis |-> [type |-> type, confidence |-> IF type = "trend" THEN Min({180, task.rows}) ELSE 0],
     summary |-> type, charts |-> <<>>]

\* Scores are hundredths.
AuditFindings(task) ==
    LET shown == SubSeq(task.items, 1, Min({5, Len(task.items)}))
        Missing(step) == (IF step.after THEN <<>> ELSE <<"low">>)
                         \o (IF step.effort THEN <<>> ELSE <<"medium">>) IN
    CASE task.about = "findings" ->
            [i \in DOMAIN shown |-> IF shown[i].confidence < 50 THEN "medium" ELSE "low"]
      [] task.about = "analysis" -> <<"low", "medium">>
      [] task.about = "plan" -> FlattenSeq([i \in DOMAIN shown |-> Missing(shown[i])])
      [] OTHER -> <<"low">>

AuditScore(task, n) ==
    CASE task.about = "findings" -> IF n = 0 THEN 75 ELSE Max({30, 75 - 8 * n})
      [] task.about = "analysis" -> 78
      [] task.about = "plan" -> Max({30, 80 - 10 * n})
      [] OTHER -> 70

\* Mutant of AuditFor: a quick audit is scored by the findings it shows.
AuditShown(task) ==
    LET all == AuditFindings(task)
        shown == IF task.depth = "quick" THEN SubSeq(all, 1, Min({2, Len(all)})) ELSE all IN
    [findings |-> shown, score |-> AuditScore(task, Len(shown))]

\* A quick audit shows two findings and is ten better, a thorough one has one more
\* finding and is five worse.
AuditFor(task) ==
    LET all == AuditFindings(task)  score == AuditScore(task, Len(all)) IN
    CASE task.depth = "quick" ->
            [findings |-> SubSeq(all, 1, Min({2, Len(all)})), score |-> Min({score + 10, 100})]
      [] task.depth = "thorough" -> [findings |-> Append(all, "low"), score |-> Max({score - 5, 0})]
      [] OTHER -> [findings |-> all, score |-> score]

FakeAudit(task) ==
    LET a == AuditFor(task) IN
    [passed |-> a.score >= 60, score |-> a.score, findings |-> a.findings, summary |-> "rule",
     issues_found |-> Len(a.findings), recommendations |-> a.findings]

\* The three checks of each framework; task.holds are those the data passes.
Checks == [gdpr |-> <<"critical", "high", "medium">>, soc2 |-> <<"high", "high", "medium">>,
           hipaa |-> <<"critical", "high", "medium">>, internal |-> <<"medium", "medium", "low">>]

\* Mutant of Violations: a strict check adds its violation to others.
ViolationsTwice(task) ==
    LET checks == IF task.framework \in DOMAIN Checks THEN Checks[task.framework] ELSE <<"low">> IN
    [i \in {j \in DOMAIN checks : j \notin task.holds} \cup (IF task.strict THEN {0} ELSE {}) |->
        IF i = 0 THEN "low" ELSE checks[i]]

\* A framework that is not known is one violation, a strict check without any is one.
Violations(task) ==
    LET checks == IF task.framework \in DOMAIN Checks THEN Checks[task.framework] ELSE <<"low">>
        failed == {i \in DOMAIN checks : task.framework \notin DOMAIN Checks \/ i \notin task.holds} IN
    IF failed = {} /\ task.strict THEN [i \in {0} |-> "low"]
    ELSE [i \in failed |-> checks[i]]

FakeCompliance(task) ==
    LET v == Violations(task)
        failed == Cardinality(DOMAIN v)
        passed == (IF task.framework \in DOMAIN Checks THEN 3 ELSE 1) - failed
        worst == SelectSeq(<<"critical", "high", "medium">>, LAMBDA s : s \in Range(v)) IN
    [compliant |-> failed = 0, violations |-> v,
     risk_level |-> IF worst = <<>> THEN "low" ELSE Head(worst), summary |-> "rule",
     score |-> (100 * passed) \div (passed + failed), passed_checks |-> passed, failed_checks |-> failed]

\* Days of the steps of the four plans; a step depends on the one before it.
Plans == [invest |-> <<3, 1, 5, 2, 2, 1>>, launch |-> <<3, 5, 2, 15, 5, 2>>,
          study |-> <<7, 2, 3, 10, 7, 5>>, other |-> <<2, 2, 3, 20, 2>>]

FakePlan(task) ==
    LET known == SelectSeq(<<"invest", "launch", "study">>, LAMBDA k : k \in task.words)
        days == Plans[IF known = <<>> THEN "other" ELSE Head(known)]
        n == Min({task.max_steps, 20, Len(days)}) IN
    [plan |-> [i \in 1..n |-> [number |-> i, days |-> days[i], after |-> {i - 1} \ {0}]],
     summary |-> "rule", total_steps |-> n,
     estimated_duration |-> FoldLeft(+, 0, SubSeq(days, 1, n))]

\* Tenths for feasibility, impact, cost and risk, in this order.
Criteria == <<"feasibility", "impact", "cost", "risk">>
Option(title, a, b, c, d) == [title |-> title, scores |-> <<a, b, c, d>>]
Options ==
    [invest |-> <<Option("Full Investment", 6, 8, 4, 5), Option("Phased Investment", 7, 6, 6, 7),
                  Option("Defer Decision", 8, 3, 9, 8)>>,
     expand |-> <<Option("Aggressive Expansion", 5, 8, 3, 4), Option("Organic Growth", 7, 5, 7, 7),
                  Option("Strategic Partnership", 6, 6, 6, 6)>>,
     other |-> <<Option("Recommended Course", 6, 6, 6, 6), Option("Alternative Approach", 5, 5, 7, 5),
                 Option("Do Not Proceed", 8, 2, 9, 9)>>]

\* A weight that is not positive is left out.  The total weight divides every option's sum
\* alike; without any weight all options are equal.
Weighted(option, weights) ==
    SumFunction([i \in DOMAIN weights |-> IF weights[i] > 0 THEN option.scores[i] * weights[i] ELSE 0])

\* Mutant of ScoreOptions: the recommendation is the first option before they are sorted.
ScoreUnsorted(options, weights) ==
    [options |-> SortSeq(options, LAMBDA a, b : Weighted(a, weights) > Weighted(b, weights)),
     recommendation |-> Head(options).title]

\* A stable sort, the best first, which is recommended.
ScoreOptions(options, weights) ==
    LET sorted == SortSeq([i \in DOMAIN options |-> <<i, options[i]>>],
                          LAMBDA a, b : \/ Weighted(a[2], weights) > Weighted(b[2], weights)
                                        \/ /\ Weighted(a[2], weights) = Weighted(b[2], weights)
                                           /\ a[1] < b[1]) IN
    [options |-> [i \in DOMAIN sorted |-> sorted[i][2]], recommendation |-> sorted[1][2].title]

FakeSynthesis(task) ==
    LET known == SelectSeq(<<"invest", "expand">>, LAMBDA k : k \in task.words)
        s == ScoreOptions(Options[IF known = <<>> THEN "other" ELSE Head(known)], task.weights) IN
    [options |-> s.options, recommendation |-> s.recommendation, trade_offs_summary |-> "rule"]

\* Without evidence there is one option, of which nothing is known.
Preliminary == [options |-> <<Option("Preliminary Assessment", 5, 5, 5, 5)>>,
                recommendation |-> "Preliminary Assessment", trade_offs_summary |-> "preliminary"]

\* _simulate_execution, with the words looked for in the source.
SimulateExecution(task) ==
    LET stops == task.words \cap {"raise", "throw"} # {}
        result == CASE "output" \in task.words -> "output" [] "df" \in task.words -> "dataframe"
                    [] task.rows > 0 -> "inputs" [] OTHER -> "generic" IN
    [result |-> IF stops THEN "none" ELSE result, stdout |-> "rule",
     error |-> IF stops THEN "error" ELSE "none", execution_time_ms |-> 0, success |-> ~stops]

-----------------------------------------------------------------------------
(* Asking the model                                                         *)

Kinds == {"researcher", "data_analyst", "auditor", "compliance", "planner", "synthesizer",
          "code_runner"}

\* The fields the output schemas promise (get_output_schema).
ResearcherOutputs == {"findings", "summary", "gaps", "fallback_reason"}
DataAnalystOutputs == {"analysis", "summary", "charts", "fallback_reason"}
AuditorOutputs ==
    {"passed", "score", "findings", "summary", "issues_found", "recommendations", "fallback_reason"}
ComplianceOutputs ==
    {"compliant", "violations", "risk_level", "summary", "score", "passed_checks", "failed_checks",
     "fallback_reason"}
PlannerOutputs == {"plan", "summary", "total_steps", "estimated_duration", "fallback_reason"}
SynthesizerOutputs == {"options", "recommendation", "trade_offs_summary", "fallback_reason"}
CodeRunnerOutputs == {"result", "stdout", "error", "execution_time_ms", "success"}
CriticOutputs == {"passed", "issues", "summary", "confidence_adjustment", "fallback_reason"}
Promised(kind) ==
    CASE kind = "researcher" -> ResearcherOutputs
      [] kind = "data_analyst" -> DataAnalystOutputs
      [] kind = "auditor" -> AuditorOutputs
      [] kind = "compliance" -> ComplianceOutputs
      [] kind = "planner" -> PlannerOutputs
      [] kind = "synthesizer" -> SynthesizerOutputs
      [] kind = "code_runner" -> CodeRunnerOutputs

\* What a node answers without a query, data, a goal or a source.
Nothing(kind) ==
    CASE kind = "researcher" -> [findings |-> <<>>, summary |-> "nothing", gaps |-> <<"query">>]
      [] kind = "data_analyst" -> [analysis |-> <<>>, summary |-> "nothing", charts |-> <<>>]
      [] kind = "auditor" -> [passed |-> TRUE, score |-> 100, findings |-> <<>>, summary |-> "nothing",
                              issues_found |-> 0, recommendations |-> <<>>]
      [] kind = "compliance" -> [compliant |-> TRUE, violations |-> <<>>, risk_level |-> "low",
                                 summary |-> "nothing", score |-> 100, passed_checks |-> 0,
                                 failed_checks |-> 0]
      [] kind = "planner" -> [plan |-> <<>>, summary |-> "nothing", total_steps |-> 0,
                              estimated_duration |-> 0]
      [] kind = "synthesizer" -> [options |-> <<>>, recommendation |-> "none",
                                  trade_offs_summary |-> "nothing"]
      [] kind = "code_runner" -> [result |-> "none", stdout |-> "", error |-> "source",
                                  execution_time_ms |-> 0, success |-> FALSE]

\* Fields the model leaves out; counts are those of the list it gives.
Defaults(kind) ==
    CASE kind = "auditor" -> [Nothing(kind) EXCEPT !.passed = FALSE, !.score = 0]
      [] kind = "compliance" -> [Nothing(kind) EXCEPT !.compliant = FALSE, !.risk_level = "medium", !.score = 0]
      [] kind = "code_runner" -> [Nothing(kind) EXCEPT !.error = "none"]
      [] kind = "researcher" -> [Nothing(kind) EXCEPT !.gaps = <<>>]
      [] OTHER -> Nothing(kind)

\* The answer's own reason is written over, or kept if it has one.
Overrides == {"researcher", "auditor", "compliance", "planner"}
Completed(kind, answer) ==
    CASE kind \in Overrides -> [fallback_reason |-> ""] @@ answer @@ Defaults(kind)
      [] kind = "code_runner" -> answer @@ Defaults(kind)
      [] OTHER -> answer @@ [fallback_reason |-> ""] @@ Defaults(kind)

\* Mutant of Ask: a failure is kept to itself, as the code runner does.
AskSilently(kind, rule, model) ==
    IF model.asked /\ ~model.fails THEN Completed(kind, model.answer)
    ELSE rule @@ [fallback_reason |-> ""]

\* A model that fails is replaced by the rules, and the result says so.
Ask(kind, rule, model) ==
    IF model.asked /\ ~model.fails THEN Completed(kind, model.answer)
    ELSE rule @@ [fallback_reason |-> IF model.asked THEN "failed" ELSE ""]

WithReason(result) == result @@ [fallback_reason |-> ""]

\* Without anything to work on nobody is asked; four nodes set no reason then.
Researcher(task, model) ==
    IF task.blank THEN WithReason(Nothing("researcher"))
    ELSE Ask("researcher", FakeResearch(task), model)
DataAnalyst(task, model) ==
    IF task.blank THEN WithReason(Nothing("data_analyst"))
    ELSE Ask("data_analyst", FakeAnalysis(task), model)
Auditor(task, model) ==
    IF task.blank THEN Nothing("auditor") ELSE Ask("auditor", FakeAudit(task), model)
ComplianceChecker(task, model) ==
    IF task.blank THEN Nothing("compliance") ELSE Ask("compliance", FakeCompliance(task), model)
Planner(task, model) ==
    IF task.blank THEN Nothing("planner") ELSE Ask("planner", FakePlan(task), model)
\* Without evidence there is nothing to synthesize.
Synthesizer(task, model) ==
    CASE task.blank -> WithReason(Nothing("synthesizer"))
      [] ~task.blank /\ task.alone -> WithReason(Preliminary)
      [] OTHER -> Ask("synthesizer", FakeSynthesis(task), model)
\* A failure of the model is not told.
CodeRunner(task, model) ==
    CASE task.blank -> Nothing("code_runner")
      [] ~task.blank /\ model.asked /\ ~model.fails -> Completed("code_runner", model.answer)
      [] OTHER -> SimulateExecution(task)

Consult(kind, task, model) ==
    CASE kind = "researcher" -> Researcher(task, model)
      [] kind = "data_analyst" -> DataAnalyst(task, model)
      [] kind = "auditor" -> Auditor(task, model)
      [] kind = "compliance" -> ComplianceChecker(task, model)
      [] kind = "planner" -> Planner(task, model)
      [] kind = "synthesizer" -> Synthesizer(task, model)
      [] kind = "code_runner" -> CodeRunner(task, model)

-----------------------------------------------------------------------------
(* The critic                                                               *)

\* The pieces of evidence of a claim are texts, blank texts or records.
Supported(claim) == \E i \in DOMAIN claim.evidence : claim.evidence[i] = "text"
Issue(type, severity) == [type |-> type, severity |-> severity]

\* Only a rise that comes first conflicts with a later fall, once for each pair.
Conflicts(claims) ==
    {p \in (DOMAIN claims) \X (DOMAIN claims) :
        p[1] < p[2] /\ "rises" \in claims[p[1]].says /\ "falls" \in claims[p[2]].says}

Repeated(n, issue) == [i \in 1..n |-> issue]
CheckContradictions(claims) == Repeated(Cardinality(Conflicts(claims)), Issue("contradiction", "medium"))
CheckUnsupported(claims) ==
    Repeated(Cardinality({i \in DOMAIN claims : ~Supported(claims[i])}), Issue("unsupported", "high"))
\* One issue for a phrase, however many claims use it.
CheckFallacies(claims) ==
    IF \E i \in DOMAIN claims : "obviously" \in claims[i].says
    THEN <<Issue("logical_fallacy", "low")>> ELSE <<>>
CheckConfidence(claims) ==
    Repeated(Cardinality({i \in DOMAIN claims : claims[i].sure /\ Len(claims[i].evidence) < 2}),
             Issue("misconfidence", "medium"))

Strictness == [lenient |-> {"high"}, balanced |-> {"medium", "high"},
               strict |-> {"low", "medium", "high"}]
Serious(issues) == \E i \in DOMAIN issues : issues[i].severity \in {"medium", "high"}

FoundByRule(task) ==
    LET When(criterion, issues) == IF criterion \in task.criteria THEN issues ELSE <<>>
        all == When("contradictions", CheckContradictions(task.claims))
               \o When("unsupported_claims", CheckUnsupported(task.claims))
               \o When("logical_fallacies", CheckFallacies(task.claims))
               \o When("confidence_calibration", CheckConfidence(task.claims)) IN
    SelectSeq(all, LAMBDA i : i.severity \in Strictness[task.strictness])

\* What a model finds takes the place of what the rules found, unfiltered.
FoundInClaims(task, model) ==
    IF model.asked /\ ~model.fails /\ model.answer # <<>> THEN model.answer ELSE FoundByRule(task)

Judged(issues, shown, reason) ==
    [passed |-> ~Serious(issues), issues |-> shown, summary |-> Len(shown), confidence_adjustment |-> -Min({10 * Len(shown), 50}),
     fallback_reason |-> reason]

\* Mutant of ReviewClaims: the verdict is of the issues that are shown.
ReviewShown(task, model) ==
    LET all == FoundInClaims(task, model)
        shown == SubSeq(all, 1, Min({task.max_issues, Len(all)})) IN
    Judged(shown, shown, IF model.asked /\ model.fails THEN "failed" ELSE "")

\* The verdict is of all issues, the adjustment of those that are shown.  The search for a
\* serious issue ends in an error if it first meets one to which a model gave no severity.
ReviewClaims(task, model) ==
    LET all == FoundInClaims(task, model)
        shown == SubSeq(all, 1, Min({task.max_issues, Len(all)}))
        grave == SelectSeq(all, LAMBDA i : i.severity # "low") IN
    IF grave # <<>> /\ Head(grave).severity = "none" THEN [error |-> "KeyError"]
    ELSE Judged(all, shown, IF model.asked /\ model.fails THEN "failed" ELSE "")

\* A text is the model's to judge; what it leaves out follows from its issues.
ReviewText(task, model) ==
    IF model.asked /\ ~model.fails
    THEN [passed |-> ~Serious(model.answer), issues |-> model.answer, summary |-> Len(model.answer),
          confidence_adjustment |-> IF model.answer = <<>> THEN 0 ELSE -20, fallback_reason |-> ""]
    ELSE LET found == IF "logical_fallacies" \in task.criteria THEN CheckFallacies(task.claims) ELSE <<>> IN
         [passed |-> ~Serious(found), issues |-> found, summary |-> Len(found),
          confidence_adjustment |-> IF found = <<>> THEN 0 ELSE -10,
          fallback_reason |-> IF model.asked THEN "failed" ELSE ""]

\* Findings come before claims, claims before a report or a text.
CriticReview(task, model) ==
    CASE task.form = "nothing" -> Judged(<<>>, <<>>, "")
      [] task.form \in {"findings", "claims"} -> ReviewClaims(task, model)
      [] task.form = "text" -> ReviewText(task, model)
=============================================================================
