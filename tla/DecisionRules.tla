------------------------------ MODULE DecisionRules ----------------------------
(***************************************************************************)
(* What the nodes of a workflow compute of their inputs, one node and one    *)
(* input in a behaviour: the nodes, builtin ones and specialists that ask a   *)
(* model (Nodes); the decision pipeline (Decision), reports and evaluations   *)
(* (Reports).                                                                 *)
(***************************************************************************)
EXTENDS Integers, Sequences, SequencesExt, FiniteSets, Functions

CONSTANT None   \* no output yet

VARIABLES rule, input, output
vars == <<rule, input, output>>

N == INSTANCE Nodes
D == INSTANCE Decision
T == INSTANCE Reports

-----------------------------------------------------------------------------
(* Inputs                                                                   *)

\* A model that is not configured, one that fails, and one that answers.
Unasked == [asked |-> FALSE, fails |-> FALSE, answer |-> <<>>]
Failing == [asked |-> TRUE, fails |-> TRUE, answer |-> <<>>]
Answering(answers) == [asked : {TRUE}, fails : {FALSE}, answer : answers]

\* An answer has any of the fields a node promises, maybe a reason of its own.
Partial(kind) ==
    LET fields == N!Promised(kind) \cup {"fallback_reason"} IN
    {[f \in has |-> "model"] : has \in SUBSET fields}
Models(kind) == {Unasked, Failing} \cup Answering(Partial(kind))

Blank == [blank |-> TRUE]
Words(words) == [blank : {FALSE}, words : {{}} \cup {{w} : w \in words}]
Tasks(kind) ==
    CASE kind = "researcher" -> Words({"revenue", "risk", "growth"})
      [] kind = "data_analyst" ->
            [blank : {FALSE}, words : {{}, {"profile"}, {"trend"}, {"anomaly"}, {"correlation"}}, rows : {1, 200}]
      [] kind = "auditor" ->
            [blank : {FALSE}, about : {"findings"}, items : BoundedSeq([confidence : {40, 90}], 6),
             depth : {"quick", "standard", "thorough"}]
            \cup [blank : {FALSE}, about : {"plan"}, items : BoundedSeq([after : BOOLEAN, effort : BOOLEAN], 2),
                  depth : {"quick", "standard", "thorough"}]
            \cup [blank : {FALSE}, about : {"analysis", "other"}, items : {<<>>},
                  depth : {"quick", "standard", "thorough"}]
      [] kind = "compliance" ->
            [blank : {FALSE}, framework : DOMAIN N!Checks \cup {"iso"}, holds : SUBSET (1..3),
             strict : BOOLEAN]
      [] kind = "planner" ->
            [blank : {FALSE}, words : {{}, {"invest"}, {"launch"}, {"study"}}, max_steps : {0, 1, 4, 8, 30}]
      [] kind = "synthesizer" ->
            [blank : {FALSE}, words : {{}, {"invest"}, {"expand"}}, alone : BOOLEAN,
             weights : [1..4 -> {-1, 0, 2, 3}]]
      [] kind = "code_runner" ->
            [blank : {FALSE}, words : SUBSET {"raise", "output", "df"}, rows : {0, 2}]

\* Every task without a model's answer, and every answer to one task.
Consultations(kind) ==
    [kind : {kind}, task : Tasks(kind) \cup {Blank}, model : {Unasked, Failing}]
    \cup [kind : {kind}, task : {CHOOSE t \in Tasks(kind) : kind = "synthesizer" => ~t.alone},
          model : Models(kind)]

TargetClaim == [says : {{}, {"rises"}, {"falls", "obviously"}}, sure : BOOLEAN,
          evidence : {<<>>, <<"text">>, <<"blank", "record">>}]
Issues == [type : {"other"}, severity : {"low", "high", "none"}]
Reviews ==
    [task : [form : {"claims"}, claims : BoundedSeq(TargetClaim, 2) \ {<<>>}, strictness : DOMAIN N!Strictness,
             criteria : {{"contradictions", "unsupported_claims"}, {"contradictions", "logical_fallacies"},
                         {"logical_fallacies", "confidence_calibration"}},
             max_issues : {1, 20}],
     model : {Unasked, Failing} \cup Answering(BoundedSeq(Issues, 2))]
    \cup [task : [form : {"nothing", "text"}, claims : BoundedSeq(TargetClaim, 1), strictness : {"balanced"},
                  criteria : {{"contradictions"}, {"logical_fallacies"}}, max_issues : {20}],
          model : {Unasked, Failing} \cup Answering(BoundedSeq([type : {"other"}, severity : {"low", "high"}], 1))]

\* The builtin nodes: each with the fields it may or may not be given.
Fields(f) == UNION {{[k \in has |-> f[k]]} : has \in SUBSET DOMAIN f}
Chunks == {<<>>, <<"whole">>, <<"whole", "partial">>, <<"other">>}
Results == {<<>>, <<N!Record("verified")>>, <<N!Record("verified"), N!Record("contradicted")>>,
            <<N!Record("unsupported"), N!Other>>, <<N!Other, N!Record("verified")>>}
Asked == {"none", "fails", "list", "text"}
NodeInputs ==
    [node : {"manual", "text", "cron", "webhook", "file_watch"},
     inputs : Fields([triggered |-> FALSE, _changed_files |-> <<"file">>])]
    \cup [node : {"filter"}, inputs : [{"score"} -> {1, 5, N!Word}] \cup {<<>>},
          config : [field : {"", "score"}, operator : {"equals", "not_equals", "greater_than", "less_than", "exists"},
                    value : {1, 3}]]
    \cup [node : {"code"}, inputs : {<<>>}, config : [enabled : BOOLEAN, source : {"", "fails", "sets"}]]
    \cup [node : {"evidence"}, inputs : Fields([workspace_id |-> <<"w">>, query |-> <<"q">>]),
          found : [vectors : {<<>>, <<"v">>}, words : {<<>>, <<"k">>}]]
    \cup [node : {"graph", "risks", "metrics"},
          inputs : {<<>>} \cup [{"texts"} -> BoundedSeq({"blank", "fact"}, 2)]]
    \cup [node : {"summary"}, found : BoundedSeq({"low", "high", "odd"}, 6), metrics : {0, 12}]
    \cup [node : {"profile"}, found : BoundedSeq({"csv", "torn"}, 2)]
    \cup [node : {"ontology", "patterns", "war_room"}, inputs : {<<>>}]
    \cup [node : {"retrieve"}, inputs : Fields([question |-> <<"why">>, text |-> <<"why">>])]
    \cup [node : {"concat", "extract_graph"}, inputs : {<<>>} \cup [{"chunks"} -> Chunks]]
    \cup [node : {"technical", "risk", "extract", "verify"}, inputs : {<<>>} \cup [{"chunks"} -> Chunks], model : Asked]
    \cup [node : {"report"}, inputs : [{"verified_claims", "claims"} -> Results], model : Asked]
    \cup [node : {"verifier"}, inputs : Fields([workspace_id |-> <<"w">>, claim_ids |-> <<"c1", "c2">>]),
          found : SUBSET {"c1", "c3"}]
    \cup [node : {"scan"}, inputs : Fields([workspace_id |-> <<"w">>, claim_id |-> <<"c1">>]),
          found : {<<>>, <<"c2">>}]
    \cup [node : {"verified"}, inputs : Fields([workspace_id |-> <<"w">>, execution_id |-> <<"e">>])]
    \cup [node : {"synthesis"}, inputs : Fields([workspace_id |-> <<"w">>, question |-> <<"why">>]),
          found : {[summary |-> "text", warnings |-> <<>>]}]

Chains == [retrieves : BOOLEAN, risks : BOOLEAN, chunks : Chunks,
           models : [analyst : Asked \ {"list"}, extractor : Asked, verifier : Asked, writer : Asked \ {"list"}]]

\* Questions to the pipeline: by the rules over small documents, or with a provider's claims.
Text == BoundedSeq({"word", "contra", "dicts"}, 4)
Sized == {<<2, 1>>, <<3, 1>>, <<3, 2>>, <<2, 0>>, <<1, 0>>}
Plain == [nearest : {"first"}, insights : {<<>>}, judge : {"none"}, wants : {{}}, from : {"api"}]
Fake == [name |-> "fake", claims |-> <<>>]
Cited == [id : {1, 2}, type : {"risk", "technical"}, cites : {<<>>, <<<<1, 1>>>>, <<<<1, 2>>, <<9, 9>>>>, <<<<1, 1>>, <<1, 2>>>>}]
Ask(texts, sized, top, provider, rest) ==
    {[texts |-> t, size |-> z[1], overlap |-> z[2], top_k |-> k, provider |-> p, nearest |-> r.nearest,
      insights |-> r.insights, judge |-> r.judge, wants |-> r.wants, from |-> r.from] :
        t \in texts, z \in sized, k \in top, p \in provider, r \in rest}
Insight == [severity : {"low", "high"}, matches : BOOLEAN, category : {"contradiction", "missing_data", "other"}]
Asks ==
    Ask({<<t>> : t \in Text} \cup {<<<<"word">>, t>> : t \in Text}, Sized, {0, 1, 9}, {Fake}, Plain)
    \cup Ask({<<<<"word", "contra", "dicts">>>>, <<<<"word", "word", "word">>>>}, {<<2, 1>>}, {9},
             [name : {"model"}, claims : BoundedSeq(Cited, 2)] \cup {[name |-> "malformed", claims |-> <<>>]}, Plain)
    \cup Ask({<<<<"word">>>>, <<<<"contra", "dicts">>>>}, {<<2, 1>>}, {9}, {Fake},
             [nearest : {"last"}, insights : BoundedSeq(Insight, 2), judge : {"none", "low", "flags"},
              wants : SUBSET {"insights", "orchestrated"}, from : {"api", "cli"}])

Syntheses ==
    [config : BOOLEAN, id : {"", "known", "unknown"}, mode : {"claims", "summary"},
     answer : [form : {"fails", "blank", "text", "value"}, items : {<<>>}, summary : {""}]
              \cup [form : {"list", "object"}, items : BoundedSeq({"claim", "invalid", "other"}, 2), summary : {"", "text"}]]

\* Reports: claims of every status, with and without evidence, and more of a graph than is
\* shown; execution claims; two exports; and logs.
Statuses == {"pending", "supported", "verified", "unsupported", "contradicted", "uncertain", "needs_review"}
Assessed == [status : Statuses, type : {"risk"}, cites : {<<>>, <<"e1">>, <<"e1", "e2">>}, against : {<<>>, <<"e1">>, <<"e2">>}]
Barely == [status : Statuses, type : {"general"}, cites : {<<"e1">>}, against : {<<>>}]
Graph(n, odd, common, at) ==
    LET Level(i) == IF i = at THEN odd ELSE common IN
    [risks |-> [i \in 1..n |-> [id |-> i, level |-> Level(i)]], nodes |-> [i \in 1..n |-> [id |-> i, level |-> Level(i)]],
     edges |-> [i \in 1..n |-> [source |-> n + 1 - 2 * i]], metrics |-> [i \in 1..n |-> i]]
NoGraph == Graph(0, "low", "low", 0)
Trust(claims, summaries, givens, graphs) ==
    [report : {"trust"}, claims : claims, summary : summaries, given : givens, graph : graphs]
Trusts ==
    Trust(BoundedSeq(Assessed, 2) \cup BoundedSeq(Barely, 3), {<<>>}, {{}}, {NoGraph})
    \cup Trust(BoundedSeq(Assessed, 1), {<<T!Summarize(<<>>)>>, <<>>}, {{}, {0}}, {NoGraph})
    \cup Trust({<<>>}, {<<>>}, {{}},
           {Graph(n, a, b, i) : n \in {9, 11, 22}, a, b \in {"critical", "high", "low", "other"}, i \in {1, 11}})
Judged == [status : Statuses \cup {"torn"}]
Coverages == [report : {"coverage"}, run : {<<>>} \cup {<<r>> : r \in [claims : BoundedSeq(Judged, 2), results : BoundedSeq(Judged, 2)]}]
Stated == [id : {"c1", "c2"}, status : {"pending", "verified"}, cites : {<<>>, <<"e1">>}, snippets : {<<>>, <<"s">>}]
Executions ==
    [report : {"execution"}, found : BOOLEAN, workspace : BOOLEAN, claims : BoundedSeq(Stated, 2),
     mode : {"deterministic", "trust_ai_draft"},
     request : [config : BOOLEAN, id : {""}, mode : {"summary"},
                answer : [form : {"raises", "fails", "blank", "text"}, items : {<<>>}, summary : {""}]]]
Rooms == [report : {"room"}, room : BoundedSeq([risk : BOOLEAN, severity : {"low", "high"}, review : BOOLEAN], 2)]
Artifact(type, path, title, body, concepts, insights, metrics) ==
    [type |-> type, path |-> path, title |-> title, metrics |-> metrics,
     content |-> [body |-> body, concepts |-> concepts, insights |-> insights]]
Artifacts ==
    {Artifact("document", p, "doc", b, {}, <<>>, <<>>) : p \in {"", "a"}, b \in 1..2}
    \cup {Artifact("ontology_map", "o", "map", 1, c, <<>>, <<1>>) : c \in {{}, {"margin"}}}
    \cup {Artifact("insight_store", "", "insights", 1, {}, <<[title |-> "gap", severity |-> s]>>, <<2>>) : s \in {"low", "high"}}
    \cup {Artifact("audit_event", "", t, 1, {}, <<>>, <<>>) : t \in {"scan", "doc"}}
Diffs == [report : {"diff"}, old : BoundedSeq(Artifacts, 2), new : BoundedSeq(Artifacts, 2)]
Lines(n) == UNION {[1..k -> BOOLEAN] : k \in 0..n}
Events(oks, first) == [i \in DOMAIN oks |-> [ok |-> oks[i], at |-> first + 2 * i]]
Timelines == {[report |-> "timeline", log |-> Events(l, 0), dirs |-> <<Events(d, 1), Events(e, 4)>>, max |-> m] :
                 l \in Lines(3), d \in Lines(2), e \in Lines(2), m \in 1..2}

\* One case put to a provider that answers, or two to two providers.
Case(least) == [expects : {"structured_memo", "structured_claims", "contradiction", "unsupported_claim",
                           "citation", "malformed_json"},
                evidence : {<<>>, <<FALSE>>, <<TRUE, FALSE>>}, least : least]
Answer == [fails : BOOLEAN, claims : BoundedSeq({<<>>, <<1>>, <<1, 9>>}, 2), words : SUBSET {"unsupported", "contradict"}]
NoAnswer == [fails |-> TRUE, claims |-> <<>>, words |-> {}]
Evaluated == [name : {"ollama"}, real : {TRUE}, absent : {FALSE}, answer : Answer]
Unanswered == [name : {"fake", "ollama", "other"}, real : BOOLEAN, absent : BOOLEAN, answer : {NoAnswer}]
Offered == {p \in Unanswered : (p.real => p.name # "fake") /\ (p.real /\ p.name = "other" => p.absent)}
Probed == {c \in Case({1}) : c.expects \in {"unsupported_claim", "citation", "malformed_json"}}
Suites == [report : {"providers"}, cases : {<<c>> : c \in Case({1, 3})}, providers : {<<p>> : p \in Evaluated}]
          \cup [report : {"providers"}, cases : {<<c, d>> : c, d \in Probed}, providers : {<<p, q>> : p, q \in Offered}]
Sets == {{}, {"a"}}
Judge == BoundedSeq([severity : {"low", "high"}, review : BOOLEAN], 2)
Held == [own : {<<>>, <<TRUE, FALSE>>, <<TRUE>>}, artifacts : BoundedSeq({{}, {"url"}, {"chat"}}, 2), judge : Judge,
         has : {[e \in T!Expectations |-> {}]}, raises : {FALSE}]
        \cup [own : {<<>>}, artifacts : {<<{}>>}, judge : {<<>>}, has : [T!Expectations -> Sets], raises : BOOLEAN]
RoomCase == [expects : {[e \in T!Expectations |-> {}]}, reviews : BOOLEAN, least : 1..2]
            \cup [expects : [T!Expectations -> Sets], reviews : {TRUE}, least : {1}]
Gates == [report : {"rooms"}, cases : {<<>>} \cup {<<c>> : c \in RoomCase}, runs : {<<r>> : r \in Held}]

-----------------------------------------------------------------------------

Init ==
    /\ output = None
    /\ \/ rule = "node" /\ input \in NodeInputs
       \/ rule = "chain" /\ input \in Chains
       \/ rule = "ask" /\ input \in Asks
       \/ rule = "synthesize" /\ input \in Syntheses
       \/ rule = "consult" /\ input \in UNION {Consultations(kind) : kind \in N!Kinds}
       \/ rule = "review" /\ input \in Reviews
       \/ rule = "report" /\ \/ input \in Trusts \/ input \in Coverages \/ input \in Executions
                             \/ input \in Rooms \/ input \in Diffs \/ input \in Timelines
                             \/ input \in Suites \/ input \in Gates

Apply(name, result) ==
    /\ rule = name /\ output = None
    /\ output' = result /\ UNCHANGED <<rule, input>>

\* execute of a specialist
ConsultModel == rule = "consult" /\ Apply("consult", N!Consult(input.kind, input.task, input.model))

\* execute of the critic
ReviewTarget == rule = "review" /\ Apply("review", N!CriticReview(input.task, input.model))

\* execute of a builtin node
ExecuteNode == rule = "node" /\ Apply("node", N!RunNode(input.node, input))

\* a workflow from the retrieval to the report
ExecuteChain == rule = "chain" /\ Apply("chain", N!RunChain(input))

\* POST /ask, or the command of that name
AskQuestion == rule = "ask" /\ Apply("ask", D!Ask(input))

\* run_synthesis
Synthesize == rule = "synthesize" /\ Apply("synthesize", D!RunSynthesis(input))

\* a report, a score, a comparison, a timeline or an evaluation
Report ==
    /\ rule = "report"
    /\ Apply("report",
          CASE input.report = "trust" -> T!RenderTrustReport(input.claims, input.summary, input.given, input.graph)
            [] input.report = "coverage" -> T!RunCoverage(input.run)
            [] input.report = "execution" -> T!GenerateExecutionReport(input, input.claims, input.mode, input.request)
            [] input.report = "room" -> T!LoadLatestPayload(input.room)
            [] input.report = "diff" -> T!DiffWorkspaces(input.old, input.new)
            [] input.report = "timeline" -> T!BuildTimeline(input.log, input.dirs, input.max)
            [] input.report = "providers" -> T!RunProviderSuite(input.cases, input.providers)
            [] input.report = "rooms" -> T!RunWarRoomSuite(input.cases, input.runs))

Next == ConsultModel \/ ReviewTarget \/ ExecuteNode \/ ExecuteChain \/ AskQuestion \/ Synthesize \/ Report

Spec == Init /\ [][Next]_vars

-----------------------------------------------------------------------------
(* Properties                                                               *)

Done(name) == rule = name /\ output # None

\* A node that does not raise sets the fields its output schema promises, all but "error".
\* Whatever a model answers or fails to, a specialist sets its fields as well (all but the
\* reason, if it had nothing to work on), a verdict the
\* model leaves out is no pass, and the result says that the model failed if, and only if, it
\* was asked and did: only the code runner keeps that to itself.  A synthesis that was asked
\* for claims and has none says so, and only JSON makes claims.
FailuresAreTold ==
    /\ Done("node") => (N!Failed(output[1]) \/ output[2] \ {"error"} \subseteq DOMAIN output[1])
    /\ (Done("review") /\ "error" \notin DOMAIN output) => N!CriticOutputs \subseteq DOMAIN output
    /\ (Done("synthesize") /\ output.claims = <<>> /\ input.mode = "claims") => output.warnings # <<>>
    /\ (Done("synthesize") /\ input.answer.form \notin {"list", "object"}) => output.claims = <<>>
    /\ Done("consult") =>
        LET kind == input.kind  answered == input.model.asked /\ ~input.model.fails
            asked == ~input.task.blank /\ (kind = "synthesizer" => ~input.task.alone)
            Verdict == {"passed", "compliant", "success"} IN
        /\ N!Promised(kind) \ {"fallback_reason"} \subseteq DOMAIN output
        /\ ~input.task.blank => N!Promised(kind) \subseteq DOMAIN output
        /\ kind # "code_runner" /\ asked =>
              (output.fallback_reason = "failed") = (input.model.asked /\ input.model.fails)
        /\ \A v \in Verdict \cap DOMAIN output :
              asked /\ answered /\ v \notin DOMAIN input.model.answer => ~output[v]

\* What a specialist says without a model goes by all it found, also of what it does not
\* show.  However few issues it lists, the critic, by the criteria it weighs, passes no claim
\* that something rises before one that it falls, no claim without evidence that is not
\* blank, and no sure claim with one piece of it; and it holds back nothing but two claims
\* that conflict in whatever order, a claim without a text for evidence, and a sure claim
\* with one piece.  In between the code departs from its docstrings ("contradictory pairs",
\* "missing or empty evidence", critic.py): a fall before a rise passes, and evidence that
\* is all records, or blanks and records, counts as none.
\* A check is compliant if no rule is violated, and its
\* score is then full; a quick audit has two findings of the standard one and is not
\* harsher; the steps of a plan that was cut depend on steps that are left; and no option
\* is better than the recommended one.
VerdictsMatchFindings ==
    /\ (Done("review") /\ input.task.form = "claims" /\ input.model.answer = <<>>) =>
          LET t == input.task
              claims == DOMAIN t.claims
              Weighs(c, severity) == c \in t.criteria /\ severity \in N!Strictness[t.strictness]
              Opposed(i, j) == "rises" \in t.claims[i].says /\ "falls" \in t.claims[j].says
              Evidence(i) == Range(t.claims[i].evidence)
              overconfident == \E i \in claims : t.claims[i].sure /\ Len(t.claims[i].evidence) < 2 IN
          IF output.passed
          THEN /\ Weighs("contradictions", "medium") => \A i, j \in claims : Opposed(i, j) => j <= i
               /\ Weighs("unsupported_claims", "high") => \A i \in claims : Evidence(i) \ {"blank"} # {}
               /\ Weighs("confidence_calibration", "medium") => ~overconfident
          ELSE \/ Weighs("contradictions", "medium") /\ \E i, j \in claims : Opposed(i, j)
               \/ Weighs("unsupported_claims", "high") /\ \E i \in claims : "text" \notin Evidence(i)
               \/ Weighs("confidence_calibration", "medium") /\ overconfident
    /\ (Done("consult") /\ ~input.task.blank /\ (~input.model.asked \/ input.model.fails)) =>
          CASE input.kind = "compliance" ->
                  /\ output.compliant <=> output.violations = <<>>
                  /\ output.compliant <=> output.score = 100
                  /\ output.failed_checks = Cardinality(DOMAIN output.violations)
                  /\ input.task.framework = "iso" => ~output.compliant
            [] input.kind = "auditor" ->
                  LET standard == N!FakeAudit([input.task EXCEPT !.depth = "standard"]) IN
                  /\ input.task.depth = "quick" =>
                        /\ IsPrefix(output.findings, standard.findings)
                        /\ output.score > standard.score
                        /\ Len(standard.findings) > 3 => ~output.passed
                  /\ input.task.depth = "thorough" => output.score < standard.score
            [] input.kind = "planner" ->
                  \A i \in DOMAIN output.plan : output.plan[i].after \subseteq 1..(i - 1)
            [] input.kind = "synthesizer" /\ ~input.task.alone ->
                  /\ \E i \in DOMAIN output.options :
                        /\ output.options[i].title = output.recommendation
                        /\ \A j \in DOMAIN output.options :
                              N!Weighted(output.options[j], input.task.weights)
                                 <= N!Weighted(output.options[i], input.task.weights)
            [] OTHER -> TRUE

\* A report says of the evidence what is in it: it recommends to proceed only if some claim
\* cites what was retrieved and none cites what is marked; with every chunk at hand and chunks
\* that overlap by the marker no mark is missed; what it cites was retrieved and is not marked;
\* each claim of the ledger is shown as what it is; and every serious insight is up for review.
\* Reports that nodes write never say more than the verdicts they were handed.
ReportsTellTheLedger ==
    /\ (Done("ask") /\ output.status = "completed") =>
          LET evidence == output.run.evidence
              retrieved == {evidence[i].id : i \in DOMAIN evidence}
              marked == {evidence[i].id : i \in {j \in DOMAIN evidence : D!Marked(evidence[j].text)}}
              claims == {output.run.claims[i].claim : i \in DOMAIN output.run.claims}
              Cites(c) == Range(c.cites) \cap retrieved
              r == output.report IN
          /\ r.proceed <=> /\ \E c \in claims : Cites(c) # {}
                           /\ \A c \in claims : Cites(c) \cap marked = {}
          /\ (input.provider.name = "fake" /\ input.top_k = 9 /\ input.overlap > 0) =>
                 (r.proceed <=> /\ \E d \in DOMAIN input.texts : input.texts[d] # <<>>
                                /\ \A d \in DOMAIN input.texts : ~D!Marked(input.texts[d]))
          /\ r.citations \subseteq retrieved \ marked
          /\ \A c \in claims :
                /\ (\E i \in DOMAIN r.contradictions : r.contradictions[i].claim = c) <=> Cites(c) \cap marked # {}
                /\ (\E i \in DOMAIN r.unsupported : r.unsupported[i].claim = c) <=> Cites(c) = {}
          /\ r.review = {} => r.confidence = "high"
          /\ input.wants # {} =>
                \A i \in Range(input.insights) : i.severity = "high" => <<"serious", i>> \in r.review
          /\ input.from = "api" => output.saved = r
    /\ (Done("chain") /\ ~N!Failed(output) /\ input.models.writer = "none") => ~output.report.proceed
    /\ (Done("node") /\ input.node = "report" /\ input.model = "none") =>
          LET claims == N!Either(input.inputs, "verified_claims", "claims") IN
          output[1].report.proceed <=>
            /\ N!Record("verified") \in Range(claims) /\ N!Record("contradicted") \notin Range(claims)

\* A trust report has every decided claim in one section; its evidence table has each id that a
\* claim cites or that speaks against one, once, with all those claims; it recommends to proceed
\* only if no claim is in doubt, names what to review otherwise, and is not at odds with the
\* coverage score of those claims; a risk it does not show is no more severe than any it shows.
\* The claims of an execution keep their statuses, whoever drafts the text, and a lack of
\* evidence is told.  Exports that are said to be the same agree in titles, concepts, insights,
\* security and the content at a path.  The timeline is newest first, and has the last events of
\* a log that is whole.  An evaluation has a result for each case and provider: one that
\* cites what it was not given passes no case about evidence, and only probes, which ask
\* nothing, are passed by one that fails.  A war room passes if no note says why not, with
\* every serious intervention up for review.
ReportsHideNothing ==
    LET r == output
        Trusting == Done("report") /\ input.report = "trust"
        Executed == Done("report") /\ input.report = "execution" /\ output.status = 200
        Compared == Done("report") /\ input.report = "diff" /\ ~output.has_changes
        Timed == Done("report") /\ input.report = "timeline"
        Evaluating == Done("report") /\ input.report = "providers"
        Gated == Done("report") /\ input.report = "rooms" IN
    /\ Trusting =>
          LET c == input.claims
              In(section) == T!Sections[section]
              doubted == {"contradicted", "unsupported", "uncertain", "needs_review"}
              coverage == T!ComputeCoverage(c, <<>>).status
              Rank(risk) == CHOOSE n \in DOMAIN T!Severities : T!Severities[n] = risk.level IN
          /\ \A i \in DOMAIN c : c[i].status # "pending" =>
                \E s \in DOMAIN T!Sections : c[i] \in Range(r.sections[s])
          /\ {r.table[n].id : n \in DOMAIN r.table} = UNION {Range(c[i].cites \o c[i].against) : i \in DOMAIN c}
          /\ \A n, m \in DOMAIN r.table : r.table[n].id = r.table[m].id => n = m
          /\ \A n \in DOMAIN r.table, i \in DOMAIN c :
                /\ i \in r.table[n].supports <=> r.table[n].id \in Range(c[i].cites)
                /\ i \in r.table[n].contradicts <=> r.table[n].id \in Range(c[i].against)
          /\ input.summary = <<>> =>
                /\ r.recommendation = "proceed" => \A i \in DOMAIN c : c[i].status \notin doubted
                /\ \A s \in doubted : s \in r.review <=> \E i \in DOMAIN c : c[i].status = s
                /\ r.recommendation = "do not proceed" <=> coverage = "contradictions found"
                /\ coverage = "good" => r.recommendation # "insufficient"
          /\ \A i \in DOMAIN c : c[i].against # <<>> => r.records # {}
          /\ LET shown == r.text.risks  risks == input.graph.risks IN
             \A x \in Range(shown), k \in DOMAIN risks :
                (Rank(risks[k]) < Rank(x)) => risks[k] \in Range(shown)
    /\ Executed =>
          /\ \A i \in DOMAIN input.claims : input.claims[i].id \in DOMAIN r.statuses
          /\ r.claims = input.claims
          /\ r.warnings = <<>> <=> \E i \in DOMAIN input.claims : input.claims[i].cites \o input.claims[i].snippets # <<>>
    /\ Compared =>
          LET old == input.old  new == input.new
              At(export, p) == {i \in DOMAIN export : export[i].path = p} IN
          /\ T!Titles(old) = T!Titles(new) /\ T!Concepts(old) = T!Concepts(new) /\ T!Security(old) = T!Security(new)
          /\ Range(T!InsightsIn(old)) = Range(T!InsightsIn(new))
          /\ \A i \in DOMAIN old, j \in DOMAIN new :
                (/\ old[i].path = new[j].path /\ old[i].path # ""
                 /\ At(old, old[i].path) = {i} /\ At(new, new[j].path) = {j}) => old[i].content = new[j].content
    /\ Timed =>
          /\ \A i, j \in DOMAIN r : i < j => r[i].at >= r[j].at
          /\ (\A i \in DOMAIN input.log : input.log[i].ok) =>
                \A i \in DOMAIN input.log : i > Len(input.log) - input.max => input.log[i] \in Range(r)
    /\ Evaluating =>
          /\ Len(r) = Len(input.cases) * Len(input.providers)
          /\ \A p \in DOMAIN input.providers, c \in DOMAIN input.cases :
                LET result == r[(p - 1) * Len(input.cases) + c]
                    provider == input.providers[p]  answer == provider.answer  case == input.cases[c]
                    invented == ~(T!Cited(answer.claims) \subseteq DOMAIN case.evidence) IN
                /\ provider.real /\ invented /\ case.expects \in {"contradiction", "unsupported_claim", "citation"} =>
                      ~result.passed
                /\ provider.real /\ result.asked /\ invented /\ ~answer.fails => result.risk = "high"
                /\ provider.real /\ (provider.absent \/ answer.fails) /\ result.passed =>
                      ~provider.absent /\ ~result.asked
                /\ result.passed /\ case.expects = "citation" => case.evidence = <<>> \/ result.risk = "low"
    /\ Gated =>
          /\ r.passes <=> input.cases # <<>> /\ r.failed = 0
          /\ \A i \in DOMAIN input.cases :
                LET run == input.runs[i]  passed == r.results[i].passed IN
                /\ passed <=> r.results[i].notes = {}
                /\ passed => /\ ~run.raises
                             /\ \A j \in DOMAIN run.judge :
                                   run.judge[j].severity = "high" => run.judge[j].review /\ input.cases[i].reviews
=============================================================================
