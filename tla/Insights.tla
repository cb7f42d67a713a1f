------------------------------ MODULE Insights ------------------------------
(***************************************************************************)
(* The detectors of patterns and risks (insights/detectors.py) and the store *)
(* they add to (insights/models.py).                                        *)
(*                                                                         *)
(* A profile is [id, kind, rows, missing, warnings, top, margin, table]: the  *)
(* category of its data; how many rows; the share missing by column; the     *)
(* warnings of the profiler; how often the most frequent channel or segment  *)
(* occurs (0: no such column); the mean margin (None: no such column); the    *)
(* rows of the file (none if it is not found).  Shares are percentages,       *)
(* review scores tenths.  A graph is [entities, edges]; an entity [id, kind],  *)
(* an edge [id, from, type, to].                                            *)
(***************************************************************************)
EXTENDS Integers, Sequences, SequencesExt, FiniteSetsExt

CONSTANT None

Insight(category, source, key, severity) ==
    [id |-> <<category, source, key>>, category |-> category, severity |-> severity]

AddedByKind(store, i) == {x \in store : x.category # i.category} \cup {i}   \* a mutant

\* InsightStore.add: whatever has the same id is replaced.
Added(store, i) == {x \in store : x.id # i.id} \cup {i}

One(cond, i) == IF cond THEN <<i>> ELSE <<>>
OfRows(p, Finding(_)) == FlattenSeq([r \in DOMAIN p.table |-> Finding(p.table[r])])
Level(high) == IF high THEN "high" ELSE "medium"
CountRows(p, Test(_)) == Cardinality({r \in DOMAIN p.table : Test(p.table[r])})
SumRows(p, Test(_), Value(_)) ==
    LET rows == {r \in DOMAIN p.table : Test(p.table[r])} IN
    MapThenSumSet(LAMBDA r : Value(p.table[r]), rows)

-----------------------------------------------------------------------------
(* Profiles                                                                 *)

MissingData(p) ==
    SetToSeq({Insight("missing_data", p.id, <<c>>, Level(p.missing[c] > 50)) :
                 c \in {d \in DOMAIN p.missing : p.missing[d] > 20}})

DataQuality(p) ==
    One(p.warnings > 0,
        Insight("data_quality", p.id, <<>>,
                IF p.warnings >= 7 THEN "high" ELSE IF p.warnings >= 3 THEN "medium" ELSE "low"))

\* What is most frequent is part of the id, and so is how serious it is.
Concentration(p, category, limit) ==
    LET level == Level(100 * p.top > 80 * p.rows) IN
    One(100 * p.top > limit * p.rows, Insight(category, p.id, <<level>>, level))

Margin(p) ==
    One(p.margin # None,
        Insight("profit_margin_risk", p.id, <<>>,
                IF p.margin < 5 THEN "high" ELSE IF p.margin < 10 THEN "medium" ELSE "low"))

-----------------------------------------------------------------------------
(* Rows                                                                     *)

\* A row is [ratio]: expenses by revenue.
Expenses(p) ==
    LET breaches == CountRows(p, LAMBDA r : r.ratio >= 90)
        sum == SumRows(p, LAMBDA r : TRUE, LAMBDA r : r.ratio) IN
    One(breaches > 0,
        Insight("revenue_risk", p.id, <<"expense_ratio">>,
                Level(breaches > 1 \/ sum >= 95 * Len(p.table))))

\* A row is [channel, spend, revenue, conversions].
MarketingRoi(p) ==
    LET Finding(c) ==
            LET Of(r) == r.channel = c
                spend == SumRows(p, Of, LAMBDA r : r.spend)
                revenue == SumRows(p, Of, LAMBDA r : r.revenue)
                conversions == SumRows(p, Of, LAMBDA r : r.conversions) IN
            One(spend > 0 /\ (revenue < spend \/ conversions = 0),
                Insight("marketing_roi_risk", p.id, <<c>>, Level(2 * revenue < spend)))
        channels == SetToSeq({p.table[r].channel : r \in DOMAIN p.table}) IN
    FlattenSeq([i \in DOMAIN channels |-> Finding(channels[i])])

\* A row is [issue, negative, refund].
Feedback(p) ==
    LET total == Len(p.table)
        Share(issue) == 100 * CountRows(p, LAMBDA r : r.issue = issue)
        named == {r \in DOMAIN p.table : p.table[r].issue # ""}
        most == {r \in named : \A q \in named : Share(p.table[r].issue) >= Share(p.table[q].issue)}
        top == p.table[Min(most)].issue IN
    One(most # {} /\ Share(top) > 35 * total,
        Insight("feedback_risk", p.id, <<"issue_type", top>>, Level(Share(top) > 50 * total)))
    \o One(100 * CountRows(p, LAMBDA r : r.negative) > 40 * total,
           Insight("feedback_risk", p.id, <<"negative_sentiment">>, "medium"))
    \o One(100 * CountRows(p, LAMBDA r : r.refund) > 25 * total,
           Insight("feedback_risk", p.id, <<"refund_rate">>, "high"))

\* A row is [product, margin, returned].
ProductRisk(p, r) ==
    One(r.margin < 15 /\ r.returned > 10,
        Insight("product_risk", p.id, <<r.product>>, Level(r.margin < 5)))

\* A row is [competitor, price, ours, review].
CompetitorRisk(p, r) ==
    One(r.price < r.ours - 1 /\ r.review > 35,
        Insight("competitor_risk", p.id, <<r.competitor>>, "medium"))

\* A row is [process, delay, bottleneck].
Bottleneck(p, r) ==
    One(r.delay >= 5 \/ (r.bottleneck /\ r.delay >= 3),
        Insight("operations_bottleneck", p.id, <<r.process>>, Level(r.bottleneck /\ r.delay >= 8)))

\* A row is [page, sessions, conversion, bounce].
Conversion(p, r) ==
    LET low == r.sessions > 1000 /\ r.conversion < 3
        bounces == r.bounce > 60 IN
    One(low \/ bounces, Insight("analytics_conversion_risk", p.id, <<r.page>>, Level(low /\ bounces)))

\* A row is [goal, urgent, constrained, owned].
StrategicGap(p, r) ==
    One(r.urgent /\ r.constrained, Insight("strategic_gap", p.id, <<r.goal, "constraint">>, "medium"))
    \o One(~r.owned, Insight("strategic_gap", p.id, <<r.goal, "missing_owner">>, "low"))

Detect(p) ==
    CASE p.kind = "sales" -> Concentration(p, "sales_channel_risk", 60)
      [] p.kind = "customers" -> Concentration(p, "customer_concentration", 50)
      [] p.kind = "financial" -> Margin(p) \o Expenses(p)
      [] p.kind = "marketing" -> MarketingRoi(p)
      [] p.kind = "feedback" -> Feedback(p)
      [] p.kind = "products" -> OfRows(p, LAMBDA r : ProductRisk(p, r))
      [] p.kind = "competitors" -> OfRows(p, LAMBDA r : CompetitorRisk(p, r))
      [] p.kind = "operations" -> OfRows(p, LAMBDA r : Bottleneck(p, r))
      [] p.kind = "analytics" -> OfRows(p, LAMBDA r : Conversion(p, r))
      [] p.kind = "strategic" -> OfRows(p, LAMBDA r : StrategicGap(p, r))

-----------------------------------------------------------------------------
(* The graph                                                                *)

Into(g, e, types) == {x \in g.edges : x.to = e /\ x.type \in types}

DependencyRisk(g) ==
    LET Needs(e) == Cardinality(Into(g, e, {"depends_on"})) IN
    {Insight("dependency_risk", e, <<Needs(e)>>, Level(Needs(e) >= 4)) :
        e \in {x.to : x \in {y \in g.edges : Needs(y.to) >= 2}}}

Contradictions(g) ==
    {Insight("contradiction", x.id, <<>>, "high") : x \in {y \in g.edges : y.type = "contradicts"}}

\* Of two things one of which is owned by the other, the owner counts as owned.
OwnershipGap(g) ==
    {[Insight("strategic_gap", "ownership", <<e.id>>, "low") EXCEPT
          !.category = IF e.kind = "system" THEN "operations_bottleneck" ELSE @] :
        e \in {d \in g.entities :
                 /\ d.kind \in {"system", "project", "technology"}
                 /\ Into(g, d.id, {"owned_by", "managed_by", "maintained_by"}) = {}
                 /\ \E x \in g.edges : d.id \in {x.from, x.to}}}

\* run_detectors
RunDetectors(profiles, graph) ==
    LET OfProfile(p) == MissingData(p) \o DataQuality(p)
        n == Len(profiles) IN
    FoldLeft(Added, {},
             FlattenSeq([i \in 1..n |-> OfProfile(profiles[i])])
             \o FlattenSeq([i \in 1..n |-> Detect(profiles[i])])
             \o SetToSeq(DependencyRisk(graph) \cup Contradictions(graph) \cup OwnershipGap(graph)))
=============================================================================
