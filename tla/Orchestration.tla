---------------------------- MODULE Orchestration ----------------------------
(***************************************************************************)
(* How a question is taken apart (orchestration/problem_analyzer.py), which  *)
(* tools it calls for (orchestration/dispatcher.py), which insights matter   *)
(* to it (context/selector.py), and who discusses it (war_room/dispatcher.py). *)
(*                                                                         *)
(* A question is [named, broader, about]: the types of decision for which it  *)
(* holds a keyword of the first or of the second list, and the categories of  *)
(* insights for which it does.                                              *)
(***************************************************************************)
EXTENDS Integers, Sequences, TLC

LOCAL INSTANCE FiniteSetsExt
LOCAL INSTANCE Functions

Order == <<"financial", "customer", "sales", "marketing", "feedback", "product",
           "competitor", "operations", "analytics", "strategic", "technical", "risk">>
Types == Range(Order) \cup {"general"}

\* Of several types the first one in the list.
FirstOf(types) == Order[Min({i \in DOMAIN Order : Order[i] \in types})]

\* _detect_decision_type
DecisionType(q) ==
    IF q.named # {} THEN FirstOf(q.named)
    ELSE IF q.broader # {} THEN FirstOf(q.broader)
    ELSE "general"

\* data_categories of _TYPE_CONFIG.
DataCategories(type) ==
    CASE type = "customer" -> {"customers"}
      [] type = "product" -> {"products", "feedback"}
      [] type = "competitor" -> {"competitors"}
      [] type = "analytics" -> {"analytics", "marketing"}
      [] type = "strategic" -> {"strategic", "financial"}
      [] type = "risk" -> {"financial", "operations", "feedback"}
      [] type \in {"technical", "general"} -> {}
      [] OTHER -> {type}

-----------------------------------------------------------------------------
(* Tools                                                                    *)

\* What a tool reads that another one writes (_TOOLS).
Reads == [t \in {"init-data-catalog", "seed-demo-data", "import-datasets", "extract-graph"} |-> {}]
         @@ ("profile-data" :> {"init-data-catalog", "seed-demo-data", "import-datasets"}
             @@ "map-ontology" :> {"profile-data"}
             @@ "detect-patterns" :> {"init-data-catalog", "seed-demo-data", "import-datasets",
                                      "profile-data", "map-ontology", "extract-graph"})

\* _select_tools
SelectTools(type) ==
    LET profiled == DataCategories(type) # {}
        graphed == type \in {"strategic", "technical", "risk"} IN
    {"init-data-catalog", "seed-demo-data", "import-datasets"}
    \cup (IF profiled THEN {"profile-data", "map-ontology"} ELSE {})
    \cup (IF graphed THEN {"extract-graph"} ELSE {})
    \cup (IF profiled \/ graphed THEN {"detect-patterns"} ELSE {})

Priority == <<"init-data-catalog", "seed-demo-data", "import-datasets", "profile-data",
              "extract-graph", "map-ontology", "detect-patterns">>


\* _execution_order
ExecutionOrder(tools) == SelectSeq(Priority, LAMBDA t : t \in tools)

\* build_dispatch_plan
Plan(q) ==
    LET tools == SelectTools(DecisionType(q)) IN
    [order |-> ExecutionOrder(tools), skipped |-> DOMAIN Reads \ tools]

-----------------------------------------------------------------------------
(* Insights                                                                 *)

\* The data an insight of a category is about.
DataOf(category) ==
    CASE category \in {"revenue_risk", "profit_margin_risk"} -> {"financial"}
      [] category = "customer_concentration" -> {"customers"}
      [] category = "sales_channel_risk" -> {"sales"}
      [] category = "marketing_roi_risk" -> {"marketing"}
      [] category = "feedback_risk" -> {"feedback"}
      [] category = "product_risk" -> {"products"}
      [] category = "competitor_risk" -> {"competitors"}
      [] category = "operations_bottleneck" -> {"operations"}
      [] category = "analytics_conversion_risk" -> {"analytics", "marketing"}
      [] category = "strategic_gap" -> {"strategic", "financial"}
      [] OTHER -> {}

\* The data whose name is part of the name of the category.
NamedAfter(category) ==
    CASE category = "sales_channel_risk" -> {"sales"}
      [] category = "marketing_roi_risk" -> {"marketing"}
      [] category = "feedback_risk" -> {"feedback"}
      [] category = "operations_bottleneck" -> {"operations"}
      [] category = "analytics_conversion_risk" -> {"analytics"}
      [] category = "strategic_gap" -> {"strategic"}
      [] OTHER -> {}

Serious(i) == i.severity \in {"high", "critical"}

\* select_relevant_insights; an insight shares a concept with a type if it says so.
Relevant(q, insights) ==
    LET type == DecisionType(q) IN
    {i \in insights :
        \/ Serious(i)
        \/ DataOf(i.category) \cap DataCategories(type) # {}
        \/ i.category \in q.about
        \/ type \in i.concerns}

\* build_judge_summary: how sure it is, and what people have to look at.
Judged(insights, incomplete) ==
    [confidence |-> IF incomplete \/ insights = {} THEN "low" ELSE "medium",
     review |-> {i.id : i \in {x \in insights : Serious(x) \/ x.category = "contradiction"}}]

-----------------------------------------------------------------------------

\* _ROLE_SELECTION of the war room.
Roles(type) ==
    CASE type = "financial" -> <<"financial_analyst", "risk_analyst">>
      [] type = "customer" -> <<"customer_analyst", "risk_analyst">>
      [] type \in {"sales", "product"} -> <<"sales_analyst", "product_analyst">>
      [] type = "marketing" -> <<"marketing_analyst", "financial_analyst">>
      [] type = "feedback" -> <<"customer_analyst", "product_analyst", "risk_analyst">>
      [] type = "competitor" -> <<"strategy_analyst", "risk_analyst">>
      [] type = "operations" -> <<"operations_analyst", "risk_analyst">>
      [] type = "analytics" -> <<"marketing_analyst", "product_analyst">>
      [] type = "technical" -> <<"technical_analyst", "risk_analyst">>
      [] type = "strategic" -> <<"strategy_analyst", "risk_analyst", "legal_analyst">>
      [] type = "risk" -> <<"risk_analyst", "technical_analyst">>
      [] type = "general" -> <<>>
=============================================================================
