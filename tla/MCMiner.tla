------------------------------- MODULE MCMiner ------------------------------
(***************************************************************************)
(* Dashboards and alert rules for TLC.  Ordinary ones differ in identity,  *)
(* title, description and filter (this service or another one; for rules   *)
(* an empty or another error).  A variant is an ordinary one whose query   *)
(* differs in one place; at most one panel of a dashboard is a variant,    *)
(* next to one ordinary panel.                                             *)
(***************************************************************************)
EXTENDS Miner

CONSTANTS Panels, Names, MaxWidgets

With(record, field, values) ==
  {[record EXCEPT ![field] = value] : value \in values}

Aggregation(expression) ==
  [expression |-> expression, fieldDataType |-> "", dataType |-> ""]

Spec0(expression, terms) ==
  [name |-> "", queryName |-> "A", signal |-> "traces", dataSource |-> "traces",
   source |-> "", aggregations |-> <<Aggregation(expression)>>,
   filter |-> terms, filterFieldDataType |-> "", filterDataType |-> "",
   fieldDataType |-> "", disabled |-> FALSE, lists |-> {}, having |-> "",
   unknown |-> FALSE]

SpecVariants(spec) ==
  LET aggregation == Head(spec.aggregations)
      texts == {"", "traces", "other"}
      types == {"number", "string"}
  IN UNION {
       UNION {With(signaled, "dataSource", texts) :
                signaled \in UNION {With(sourced, "signal", texts) :
                  sourced \in With(spec, "source", texts)}},
       With([spec EXCEPT !.name = "B"], "queryName", {"", "A"}),
       With(spec, "queryName", {""}),
       With(spec, "fieldDataType", types),
       With(spec, "filterFieldDataType", types),
       With(spec, "filterDataType", types),
       With(spec, "disabled", {TRUE}),
       With(spec, "unknown", {TRUE}),
       With(spec, "lists", {{"groupBy"}, {"orderBy"}, {"functions"}}),
       With(spec, "having",
            {"null", "[]", "{}", "{expression: ''}", "[x]", "{expression: x}",
             "'x'"}),
       With(spec, "filter", {<< >>}),
       With(spec, "aggregations",
            {<< >>, <<aggregation, aggregation>>, <<Aggregation("other")>>}
            \cup {<<a>> : a \in With(aggregation, "fieldDataType", types)
                              \cup With(aggregation, "dataType", types)})}

----------------------------------------------------------------------------
PanelTerms ==
  {[f \in PanelFields |-> IF f = "service.name" THEN s ELSE 1] : s \in 1..2}
AlertTerms ==
  {[f \in AlertFields |-> IF f = "error.type" THEN e ELSE 1] : e \in 0..2}
  \cup {[f \in AlertFields |-> IF f = "service.name" THEN 2 ELSE 1]}
Terms == PanelTerms \cup AlertTerms
Ours == [f \in PanelFields |-> 1]
OurFault == [f \in AlertFields |-> 1]

Query(spec) ==
  [queryType |-> "builder", queryData |-> <<spec>>, lists |-> {},
   unknown |-> FALSE]
OurSum == Spec0("sum(cart.value)", Ours)
QueryVariants ==
  {Query(spec) : spec \in SpecVariants(OurSum)} \cup UNION {
    With(Query(OurSum), "queryType", {"", "promql"}),
    With(Query(OurSum), "queryData", {<< >>, <<OurSum, OurSum>>}),
    With(Query(OurSum), "lists",
         {{l} : l \in {"promql", "clickhouse_sql", "queryFormulas",
                       "queryTraceOperator"}}),
    With(Query(OurSum), "unknown", {TRUE})}

PlainWidgets ==
  {[panel |-> p, name |-> n, describes |-> d,
    query |-> Query(Spec0("sum(cart.value)", terms))] :
     p \in Panels, n \in Names, d \in BOOLEAN, terms \in Terms}
Fixed ==
  [panel |-> 2, name |-> "plain", describes |-> TRUE, query |-> Query(OurSum)]
WidgetVariants ==
  With(Fixed, "query", QueryVariants)
  \cup {[Fixed EXCEPT !.panel = 0], [Fixed EXCEPT !.name = ""]}
Other == [Fixed EXCEPT !.panel = 3]

MCDashboards ==
  UNION {[1..n -> PlainWidgets] : n \in 0..MaxWidgets}
  \cup {<<v>> : v \in WidgetVariants} \cup {<<v, Other>> : v \in WidgetVariants}
  \cup {<<Other, v>> : v \in WidgetVariants}

----------------------------------------------------------------------------
Condition(spec) ==
  [queryType |-> "builder", panelType |-> "graph",
   queries |-> <<[type |-> "builder_query", spec |-> spec]>>,
   selectedQueryName |-> "A", thresholds |-> <<"critical">>, unknown |-> FALSE]
OurCount == Spec0("count()", OurFault)
Formula == [type |-> "builder_formula", spec |-> OurCount]
ConditionVariants ==
  {Condition(spec) : spec \in SpecVariants(OurCount)} \cup UNION {
    With(Condition(OurCount), "queryType", {"", "promql"}),
    With(Condition(OurCount), "panelType", {"", "table"}),
    With(Condition(OurCount), "queries",
         {<< >>, <<Formula>>, <<[Formula EXCEPT !.type = ""]>>,
          Condition(OurCount).queries \o <<Formula>>}),
    With(Condition(OurCount), "selectedQueryName", {"", "B"}),
    With(Condition(OurCount), "thresholds", {<< >>, <<"critical", "">>}),
    With(Condition(OurCount), "unknown", {TRUE})}

\* What the name of a rule says of its identity: no name has none, and a null
\* is another rule than the one about payments.
Named ==
  {<<0, "">>} \cup {i \in {0, PaymentTimeout, 2} \X Names :
                     i[2] = "null" => i[1] = 2}

MCRules ==
  {[identity |-> i[1], name |-> i[2], describes |-> d,
    condition |-> Condition(Spec0("count()", t))] :
     i \in Named, d \in BOOLEAN, t \in Terms}
  \cup {[identity |-> PaymentTimeout, name |-> "plain", describes |-> TRUE,
         condition |-> c] : c \in ConditionVariants}

=============================================================================
