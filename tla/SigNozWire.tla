------------------------------ MODULE SigNozWire ------------------------------
(***************************************************************************)
(* What the adapter makes of the JSON of a dashboard and an alert rule     *)
(* (internal/signoz/client.go): strict decoding of everything that an      *)
(* answer depends on, the checks of required fields, and the typed query   *)
(* with the list of the nodes that Guardian does not support.              *)
(*                                                                         *)
(* "" is an absent or empty text.  The wire form of a query is a record    *)
(* with one field per JSON field; `unknown' says that it, its filter, an   *)
(* aggregation or a grouping has a field that the decoder does not know.   *)
(***************************************************************************)
EXTENDS Naturals, Sequences, SequencesExt

FirstNonEmpty(values) ==
  LET given == {i \in DOMAIN values : values[i] # ""}
  IN  IF given = {} THEN ""
      ELSE values[CHOOSE i \in given : \A j \in given : i <= j]

\* The forms of `having': null and empty ones hold nothing.
EmptyForms == {"", "null", "[]", "{}", "{expression: ''}"}
HasJSONContent(raw) == raw \notin EmptyForms

\* Mutant: unknown fields are passed over.
DecodesAnyway(node) == TRUE

\* DisallowUnknownFields.
Decodes(node) == ~node.unknown

\* Every structure below the query of a panel and below the condition of a rule
\* is decoded so, whatever the type of the query.
DecodesQuery(query) ==
  Decodes(query) /\ \A spec \in ToSet(query.queryData) : Decodes(spec)
DecodesCondition(condition) ==
  /\ Decodes(condition)
  /\ \A query \in ToSet(condition.queries) : Decodes(query.spec)

----------------------------------------------------------------------------
\* validateQuerySpecWire and mapQuerySpecAt.

ValidSpec(spec) ==
  /\ FirstNonEmpty(<<spec.name, spec.queryName>>) # ""
  /\ FirstNonEmpty(<<spec.signal, spec.dataSource, spec.source>>) # ""
  /\ spec.aggregations # << >>
  /\ DOMAIN spec.filter # {}

MapAggregation(aggregation) ==
  [expression |-> aggregation.expression,
   fieldDataType |-> FirstNonEmpty(<<aggregation.fieldDataType,
                                     aggregation.dataType>>)]

\* groupBy, orderBy and functions are the lists that are not empty.
UnsupportedNodes(spec) ==
  spec.lists \cup (IF HasJSONContent(spec.having) THEN {"having"} ELSE {})

MapQuerySpec(spec) ==
  [name |-> FirstNonEmpty(<<spec.name, spec.queryName>>),
   signal |-> spec.signal,
   dataSource |-> FirstNonEmpty(<<spec.dataSource, spec.source>>),
   aggregations |-> [i \in DOMAIN spec.aggregations |->
                       MapAggregation(spec.aggregations[i])],
   filter |-> spec.filter,
   filterDataType |-> FirstNonEmpty(<<spec.filterFieldDataType,
                                      spec.filterDataType>>),
   fieldDataType |-> spec.fieldDataType,
   disabled |-> spec.disabled,
   unsupported |-> UnsupportedNodes(spec)]

----------------------------------------------------------------------------
\* The query of a panel: validateDashboardWire, dashboard and mapBuilderQuery.
\* A query of another type is checked by nobody here.

ValidPanelQuery(query) ==
  /\ query.queryType # ""
  /\ query.queryType = "builder" =>
       /\ query.queryData # << >>
       /\ \A spec \in ToSet(query.queryData) : ValidSpec(spec)

\* promql, clickhouse_sql, queryFormulas and queryTraceOperator are the lists
\* that are not empty.
MapPanelQuery(query) ==
  [queryType |-> query.queryType,
   queryData |-> [i \in DOMAIN query.queryData |->
                    MapQuerySpec(query.queryData[i])],
   unsupported |-> query.lists]

----------------------------------------------------------------------------
\* The condition of a rule: validateAlertWire and alert.  A node that is no
\* builder query is not checked further.

ValidCondition(condition) ==
  /\ condition.queryType # ""
  /\ condition.queryType = "builder" =>
       /\ condition.queries # << >>
       /\ \A query \in ToSet(condition.queries) :
            /\ query.type # ""
            /\ query.type = "builder_query" => ValidSpec(query.spec)
  /\ condition.thresholds # << >>
  /\ "" \notin ToSet(condition.thresholds)

MapCondition(condition) ==
  [queryType |-> condition.queryType,
   panelType |-> condition.panelType,
   queries |-> [i \in DOMAIN condition.queries |->
                  [nodeType |-> condition.queries[i].type,
                   spec |-> MapQuerySpec(condition.queries[i].spec)]],
   selectedQueryName |-> condition.selectedQueryName,
   thresholds |-> condition.thresholds]

=============================================================================
