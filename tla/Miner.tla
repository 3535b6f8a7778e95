------------------------------- MODULE Miner --------------------------------
(***************************************************************************)
(* `guardian mine` (internal/miner and runMine in cmd/guardian/main.go)    *)
(* and the loading of its file by `guardian verify`.                       *)
(*                                                                         *)
(* The dashboard and the alert rule come through the adapter (SigNozWire). *)
(* A collector goes through the panels of the dashboard and the rule, and  *)
(* merges what they require; the requirements come out of a Go map in any  *)
(* order.  The file is written in place, so that a kill leaves the first   *)
(* part of it.                                                             *)
(***************************************************************************)
EXTENDS Contract, SigNozWire, FiniteSets

CONSTANTS
  Service,        \* the service that the contract is mined for
  Dashboards,     \* dashboards in their wire form: sequences of panels
  Rules           \* alert rules in their wire form

\* A panel is [panel, name, describes, query]: its identity as it enters the
\* consumer's, its title, whether its description names the operation.  A rule
\* is [identity, name, describes, condition]: its identity is what
\* alertLogicalID makes of its name, 0 when nothing is left.
Widgets == UNION {ToSet(d) : d \in Dashboards}

ASSUME MinerAssumption ==
  /\ Service \in Nat \ {0}
  /\ \A widget \in Widgets : widget.panel \in Nat \ {1}
  /\ \A widget \in Widgets : widget.name \in DOMAIN ReadBack \cup {""}
  /\ \A rule \in Rules :
       rule.identity \in Nat /\ rule.name \in DOMAIN ReadBack \cup {""}

\* What a JSON array is decoded to.
IsList(values) == values \in Seq(ToSet(values))

\* The wire forms: arrays are lists, services are numbers.
WireSpec(spec) ==
  /\ IsList(spec.aggregations)
  /\ "service.name" \in DOMAIN spec.filter => spec.filter["service.name"] \in Nat

ASSUME WireAssumption ==
  /\ Dashboards \subseteq Seq(Widgets)
  /\ \A widget \in Widgets :
       /\ IsList(widget.query.queryData)
       /\ \A spec \in ToSet(widget.query.queryData) : WireSpec(spec)
  /\ \A rule \in Rules :
       /\ IsList(rule.condition.queries)
       /\ \A query \in ToSet(rule.condition.queries) : WireSpec(query.spec)

VARIABLES
  pc,
  dashboard,      \* the panels, as SigNoz returned them
  alert,          \* the alert rule, as SigNoz returned it; NoRule before
  next,           \* the panel that is read next
  consumers,      \* collector.consumers
  requirements,   \* collector.requirements
  contract,
  file,           \* the contract file
  whole           \* history: the file was written to its end

vars == <<pc, dashboard, alert, next, consumers, requirements, contract, file,
          whole>>

NoRule == [identity |-> 0]
Empty == [consumers |-> << >>, checks |-> << >>]
AlertConsumer == 1

\* Positions in the two resources, in the order of the JSON paths.
AlertNamePath == 1
AlertTextPath == 2
AlertFilterPath == 3
WidgetTextPath(w) == 2 * w + 2
WidgetSumPath(w) == 2 * w + 3

----------------------------------------------------------------------------
\* The queries that the collector supports, as the adapter hands them over.

\* parseFilterTerms gives the terms; an empty value is 0.  An expression that is
\* no conjunction of distinct terms is a set of terms with a field of its own.
PanelFields == {"service.name", "run.id"}
AlertFields == PanelFields \cup {"error.type"}
PaymentTimeoutError == 1

Scoped(terms, fields) ==
  DOMAIN terms = fields /\ \A field \in fields : terms[field] # 0

\* The filter of the requirement: in the order of the fields, the run's
\* identity replaced by the placeholder.
ScopedFilter(terms) ==
  [service |-> terms["service.name"], error |-> "error.type" \in DOMAIN terms]

Only(list) == Len(list) = 1
NumericType(type) == type = "number"

SupportedPanel(query) ==
  /\ query.queryType = "builder" /\ query.unsupported = {}
  /\ Only(query.queryData)
  /\ LET spec == Head(query.queryData)
     IN /\ spec.unsupported = {} /\ ~spec.disabled
        /\ spec.signal \in {"", "traces"} /\ spec.dataSource = "traces"
        /\ spec.fieldDataType = "" \/ NumericType(spec.fieldDataType)
        /\ Only(spec.aggregations)
        /\ LET aggregation == Head(spec.aggregations)
           IN /\ aggregation.expression = "sum(cart.value)"
              /\ \/ aggregation.fieldDataType = ""
                 \/ NumericType(aggregation.fieldDataType)
        /\ spec.filterDataType \in {"", "string"}
        /\ Scoped(spec.filter, PanelFields)

SupportedCondition(condition) ==
  /\ condition.queryType = "builder"
  /\ condition.panelType \in {"", "graph"}
  /\ Only(condition.queries)
  /\ LET spec == Head(condition.queries).spec
     IN /\ Head(condition.queries).nodeType = "builder_query"
        /\ spec.unsupported = {} /\ ~spec.disabled
        /\ spec.signal = "traces" /\ spec.dataSource \in {"", "traces"}
        /\ spec.fieldDataType \in {"", "string"}
        /\ spec.filterDataType \in {"", "string"}
        /\ Scoped(spec.filter, AlertFields)
        /\ spec.filter["error.type"] = PaymentTimeoutError
        /\ condition.selectedQueryName \in {"", spec.name}
        /\ Only(spec.aggregations)
        /\ Head(spec.aggregations).expression = "count()"

----------------------------------------------------------------------------
\* The collector.

Requirement(id, path, filter, name) ==
  [id |-> id, path |-> path, filter |-> filter, alert |-> name]

New(consumer, r) ==
  [id |-> r.id, path |-> r.path, paths |-> << >>, filter |-> r.filter,
   filters |-> << >>, consumers |-> <<consumer>>, alert |-> r.alert]

\* Mutant: the empty filter of a requirement is collected as well.
MergedUnfiltered(current, consumer, r) ==
  [current EXCEPT !.paths = Append(@, r.path),
                  !.consumers = Append(@, consumer),
                  !.filters = Append(@, r.filter)]

Merged(current, consumer, r) ==
  [current EXCEPT !.paths = Append(@, r.path),
                  !.consumers = Append(@, consumer),
                  !.filters = @ \o Given(r.filter, NoFilter)]

Collect(known, consumer, r) ==
  [id \in DOMAIN known \cup {r.id} |->
     IF id # r.id THEN known[id]
     ELSE IF id \in DOMAIN known THEN Merged(known[id], consumer, r)
     ELSE New(consumer, r)]

CollectAll(known, consumer, required) ==
  FoldLeft(LAMBDA current, r : Collect(current, consumer, r), known, required)

Conflict(known, r) ==
  r.id \in DOMAIN known /\ known[r.id].alert # r.alert

References(required) ==
  [i \in DOMAIN required |->
     [id |-> required[i].id, path |-> required[i].path]]

Fail ==
  /\ pc' = "failed"
  /\ UNCHANGED <<dashboard, alert, next, consumers, requirements, contract,
                 file, whole>>

\* Mutant: a consumer may come twice.
AddAgain(id, name, required, then) ==
  /\ consumers' = Append(consumers,
       [id |-> id, name |-> name,
        requires |-> References(required)])
  /\ requirements' = CollectAll(requirements, id, required)
  /\ pc' = then

\* Every requirement of a consumer is collected, or the mining fails.
Add(id, name, required, then) ==
  IF \/ id \in IdsOf(consumers)
     \/ \E r \in ToSet(required) : Conflict(requirements, r)
  THEN pc' = "failed" /\ UNCHANGED <<consumers, requirements>>
  ELSE /\ consumers' = Append(consumers,
            [id |-> id, name |-> name,
             requires |-> References(required)])
       /\ requirements' = CollectAll(requirements, id, required)
       /\ pc' = then

----------------------------------------------------------------------------
Init ==
  /\ pc = "getDashboard"
  /\ dashboard = << >> /\ alert = NoRule /\ next = 1
  /\ consumers = << >> /\ requirements = << >>
  /\ contract = Empty /\ file = Empty /\ whole = FALSE

ValidDashboard(panels) ==
  /\ panels # << >>
  /\ \A widget \in ToSet(panels) :
       /\ widget.panel # 0 /\ widget.name # ""
       /\ DecodesQuery(widget.query) /\ ValidPanelQuery(widget.query)

GetDashboard ==
  /\ pc = "getDashboard"
  /\ \E panels \in Dashboards :
       ValidDashboard(panels) /\ dashboard' = panels
  /\ pc' = "getAlert"
  /\ UNCHANGED <<alert, next, consumers, requirements, contract, file, whole>>

GetAlert ==
  /\ pc = "getAlert"
  /\ \E rule \in Rules :
       /\ rule.name # ""
       /\ DecodesCondition(rule.condition) /\ ValidCondition(rule.condition)
       /\ alert' = rule
  /\ pc' = "panels"
  /\ UNCHANGED <<dashboard, next, consumers, requirements, contract, file,
                 whole>>

\* The request fails, or the answer does not decode.
ResourceFails == pc \in {"getDashboard", "getAlert"} /\ Fail

Widget == dashboard[next]
ReadableWidget == SupportedPanel(MapPanelQuery(Widget.query))
FilterOf(widget) == Head(widget.query.queryData).filter

PanelRequirements(w) ==
  LET widget == dashboard[w]
  IN <<Requirement(CartValue, WidgetSumPath(w), ScopedFilter(FilterOf(widget)), 0)>>
     \o (IF widget.describes
         THEN <<Requirement(Operation, WidgetTextPath(w), NoFilter, 0)>>
         ELSE << >>)

RefuseWidget ==
  /\ pc = "panels" /\ next <= Len(dashboard) /\ ~ReadableWidget
  /\ Fail

ReadWidget ==
  /\ pc = "panels" /\ next <= Len(dashboard) /\ ReadableWidget
  /\ Add(Widget.panel, Widget.name, PanelRequirements(next), "panels")
  /\ next' = next + 1
  /\ UNCHANGED <<dashboard, alert, contract, file, whole>>

PanelsRead == pc = "panels" /\ next = Len(dashboard) + 1
ReadableAlert ==
  SupportedCondition(MapCondition(alert.condition)) /\ alert.identity # 0
FilterOfRule(rule) == Head(rule.condition.queries).spec.filter

AlertRequirements ==
  <<Requirement(ErrorType, AlertFilterPath,
                ScopedFilter(FilterOfRule(alert)), 0),
    Requirement(AlertMustFire, AlertNamePath, NoFilter, alert.identity)>>
  \o (IF alert.describes
      THEN <<Requirement(Operation, AlertTextPath, NoFilter, 0)>>
      ELSE << >>)

RefuseAlert == PanelsRead /\ ~ReadableAlert /\ Fail

ReadAlert ==
  /\ PanelsRead /\ ReadableAlert
  /\ Add(AlertConsumer, alert.name, AlertRequirements, "collected")
  /\ UNCHANGED <<dashboard, alert, next, contract, file, whole>>

----------------------------------------------------------------------------
\* The contract and its file.

OperationMissing ==
  /\ pc = "collected" /\ Operation \notin DOMAIN requirements
  /\ Fail

\* The checks are appended in the order in which the map hands them out.
Assemble ==
  /\ pc = "collected" /\ Operation \in DOMAIN requirements
  /\ \E order \in SetToSeqs(DOMAIN requirements) :
       contract' = Normalize(
         [consumers |-> consumers,
          checks |-> [i \in DOMAIN order |-> requirements[order[i]]]])
  /\ pc' = IF Validate(contract') THEN "write" ELSE "invalid"
  /\ UNCHANGED <<dashboard, alert, next, consumers, requirements, file, whole>>

WriteFile ==
  /\ pc = "write"
  /\ file' = Written(contract) /\ whole' = TRUE
  /\ pc' = "written"
  /\ UNCHANGED <<dashboard, alert, next, consumers, requirements, contract>>

\* The beginnings of a file, consumers first.  Those that end inside an entry
\* differ from those that end before it in fields that Validate demands.
Cut(check, k) == [check EXCEPT !.consumers = SubSeq(@, 1, k)]
Beginnings(full) ==
  {[consumers |-> SubSeq(full.consumers, 1, n), checks |-> << >>] :
     n \in 0..Len(full.consumers)}
  \cup UNION {
    {[consumers |-> full.consumers,
      checks |-> Append(SubSeq(full.checks, 1, n - 1), Cut(full.checks[n], k))] :
       k \in 0..Len(full.checks[n].consumers)} : n \in DOMAIN full.checks}

\* The disk is full, or the process dies, before the end of the file.
WriteBreaks ==
  /\ pc = "write"
  /\ file' \in Beginnings(Written(contract))
  /\ pc' = "written"
  /\ UNCHANGED <<dashboard, alert, next, consumers, requirements, contract,
                 whole>>

Load ==
  /\ pc = "written"
  /\ pc' = IF Validate(Loaded(file)) THEN "loaded" ELSE "rejected"
  /\ UNCHANGED <<dashboard, alert, next, consumers, requirements, contract,
                 file, whole>>

CheckCanonical ==
  /\ pc = "loaded"
  /\ pc' = IF ValidateChecks(Service, Loaded(file).checks)
           THEN "accepted" ELSE "refused"
  /\ UNCHANGED <<dashboard, alert, next, consumers, requirements, contract,
                 file, whole>>

Stopped ==
  /\ pc \in {"failed", "invalid", "rejected", "accepted", "refused"}
  /\ UNCHANGED vars

Next ==
  \/ GetDashboard \/ GetAlert \/ ResourceFails
  \/ RefuseWidget \/ ReadWidget \/ RefuseAlert \/ ReadAlert
  \/ OperationMissing \/ Assemble \/ WriteFile \/ WriteBreaks
  \/ Load \/ CheckCanonical \/ Stopped

Spec == Init /\ [][Next]_vars

----------------------------------------------------------------------------
\* Properties.

Mined == pc \in {"write", "written", "loaded", "rejected", "accepted", "refused"}

\* What the dashboard and the alert say, as a set of demands: this consumer
\* needs that requirement, as stated there.
Demand(consumer, id, path, filter) ==
  [consumer |-> consumer, id |-> id, path |-> path, filter |-> filter]
Demands ==
  {Demand(dashboard[w].panel, CartValue, WidgetSumPath(w),
          ScopedFilter(FilterOf(dashboard[w]))) : w \in DOMAIN dashboard}
  \cup {Demand(dashboard[w].panel, Operation, WidgetTextPath(w), NoFilter) :
          w \in {v \in DOMAIN dashboard : dashboard[v].describes}}
  \cup {Demand(AlertConsumer, ErrorType, AlertFilterPath,
               ScopedFilter(FilterOfRule(alert))),
        Demand(AlertConsumer, AlertMustFire, AlertNamePath, NoFilter)}
  \cup (IF alert.describes
        THEN {Demand(AlertConsumer, Operation, AlertTextPath, NoFilter)}
        ELSE {})

Increasing(values) == \A i, j \in DOMAIN values : i < j => values[i] < values[j]

\* The contract says what the dashboard and the alert demand, all of it and
\* nothing else, in both directions (the requirements of a consumer, the
\* consumers of a requirement), and in one order, whatever order the map of the
\* collector is read in: the same resources give the same file.
ContractIsCanonical ==
  Mined =>
    /\ [i \in DOMAIN contract.checks |-> contract.checks[i].id]
         = <<CartValue, ErrorType, Operation, AlertMustFire>>
    /\ Increasing([i \in DOMAIN contract.consumers |->
                    contract.consumers[i].id])
    /\ \A check \in ToSet(contract.checks) :
         LET mine == {d \in Demands : d.id = check.id}
         IN /\ Increasing(check.consumers) /\ Increasing(check.paths)
            /\ ToSet(check.consumers) = {d.consumer : d \in mine}
            /\ ToSet(check.paths) = {d.path : d \in mine}
            /\ ToSet(check.filters) = {d.filter : d \in mine} \ {NoFilter}
    /\ UNION {{<<c.id, ref.id, ref.path>> : ref \in ToSet(c.requires)} :
                c \in ToSet(contract.consumers)}
         = {<<d.consumer, d.id, d.path>> : d \in Demands}

\* Whatever the collector accepts is a valid contract: a mining that got that
\* far does not end in a complaint about the miner's own document.
CollectedIsValid == pc # "invalid"

\* A file that was written to its end is accepted by LoadYAML, and the file of a
\* broken write is either rejected or as good as the whole: never does
\* `guardian verify` get a contract that lacks a part of the mined one.  (So it
\* is where every title and alert name is read back as it was written; the run
\* with other names refutes it.)
LoadedIsMined ==
  /\ whole => pc # "rejected"
  /\ pc = "loaded" => Loaded(file) = contract

\* The verifier, which parses the filters again, takes exactly the contracts
\* that were mined from panels and a rule about this service and from the payment
\* timeout alert: the miner's placeholders, its order of terms and the merging
\* of equal filters are what it expects, and filters of two services are not.
VerifiedIsAboutService ==
  pc \in {"accepted", "refused"} =>
    (pc = "accepted" <=>
       /\ \A w \in DOMAIN dashboard :
            FilterOf(dashboard[w])["service.name"] = Service
       /\ FilterOfRule(alert)["service.name"] = Service
       /\ alert.identity = PaymentTimeout)

\* No part of a query that would narrow or replace it is dropped on the way from
\* the JSON to the contract: a contract is mined from panels whose query is, in
\* its wire form, the sum of cart.value over traces and nothing else, and from a
\* rule that selects such a count.  (source and dataType are other names of
\* dataSource and fieldDataType, which have precedence.)
Alone(spec, expression) ==
  /\ ~spec.unknown /\ ~spec.disabled
  /\ spec.lists = {} /\ spec.having \in EmptyForms
  /\ {spec.signal, FirstNonEmpty(<<spec.dataSource, spec.source>>)} \ {""}
       = {"traces"}
  /\ [i \in DOMAIN spec.aggregations |-> spec.aggregations[i].expression]
       = <<expression>>

NothingIsDropped ==
  Mined =>
    /\ \A widget \in ToSet(dashboard) :
         /\ widget.query.queryType = "builder"
         /\ widget.query.lists = {} /\ ~widget.query.unknown
         /\ \A spec \in ToSet(widget.query.queryData) :
              Alone(spec, "sum(cart.value)")
    /\ LET condition == alert.condition
       IN /\ ~condition.unknown
          /\ \A query \in ToSet(condition.queries) :
               /\ query.type = "builder_query"
               /\ Alone(query.spec, "count()")
               /\ condition.selectedQueryName \in
                    {"", query.spec.name, query.spec.queryName}

TypeOK ==
  /\ pc \in {"getDashboard", "getAlert", "panels", "collected", "write",
             "written", "loaded", "failed", "invalid", "rejected", "accepted",
             "refused"}
  /\ dashboard \in Dashboards \cup {<< >>}
  /\ alert \in Rules \cup {NoRule} /\ next \in 1..Len(dashboard) + 1
  /\ consumers \in Seq(ConsumerRecord)
  /\ DOMAIN requirements \subseteq RequirementIds
  /\ \A id \in DOMAIN requirements :
       /\ requirements[id] \in CheckRecord /\ requirements[id].id = id
       /\ NoFilter \notin ToSet(requirements[id].filters)
  /\ contract \in Documents /\ file \in Documents
  /\ whole \in BOOLEAN

=============================================================================
