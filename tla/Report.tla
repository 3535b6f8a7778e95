------------------------------- MODULE Report -------------------------------
(***************************************************************************)
(* `guardian report`: runReport (cmd/guardian/main.go) around Build of     *)
(* internal/report, which turns a verdict and a contract into the document *)
(* behind the HTML report and the Markdown summary.                        *)
(*                                                                         *)
(* The verdict file is whatever lies there: a verdict of `guardian         *)
(* verify`, one of another contract, one written by hand, or no verdict at *)
(* all.  Both outputs are written in place, one after the other.           *)
(***************************************************************************)
EXTENDS Verdicts, FiniteSets

CONSTANTS
  Contracts,   \* contracts: the declared consumers; requirement |-> who needs it
  Dashboard,   \* consumer |-> the dashboard of a panel; NoDashboard for alerts
  Ids,         \* requirement ids met in verdicts
  Affected,    \* consumers that a check result names as affected
  MaxChecks    \* bound on the check results of a verdict

NoDashboard == 0
Required(known) == DOMAIN known.needs

\* Contract.Validate: every check has consumers, all of them declared.
ASSUME ReportAssumption ==
  /\ \A contract \in Contracts :
       /\ contract.consumers \subseteq DOMAIN Dashboard
       /\ Required(contract) \subseteq Ids /\ Required(contract) # {}
       /\ \A id \in Required(contract) :
            /\ contract.needs[id] # {}
            /\ contract.needs[id] \subseteq contract.consumers
  /\ Ids \subseteq Nat /\ MaxChecks \in Nat

VARIABLES
  pc,
  contract,    \* the loaded contract
  verdict,     \* the decoded verdict
  document,
  code,        \* exit code; NoCode while running or when killed
  withSummary, \* a Markdown output is asked for
  html, summary

vars == <<pc, contract, verdict, document, code, withSummary, html, summary>>

NoCode == 9
NoDocument == [state |-> "NONE"]

\* A file: the document it shows, and whether it was written to its end.
File(d, whole) == [document |-> d, whole |-> whole]
Absent == File(NoDocument, FALSE)
Earlier == File([state |-> "EARLIER"], TRUE)

Check == [id: Ids, state: State \cup {"OTHER"}, affected: Affected]
Verdict == [overall: State \cup {"OTHER"},
            checks: UNION {[1..n -> Check] : n \in 0..MaxChecks}]

----------------------------------------------------------------------------
\* report.Build.

States(checks) == [i \in DOMAIN checks |-> checks[i].state]
Permuted(checks, order) == [i \in DOMAIN checks |-> checks[order[i]]]

\* sort.Slice
Sorted(checks) ==
  \A i, j \in DOMAIN checks : i < j => checks[i].id <= checks[j].id
ById(checks) ==
  Permuted(checks, CHOOSE order \in SetToSeqs(DOMAIN checks) :
                     Sorted(Permuted(checks, order)))

\* The consumers a violation is reported for: those the result names, or else
\* all of the requirement's.
Reached(known, check) ==
  IF check.affected = {} THEN known.needs[check.id] ELSE check.affected

\* As many results as checks, each for a check of its own; the declared state
\* that of the results; no consumer but those that the contract declares.
Accepts(known, v) ==
  /\ v.overall \in State
  /\ Len(v.checks) = Cardinality(Required(known))
  /\ AggregateReportState(States(ById(v.checks))) = v.overall
  /\ {v.checks[i].id : i \in DOMAIN v.checks} = Required(known)
  /\ \A i \in DOMAIN v.checks :
       v.checks[i].state # "PASS" =>
         Reached(known, v.checks[i]) \subseteq known.consumers

Node(kind, id) == [kind |-> kind, id |-> id]
Edge(from, to, label) == [from |-> from, to |-> to, label |-> label]
RequirementNode(id) == Node("requirement", id)
ConsumerNode(c) == Node("consumer", c)
DashboardNode(c) == Node("dashboard", Dashboard[c])

\* Mutant: an inconclusive check breaks its consumers.
RelationshipBreaks(state) == "BREAKS"

Relationship(state) == IF state = "INCONCLUSIVE" THEN "UNRESOLVED" ELSE "BREAKS"

\* addConsumerGraph
ConsumerNodes(c) ==
  {ConsumerNode(c)}
    \cup (IF Dashboard[c] = NoDashboard THEN {} ELSE {DashboardNode(c)})
ConsumerEdges(c, check) ==
  {Edge(ConsumerNode(c), RequirementNode(check.id), "REQUIRED_BY"),
   Edge(RequirementNode(check.id), ConsumerNode(c), Relationship(check.state))}
    \cup (IF Dashboard[c] = NoDashboard THEN {}
          ELSE {Edge(ConsumerNode(c), DashboardNode(c), "PART_OF")})

\* What a result that did not pass draws.
DrawnNodes(known, check) ==
  {RequirementNode(check.id)}
    \cup UNION {ConsumerNodes(c) : c \in Reached(known, check)}
DrawnEdges(known, check) ==
  UNION {ConsumerEdges(c, check) : c \in Reached(known, check)}

\* addNode keeps the node, and its state, that is there already.
AddNodes(nodes, drawn, state) ==
  [n \in DOMAIN nodes \cup drawn |->
     IF n \in DOMAIN nodes THEN nodes[n] ELSE state]

AddCheck(known, d, check) ==
  LET listed == [d EXCEPT !.evidence = Append(@, check)]
  IN IF check.state = "PASS" THEN listed
     ELSE [listed EXCEPT
            !.nodes = AddNodes(@, DrawnNodes(known, check), check.state),
            !.edges = @ \cup DrawnEdges(known, check)]

Blank(overall) == [state |-> overall, nodes |-> << >>, edges |-> {},
                   evidence |-> << >>]

\* Mutant: the results are drawn as they come.
BuildUnsorted(known, v) ==
  FoldLeft(LAMBDA d, check : AddCheck(known, d, check), Blank(v.overall),
           v.checks)

\* The lists of nodes and of edges are sorted in the end: sets, here.
Build(known, v) ==
  FoldLeft(LAMBDA d, check : AddCheck(known, d, check), Blank(v.overall),
           ById(v.checks))

----------------------------------------------------------------------------
\* runReport.

Init ==
  /\ pc = "load" /\ code = NoCode
  /\ contract \in Contracts /\ verdict \in Verdict
  /\ document = NoDocument
  /\ withSummary \in BOOLEAN
  /\ html \in {Absent, Earlier} /\ summary \in {Absent, Earlier}

Exit(c) == pc' = "exited" /\ code' = c

\* Flags; the contract does not load; the file is not one JSON verdict.
RejectInputs ==
  /\ pc = "load" /\ Exit(3)
  /\ UNCHANGED <<contract, verdict, document, withSummary, html, summary>>

\* Mutant: an exit code nobody documents.
RejectWithUsage ==
  /\ pc = "load" /\ ~Accepts(contract, verdict)
  /\ Exit(4)
  /\ UNCHANGED <<contract, verdict, document, withSummary, html, summary>>

RejectVerdict ==
  /\ pc = "load" /\ ~Accepts(contract, verdict)
  /\ Exit(3)
  /\ UNCHANGED <<contract, verdict, document, withSummary, html, summary>>

BuildDocument ==
  /\ pc = "load" /\ Accepts(contract, verdict)
  /\ document' = Build(contract, verdict)
  /\ pc' = "render"
  /\ UNCHANGED <<contract, verdict, code, withSummary, html, summary>>

Render ==
  /\ pc = "render" /\ pc' = "openReport"
  /\ UNCHANGED <<contract, verdict, document, code, withSummary, html, summary>>

\* writeFile: the file is truncated when it is opened.
OpenReport ==
  /\ pc = "openReport" /\ pc' = "writeReport"
  /\ html' = File(document, FALSE)
  /\ UNCHANGED <<contract, verdict, document, code, withSummary, summary>>

WriteReport ==
  /\ pc = "writeReport"
  /\ html' = File(document, TRUE)
  /\ pc' = IF withSummary THEN "openSummary" ELSE "written"
  /\ UNCHANGED <<contract, verdict, document, code, withSummary, summary>>

OpenSummary ==
  /\ pc = "openSummary" /\ pc' = "writeSummary"
  /\ summary' = File(document, FALSE)
  /\ UNCHANGED <<contract, verdict, document, code, withSummary, html>>

WriteSummary ==
  /\ pc = "writeSummary" /\ pc' = "written"
  /\ summary' = File(document, TRUE)
  /\ UNCHANGED <<contract, verdict, document, code, withSummary, html>>

\* Mutant: the report counts, with or without its summary.
OutputFailsSilently ==
  /\ pc \in {"render", "openReport", "writeReport", "openSummary",
             "writeSummary"}
  /\ Exit(IF html = File(document, TRUE) THEN 0 ELSE 2)
  /\ UNCHANGED <<contract, verdict, document, withSummary, html, summary>>

OutputFails ==
  /\ pc \in {"render", "openReport", "writeReport", "openSummary",
             "writeSummary"}
  /\ Exit(2)
  /\ UNCHANGED <<contract, verdict, document, withSummary, html, summary>>

Succeed ==
  /\ pc = "written" /\ Exit(0)
  /\ UNCHANGED <<contract, verdict, document, withSummary, html, summary>>

Ended == pc \in {"exited", "killed"}

Kill ==
  /\ ~Ended /\ pc' = "killed"
  /\ UNCHANGED <<contract, verdict, document, code, withSummary, html, summary>>

Stopped == Ended /\ UNCHANGED vars

Next ==
  \/ RejectInputs \/ RejectVerdict \/ BuildDocument \/ Render
  \/ OpenReport \/ WriteReport \/ OpenSummary \/ WriteSummary
  \/ OutputFails \/ Succeed \/ Kill \/ Stopped

Spec == Init /\ [][Next]_vars

----------------------------------------------------------------------------
\* Properties.

Built == document # NoDocument

TypeOK ==
  /\ pc \in {"load", "render", "openReport", "writeReport", "openSummary",
             "writeSummary", "written", "exited", "killed"}
  /\ code \in {0, 2, 3, NoCode} /\ withSummary \in BOOLEAN
  /\ contract \in Contracts /\ verdict \in Verdict
  /\ Built => document.state \in State
  /\ \A file \in {html, summary} :
       \/ file \in {Absent, Earlier}
       \/ Built /\ file \in {File(document, w) : w \in BOOLEAN}

\* verifier.Verify: one result per check of the contract, for all its
\* consumers, and evidence.Aggregate's overall state.
OfVerify(known, v) ==
  /\ Len(v.checks) = Cardinality(Required(known))
  /\ {v.checks[i].id : i \in DOMAIN v.checks} = Required(known)
  /\ \A i \in DOMAIN v.checks :
       /\ v.checks[i].state \in State
       /\ v.checks[i].affected = known.needs[v.checks[i].id]
  /\ v.overall = Aggregate(States(v.checks))

Violated(v) ==
  {v.checks[i] : i \in {j \in DOMAIN v.checks : v.checks[j].state # "PASS"}}
Violations(r, consumers) ==
  {Edge(RequirementNode(r.id), ConsumerNode(c),
        IF r.state = "FAIL" THEN "BREAKS" ELSE "UNRESOLVED") : c \in consumers}

\* The evidence goes once through the contract.  Of a verdict that `guardian
\* verify` published about this contract, the graph links each requirement that
\* did not pass, and no other, with all the consumers that the contract gives it
\* and no other, by BREAKS when it failed and UNRESOLVED when it is
\* inconclusive.  Whatever the verdict, a violation has a consumer, none that the
\* contract does not declare, and every edge joins two nodes of the graph
\* (Build, addConsumerGraph, addNode, addEdge).
ImpactIsComplete ==
  Built =>
    LET impact == {e \in document.edges : e.from.kind = "requirement"}
    IN /\ {document.evidence[i].id : i \in DOMAIN document.evidence}
            = Required(contract)
       /\ Len(document.evidence) = Cardinality(Required(contract))
       /\ OfVerify(contract, verdict) =>
            impact = UNION {Violations(r, contract.needs[r.id]) :
                              r \in Violated(verdict)}
       /\ impact \subseteq
            UNION {Violations(r, contract.consumers) : r \in Violated(verdict)}
       /\ \A r \in Violated(verdict) : \E e \in impact : e.from.id = r.id
       /\ DOMAIN document.nodes
            = {e.from : e \in document.edges} \cup {e.to : e \in document.edges}
       /\ document.state = "PASS" <=> document.edges = {}

\* The same results give the same report, whatever order the verdict lists them
\* in, also where two of them draw the same consumer or dashboard and the first
\* one settles the state of its node.
OrderIndependent ==
  Built =>
    \A order \in SetToSeqs(DOMAIN verdict.checks) :
      LET reordered == [verdict EXCEPT !.checks = Permuted(@, order)]
      IN Accepts(contract, reordered) /\ Build(contract, reordered) = document

\* What `guardian verify` publishes about a contract, `guardian report` renders
\* with that contract; and no document comes from a verdict whose overall state
\* hides a result, such as a PASS over a failed or an unfinished check.
VerifiedIsReported ==
  /\ pc = "load" /\ OfVerify(contract, verdict) => Accepts(contract, verdict)
  /\ Built =>
       \A i \in DOMAIN verdict.checks :
         /\ document.state = "PASS" => verdict.checks[i].state = "PASS"
         /\ document.state = "FAIL" => verdict.checks[i].state # "INCONCLUSIVE"

\* Exit code 0 means that every output that was asked for is there, whole, and
\* of this verdict; a command that rejects its inputs leaves the outputs of an
\* earlier one alone; and a new summary never lies beside an older report.
OutputsFollowExitCode ==
  /\ code = 0 =>
       /\ html = File(document, TRUE)
       /\ withSummary => summary = File(document, TRUE)
  /\ code = 3 => html \in {Absent, Earlier} /\ summary \in {Absent, Earlier}
  /\ summary \notin {Absent, Earlier} => html = File(document, TRUE)
=============================================================================
