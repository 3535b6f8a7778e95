# A verification project for Telemetry Guardian

Telemetry Guardian mines a contract from a SigNoz dashboard and an alert, then
verifies a candidate release against it: it polls SigNoz for the telemetry of one
isolated run, gives each check a state `PASS`, `FAIL` or `INCONCLUSIVE`, and maps
the overall state to an exit code that gates CI. What makes the program hard is
not its size but its setting: telemetry arrives late and out of order, SigNoz
discovers attributes lazily and may return more than it was asked for, every call
may time out or be cancelled, and a wrong `PASS` or `FAIL` is worse than none.

This directory holds TLA+ models of that behaviour, TLC configurations that check
them, and TLAPS proofs of what they check, for every size of the instance.

## Inventory

| Component (code) | State | Operations | Hard behaviour | What makes it correct |
|---|---|---|---|---|
| Telemetry checks (`internal/verifier`: `pollTelemetry`, `traceCount`, `wait`) | deadline, query window, last counts | one round: base query, required query, decision, sleep | two results of different times; late, stale and out-of-window points; lazy fields; timeouts; cancellation | PASS and FAIL rest on telemetry that is there; no early verdict; bounded; one decision |
| Alert check (`verifyAlert`, `alertHistory`) | query window, fault count, sticky `sawStale`, page cursors | read the alert, round: fault query, paged history, decision, sleep | stale events, late events, clock read before and after the queries, runaway cursors | PASS needs a fresh event; stale is not a miss; a quiet history was read whole |
| Verdict (`internal/evidence`) | check results | `Aggregate`, `ExitCode` | two implementations of the aggregation (`internal/report`) | INCONCLUSIVE is never hidden |
| `guardian verify` (`cmd/guardian`) | output file, temporary file | configure, run checks, write and rename | crash between two file operations, old output, one deadline for all checks | exit code and file agree; the file is never half written |
| CI publication (`scripts/ci/guardian.sh`, workflow) | staging directory, artifacts, shell variable `code` | verify, report, publish one by one, gate | any command fails, unchecked writes, signals, kills, old artifacts | the gate passes on a complete PASS only |
| SigNoz adapter (`internal/signoz`) | none | requests, decoding of answers, error classification | a connection that breaks inside a body, bodies that are no answer, fields the decoder does not know, three forms of a time | errors keep their kind; nothing that changes what a query means is passed over |
| Contract (`internal/contracts`) | a document | load, validate, normalise | order and duplicates, scalars that YAML reads differently | the file of a contract loads as that contract |
| Miner (`internal/miner`), `guardian mine` | collector maps, the contract file | dashboard, alert, merge, write | map order, shared requirements, a file that breaks off | the contract says what the resources demand, in one order |
| Report (`internal/report`), `guardian report` | document, graph, two output files | validate, build, render, write | verdicts of another contract, consumers that several results share, kills between two files | of a verdict about the contract every affected consumer and no other is shown; the outputs are those of the exit code |
| Demo checkout (`demo/checkout`) | the webhook's file | checkout, export, alert | concurrent requests, exports that break off between two signals | what it exports lets the checks tell a healthy release from a broken one |
| Demo scripts (`scripts/demo.sh` and others) | files under `.run` | staged run | alignment of windows, late webhooks | warm-up never counts |

Interactions: the command calls the verifier, which calls the adapter
synchronously, one query at a time; SigNoz and the checkout service act
concurrently with it; the CI script runs the command and `guardian report` as
processes and passes files between them; the workflow reads the published
`exit-code`.

## Modules

```
CheckSpec            what a check promises
  ^ implemented by TelemetryPoll        (proved and checked)
  ^ implemented by AlertCheck           (proved and checked)
  | promises used by VerifyCommand      (a check under a done context is INCONCLUSIVE)
TelemetryPoll
  ^ composed with Checkout, the service whose telemetry it counts, in Release
SigNozExchange       one exchange: errors, statuses, bodies, the page of a history
  ^ extended by AlertHistory            the paging inside AlertCheck's history query
SigNozWire           decoding of dashboards and rules, used by Miner
Contract             the contract document and its file, as operators
Miner                mining, the file and its acceptance, over Contract and SigNozWire
Verdicts             aggregation and exit codes, used by VerifyCommand, Report, CIPublish
VerifyCommand        its outcomes are what CIPublish's RunVerify may see,
                     its verdicts what Report has to accept
Report
CIPublish
```

Modules for TLC: `MCTelemetryPoll` (symmetry of span identities), `MCAlertHistory`
(events in their wire form), `MCMiner` (panels, rules and their variants),
`MCReport` (contracts and affected consumers). Theorems: `TelemetryPoll_proofs`
(with `Release` in its last part), `AlertCheck_proofs`, `AlertHistory_proofs`,
`VerifyCommand_proofs`, `Miner_proofs` (with `Contract` and `SigNozWire`),
`Report_proofs`, `CIPublish_proofs`; `Lists_proofs` holds the lemmas about lists,
folds and the two aggregations that the proofs of the commands share.

**TelemetryPoll.** `pc` is the place in `pollTelemetry`: `poll` is the top of the
loop, `baseQuery`/`requiredQuery` a request on its way, `baseReply`/`requiredReply`
its answer on the way back, `waiting` the select in `wait`. `launched` and the
operator `Deadline` stand for lines 349-353, `queryEnd` for `observed.end`,
`baseCount` and `reply` for the two results of a round, `timer` for the
`WithTimeout` of `traceCount` or the `NewTimer` of `wait`. `StartRound` to
`PollAgain` are the branches of lines 356-395 in their order, each guarded by the
negation of the earlier returns. `visible` and `fieldKnown` are SigNoz's, and
change at any moment the program is blocked; `Returned` lets the server ignore the
window it was asked for, `Bucket` stamps points with the start of their step, as
SigNoz does. The required query is `sum(cart.value)` or `count()`; values are
numbers of 1/`Unit`, and `Truncated` is the `int(total)` of `traceCount`. A sum is
written as the cardinality of a set of units, because a recursive sum could not be
reasoned about by the provers. `round` is a history variable: what SigNoz could
show when the last round began; only properties read it. `traceCount` does not look
at the context itself; that a reply counts only while it is live (`~canceled` in
`BaseReceived` and `Received`) is what Go's HTTP transport does with an exchange that
is open when its context ends. A point stands for a whole bucket, so `InWindow`, by
which the properties judge a count, reaches to the end of the last bucket.

**AlertCheck** follows `verifyAlert` in the same way; `getAlert` is read once,
`history` is the result of the paging, `sawStale` the sticky flag. `held` and `met` are
history variables: the events SigNoz held when it was asked, and all events that any
round was given; only properties read them. Event time 0 stands for an
event without a usable timestamp. `PagesRead` says what the paging may return: all,
or a part with a fresh firing event.

**AlertHistory** is the loop of `alertHistory` against a server whose history grows
while it is read; `request` is an exchange on its way, `body` one whose header has
arrived. An honest server hands out offsets; another returns any cursor of
`WildCursors`. `SigNozExchange` says what `do` makes of a request that breaks, of a
status, of a body that breaks off, is too large or is no answer, and what
`history()` makes of a page: flat or nested in `data`, with times that are absent,
zero, malformed, or in one of two fields. All pages share one query context, which
may be cancelled or run out between any two steps. `asked` is a history variable, the
cursors of the requests.

**Checkout** holds the handler and `emit` of `demo/checkout`: requests that are
served concurrently, each exporting traces, metrics and (for a fault) logs in this
order, stopping at the first error and answering all the same; an export that fails
may have been stored. **Release** composes it with `TelemetryPoll`: a span can be
ingested only after the collector holds it, at the time its request was accepted,
with the attributes its release gave it. A span counts 1 towards the operation and
`MaxValue` (the workload's 42) towards the sum of the field. Here the server keeps
to the window it was asked for, which the other runs do not assume: a lenient server
could count, at the end of the window's last bucket, a request that was accepted
after the window.

**Verdicts** holds `Aggregate`, `ExitCode` and the report's `aggregateReportState`
as folds. **VerifyCommand** has one action per step of `runVerify` and
`writeVerdict`; each of its checks is the abstract one. `Kill` may happen between
any two steps, `StartAgain` keeps the files. That a
check under a done context is INCONCLUSIVE is taken from `CheckSpec` in `RunCheck`;
`ImplementsCheck` shows it of both checks.

**CIPublish** has one action per command of `guardian.sh` that changes a file or
`code`, from the artifacts of an earlier job of any exit code. Every command may fail:
`mkdir` and `mktemp` (`Unavailable`, before anything is removed), `rm` for any of the
files, the redirection that creates the log (it ends the shell), `jq`, `guardian
report` (which may leave one output, or a part of it), `classify.sh`, each `mv`, and
the `printf`s, which nobody checks: `Printed` leaves the text, a file that is `Cut`, or
none. A signal removes the staging directory and the script continues, as its trap
does; `Kill` ends it anywhere. `cleaned` is a history variable: the old artifacts have
all been removed.

**Contract** holds `Normalize`, `Validate`, what `MarshalYAML` writes and what
`LoadYAML` makes of it, and the verifier's `validateChecks`. Identifiers and JSON
paths are numbers in the order of the strings, so that sorting is the code's; a
filter is what its terms say; a name (a panel's title, or the
alert's) is one of the kinds of scalars that YAML treats differently. The identity of
an alert is what `alertLogicalID` makes of its name. **Miner** has an action per panel, the alert rule, `Assemble` with any
order of the collector's map, the file written to its end or broken off
(`WriteBreaks`; `os.WriteFile` truncates and writes in place) and the two gates of
the next `guardian verify`, `Load` and `CheckCanonical`. Its inputs are panels and
rules in the form of the wire: **SigNozWire** decodes them as strictly as the client
does, checks the required fields and lists the nodes that Guardian does not support;
`Miner` then accepts or refuses the query.

**Report** is `runReport`: a contract declares `consumers` and says which requirement
`needs` which of them; the verdict is any small one, of this contract, of
another, or inconsistent in itself; `Accepts` is the validation of `Build`, which
looks up every consumer among those the contract declares, `Build` a
fold over the results in the order of their requirements (`ById`, defined by what a
sort returns rather than by how), `AddCheck` the loop body with `addConsumerGraph`
(`DrawnNodes`, `DrawnEdges`) and `addNode` (`AddNodes`). Both outputs are opened (truncated) and
written in two steps each; `Kill` may happen between any two. The coordinates of the
nodes and the texts are left out.

**CheckSpec** is the abstract check: telemetry only grows, the check decides once,
PASS needs a satisfied requirement, FAIL sufficient samples, and with the context
done only INCONCLUSIVE is left.

Definitions marked *Mutant* are plausible mistakes (a dropped guard, an off-by-one,
a reset left out). No specification uses them; `PROJECT.json` pairs each with the
property that has to notice it.

## Runs

| Run | Question | Bounds |
|---|---|---|
| `poll_field` | Are the verdicts of a summed-field check witnessed, grounded, in time, and those of `CheckSpec`? | 3 spans, 4 event times (before the window, at its start, twice inside), 4 launches: one that ends before the window can be queried, one before and one inside the window, one after it; 2 samples, values of 0 or a half |
| `poll_operation` | Is the verdict of either check about the release; does the check end? | 2 requests, one of them with the payment fault, healthy and broken release, 3 event times, 3 launches, every interleaving of the exports, the ingestion and the two queries, fairness; about a million states |
| `poll_small_values` | Does FAIL mean absence when the values are small? No | 2 spans with values of 0 or a half |
| `alert` | Are PASS, FAIL and the stale verdict justified, is the check bounded, does it end? | 1 fault span, 2 events at 4 times, launch before the fault and after the window, runs whose window is ended by the alert's timeout, by the end of the run, and before it can be queried, fairness |
| `alert_miss` | Does a miss cover the window it names? No | 1 event |
| `alert_history` | Is a quiet history a whole one; do the guards spare a proper server and stop a runaway one? | 3 pages of 2, up to 7 events of 3 kinds, statuses 200, 404 and 500, cursors 0 (none), 2, 3 and 5 of an improper server: with as many distinct ones as pages, only the budget ends the loop |
| `verify_command` | Do exit code, file and report agree whatever fails or is killed? | 4 checks (the code insists on four), 2 invocations |
| `miner` | Does the contract say what the resources demand, in one order; is no part of a query passed over; is the file loaded whole or not at all; is it verified exactly when it is about the service? | up to 2 panels (equal and different identities, 6 filters), or a panel or rule whose query differs from an ordinary one in one place (every field of the wire), every map order, every beginning of the file |
| `miner_names` | Does every written contract load? No | 1 panel and an alert, either named with a null or a padded text |
| `report` | Does the report accept what verify publishes, name every affected consumer of it and no other, and only declared ones of any other verdict, independently of the order; are the outputs those of the exit code? | verdicts of up to 2 results over 3 requirement ids and 5 sets of consumers, 2 contracts with shared and unshared consumers, the second of which is the first mined again with another panel |
| `ci_publish` | Does the gate pass on a complete PASS only? | none needed: the script is finite; artifacts of an earlier job with any exit code, or none |
| `ci_gate` | Does the gate mean exit 0? No | none needed |

Why the bounds are enough. The time constants keep the code's proportions in small
numbers: the poll interval does not divide the completeness timeout, the deadline
is cut by the end of the window for one launch and not for another, a step is
shorter than the minimal window and the window starts inside a bucket, so that
points from before the window share a bucket with points inside it. Three spans and
a threshold of two give samples that are missing, just enough and more than enough,
with and without the attribute; in `poll_operation` two requests are just enough for
the threshold, so that one partial export is one too many. Two alert events are
needed to have a stale and a fresh one at once. Seven events overflow three pages of
two, by one. Two panels are enough for a shared requirement, a duplicate consumer and
two filters of different services in one check; a query is decoded by itself, so one
variant per dashboard, alone or beside an ordinary panel in either order, is enough.
Two results are enough to share a consumer, to disagree with the overall state, and
to name a requirement of another contract. Nothing but time bounds the runs of the
checks: every behaviour ends by itself, so no counter had to be cut off; the only
artificial bounds are `MaxRuns`, `MaxEvents`, `MaxWidgets` and `MaxChecks`.

Deadlock is checked in every run; `Stopped` lets a finished program stutter.

Fairness: weak fairness of the program's own steps, of the clock while the program
is blocked, and of the server's answers. The code justifies them: each exchange runs
under `context.WithTimeout`, each sleep under `NewTimer`, and nothing else blocks.
SigNoz need not ingest anything, no context needs to be cancelled, and the checkout
service need not finish an export.

## What the runs found

* `poll_small_values`: `traceCount` returns `int(total)`. A run whose `cart.value`s
  add up to less than 1 has a required value of 0 and is reported as a violation,
  although its spans carry the field.
* `alert_miss`: `verifyAlert` reads the clock for its query window before the
  queries and again after them. If the end of the window falls in between, it
  reports a miss for a window whose rest it never asked for.
* `ci_gate`: `exit-code` is published before `classification`; if publishing the
  latter fails the script exits with 3, but the gate reads 0. The artifacts beside
  it are those of a PASS all the same (`GateIsProven`).
* `miner_names`: `yamlScalar` writes a panel title or an alert name `null`, or one with
  a blank at its end, without quotes; the first is read back as no name and the contract rejected,
  the second loses its blank.

A field that a cold SigNoz has not discovered yet fails a check at once; the
repository's README names that as a caveat, so it is modelled (`FieldMissing`) and
the properties of FAIL are stated for rounds that start with the key known.

Three more things the models show, which the properties are stated around:

* `guardian.sh` exits with 3 when it cannot make its directories (lines 12-20), before
  it removes the artifacts of an earlier job (line 28), `exit-code` included
  (`Unavailable`): the gate then reads the earlier job's code. `GateIsProven` and
  `ReportsMatchVerdict` hold from the removal on.
* The writes of `exit-code` and `classification` (lines 138-139) are not checked: on a
  full disk the step can exit with 0 and publish them empty. The gate refuses an empty
  code, so this errs on the safe side; `ExitZeroIsComplete` says so.
* `Build` draws the consumers that a result names (`report.go:146`) and the contract's
  only when it names none. A verdict about an earlier contract, of the same
  requirements and fewer panels, is accepted, and its report omits the panels added
  since. `ImpactIsComplete` claims completeness for verdicts of `guardian verify` about
  this contract, and of any other verdict that its consumers are declared.

## Hazards without a property

`PROJECT.json` lists what is hard to test in this code, each at its line. Seven
of them have no property, for reasons that belong here:

* A cold SigNoz answers "key not found" for telemetry that it holds
  (`verifier.go:380`): a documented caveat, kept in the model (`FieldMissing`) and
  excluded from the properties of FAIL by `round.known`.
* Two commands with one output share `output.tmp` (`main.go:307`): nothing is promised
  for two commands in one directory.
* A fault window that starts inside a bucket loses that bucket's fault span
  (`verifier.go:520`): the models drop such points as the code does, which delays a
  PASS or leaves the check undecided. No text promises otherwise.
* Success data of another shape than a history is decoded as an empty page
  (`client.go:464`), and `aggregateOperator` is decoded and ignored (`client.go:1033`):
  whether a real SigNoz sends such answers cannot be told from this repository.
* The overflow test of `traceCount` compares with `MaxInt` rounded to 2^63
  (`verifier.go:528`): out of reach of any bound, and settled by the processor.
* `assert-alert-miss.sh` takes a notification file that cannot be read for a quiet one:
  a script of the demo, beside the verdict.

## Proofs

The theorems hold for every value of the constants that satisfies the named
assumptions: finite sets of spans and events, natural times, a window of positive
length, positive parameters (`Config.validate` demands them); for `Miner` dashboards
and rules of the shape that the JSON decoder gives (arrays are lists, services numbers,
no panel has the identity of the alert's consumer); for `AlertHistory` a
positive page size and budget and cursors within the bound on the history; for
`Release` a sum that is not divided (`Unit = 1`), the threshold of both checks equal to
their minimum, and carts that satisfy the check of the field one by one.

| Module | Theorem | Statement |
|---|---|---|
| `TelemetryPoll_proofs` | `TypeCorrect` | `Spec => []TypeOK` |
| | `PassSound` | `Spec => []PassIsWitnessed` |
| | `FailSound` | `Spec => []FailIsGrounded` |
| | `RunIsBounded` | `Spec => []Bounded` |
| | `DecisionsWait` | `Spec => []NoEarlyVerdict` |
| | `EvidenceIsFresh` | `Spec => []LastRoundIsFresh` |
| | `PollImplementsCheck` | `Spec => ImplementsCheck`, that is `Check!Spec` |
| | `VerdictIsAboutRelease` | `ReleaseSpec => []ReleaseIsJudged` |
| `AlertCheck_proofs` | `TypeCorrect` | `Spec => []TypeOK` |
| | `PassSound` | `Spec => []PassIsWitnessed` |
| | `FailSound` | `Spec => []FailIsGrounded` |
| | `StaleSound` | `Spec => []StaleIsNotAMiss` |
| | `RunIsBounded` | `Spec => []Bounded` |
| | `AlertImplementsCheck` | `Spec => ImplementsCheck` |
| `AlertHistory_proofs` | `TypeCorrect` | `Spec => []TypeOK` |
| | `QuietHistoryIsWhole` | `Spec => []QuietMeansWholeHistory` |
| | `GuardsAreHarmless` | `Spec => []GuardsSpareHonestServers` |
| | `RunawayIsStopped` | `Spec => []RunawayIsBounded` |
| `VerifyCommand_proofs` | `TypeCorrect` | `Spec => []TypeOK` |
| | `OutputIsWhole` | `Spec => []PublishedIsWhole` |
| | `ExitIsPublished` | `Spec => []ExitPublishes` |
| | `ExitIsProven` | `Spec => []ExitCodeIsProven` |
| | `ReportAccepts` | `Spec => []ReportAcceptsVerdict` |
| | `OutputOnlyPublished` | `Spec => OutputChangesByPublication` |
| `Miner_proofs` | `TypeCorrect` | `Spec => []TypeOK` |
| | `QueriesAreWhole` | `Spec => []NothingIsDropped` |
| | `MinedIsValid` | `Spec => []CollectedIsValid` |
| | `MinedIsCanonical` | `Spec => []ContractIsCanonical` |
| | `VerifiedContracts` | `Spec => []VerifiedIsAboutService` |
| | `LoadedContracts` | `NamesAreKept` gives `Spec => []LoadedIsMined` |
| `Report_proofs` | `TypeCorrect` | `Spec => []TypeOK` |
| | `ImpactIsReported` | `Spec => []ImpactIsComplete` |
| | `OrderDoesNotMatter` | `Spec => []OrderIndependent` |
| | `VerdictsAreReported` | `Spec => []VerifiedIsReported` |
| | `OutputsAreSound` | `Spec => []OutputsFollowExitCode` |
| `CIPublish_proofs` | `TypeCorrect` | `Spec => []TypeOK` |
| | `GateNeverLies` | `Spec => []GateIsProven` |
| | `ZeroIsComplete` | `Spec => []ExitZeroIsComplete` |
| | `ReportsAgree` | `Spec => []ReportsMatchVerdict` |

None of the invariants is inductive as it stands; each rests on what holds on the
way to it.

* **TelemetryPoll.** `CountInv`: while a count is on its way, the spans it counted are
  still held and in the window of this round. It needs that whatever the server
  returns, `traceCount` counts spans of the window (`CountedInWindow`: a bucket starts
  less than a step before its points) and that counts and truncated sums only grow
  with the set (`CountMonotone`, `TotalMonotone`). `RoundInv`: the answer to the
  required query is at least what was countable when the round began
  (`RoundIsCounted`), and "missing" implies that the key was unknown then. `TimeInv`:
  at the top of the loop it is not later than the deadline (or the launch); each query
  adds at most its timeout; a sleep ends by the deadline. `FreshInv`: the end of a
  round's window is the end of the whole window, or at most one or two query timeouts
  behind the pending timer, and never past the last poll (`NotPast`): both rest on the
  sleep being cut at the deadline.
  `EndInv`: no query looks past the window; with `CountInv` it gives the step
  simulation of `CheckSpec` (`FinishDecides`, `StepSimulation`).
* **Release.** Every step of the service, SigNoz and the check together is a step that
  `TelemetryPoll` allows or leaves it alone (`StepIsPolled`), so that its invariants
  carry over. `ServiceInv` and `ShownInv`: a span that is shown belongs to a request
  that was accepted, has its time, and the value its release gave it. `AnswerInv`: the
  spans of the base count are still there for the required query (`AskedGrows`), and
  the sum over them tells the releases apart (`SumTells`): nothing for a broken
  release's field, a full value for one cart of a healthy one, one for each span of
  the operation. Identities make distinct spans distinct requests
  (`CountedAreServed`).
* **AlertCheck.** `RoundInv` and `TimeInv`, with `HistoryIsHonest` (what the paging
  returned was held, and is all of it when it has no fresh event) and
  `FreshReachesWindow`. `StaleInv`: while the flag is not set, every event that a round
  was given is one of the window, those of the round that is being judged apart.
* **AlertHistory.** `PagedInv`: on an honest server the cursor is the number of events
  read, the collected items are exactly the first ones of the log (`CollectedIsRead`,
  by `HonestPage`), all of their times parse and none is a fresh firing; the seen
  cursors lie behind. `BudgetInv` bounds the pages, and
  `AskedInv` says of any server that the cursors asked for are those the client
  remembers, each once.
* **Lists.** What a fold over any number of results returns is proved without the
  library's induction theorems, which take an operator and which no installed prover
  can instantiate. `LeastNumber` (every non-empty set of numbers has a least one, from
  the well-foundedness of `<`) gives `Induction`, stated for the set of numbers at which
  something holds; `FoldSolution` shows that the equation by which the library defines
  a fold has a solution, and that it is the run of the loop. `AggregateIs` and
  `ReportIs` follow: both aggregations are INCONCLUSIVE when some result is, otherwise
  FAIL when some result is, otherwise PASS.
* **VerifyCommand.** `CommandInv` follows the aggregated state from the checks through
  the temporary file to the rename; `ExitIsProven` adds what the aggregate says of the
  single results. `RunInv`: a verdict that bears the number of the running command was
  published by it, after all of its checks.
* **Report.** Sorting: a finite set of results with distinct requirements has exactly one
  order (`OrderExists`, `OrderUnique`), so that `ById` forgets the order of the verdict
  (`ByIdForgets`), and `Accepts` and `Build` with it (`BuildForgets`,
  `AggregateForgets`). Drawing: the run of the fold (`DrawRun`) shows exactly what some
  result that did not pass draws (`BuildIs`), whichever result came first at a node;
  `ImpactOfBuild` reads the impact off it, which for a verdict of verify is about the
  contract's consumers (`OfVerify`), with `EdgeEnds` and `DrawnEnds` for the edges
  that must not dangle. `BuiltInv` and `WritingInv` follow the document through the two
  files.
* **Miner.** The inductive invariant has three parts. `ReadInv`: the resource that was
  read decodes and is valid, and the panels behind `next` and the rule are supported;
  `NothingIsDropped` follows from it by what the adapter and the collector refuse.
  `CollectInv`: the collector's map has, for each requirement, one entry that says what
  the demands read so far say for it (`Gathers`: paths, filters and consumers each
  listed once), and its consumers are those of the panels in their order; a step adds
  the demands of one panel or of the rule (`CollectAllRun` unfolds the loop of `add`).
  `FileInv`: the file is the written contract or a beginning of it, and the answers
  are about that file. Between the second and the third stands `ContractInv`:
  `Normalize` makes, of whatever order the map is read in, the four checks in the order
  of the contract in a form that depends on the demands alone (`Stated`,
  `NormalChecks`), since a sort by distinct keys has one result. Written and read
  back, the normal form is itself; a beginning of the file lacks a check that a
  consumer above it refers to, or the consumers of the last check, or nothing, which is
  why `Validate` has to look at the references in both directions. `LoadedContracts` has a hypothesis,
  `NamesAreKept`: every panel's title and the alert's name is read back as it was
  written. It is what the
  finding `miner_names` is about; the names of the run `miner` satisfy it.
  `TypeCorrect` types every record: no filter, path or identity of a contract is empty,
  and its names are ones that a file can hold.
* **CIPublish.** `PublishInv` says, for each place in the script, which artifacts are
  published, what they hold, and what the staging directory may still hold beside them
  or have lost to a signal, and which may be cut. What is not published yet is stated for scripts
  that have removed what was there (`cleaned`); `ExitZeroIsComplete` needs no such
  premise, since a successful move replaces the old file. TLC visits every state of this module, which has no
  constants; the proof shows which facts at which line the gate rests on.

Only model-checked: liveness (`Terminates` of both checks, with the fairness above), which
is outside the prover's reach, and the runs that expect a violation. Every invariant
of a passing run is stated by a theorem. The theorems of `Miner` are about contracts
with the four requirements of the code and about files that break off between two
entries; what the provers cannot be told of `SortSeq` and `SelectSeq`, whose definitions
are recursive, is avoided by `Sort` in `Contract`, which says that the result is the
values in an order in which their keys do not decrease.

## Not modelled

The models leave out: wording, JSON and HTML layout, deep links, identifiers and
filter strings, the operating system's file system beyond rename, truncation and
removal, more than one command at a time, and the sub-millisecond rounding of
timestamps. A computation between two blocking calls takes no time; two runs of the
same check do not interact. `VerifyCommand` lets its context end at any time rather
than at the sum of line 170 of `cmd/guardian/main.go`.

By component:

* **SigNoz adapter**: the base URL, headers and the encoding of requests, which have no
  state and no choice; the fields of a `query_range` answer, which are carried over one
  by one and of which only the points matter (`InPoints`, `Truncated`); the fake client
  of the tests.
* **Contract**: documents written by hand. `Validate` is applied to what is mined and to
  every beginning of its file; a hand-written document differs in which of its messages
  it is refused with.
* **Demo checkout**: the alert webhook, whose file only the scripts of the demo read; the
  metrics and logs, which no check of the verifier queries, beyond their place in the
  export.
* **Demo orchestration**: `demo.sh` runs the commands once, in one order, and compares
  their results with those it expects; what it relies on is `ReleaseIsJudged`. The
  environment, seeding and load scripts are straight-line plumbing around the program.
* **Fixtures, lock file, documentation**: data.
