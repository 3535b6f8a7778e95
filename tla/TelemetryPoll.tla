--------------------------- MODULE TelemetryPoll ---------------------------
(***************************************************************************)
(* One telemetry check of `guardian verify`: the polling loop              *)
(* pollTelemetry (internal/verifier/verifier.go) with traceCount and wait, *)
(* as verifyField and verifyOperation start it.                            *)
(*                                                                         *)
(* A round fixes the end of its query window, counts the spans of the      *)
(* isolated run (the base query), then aggregates those that satisfy the   *)
(* requirement (the required query), and decides or sleeps.  Meanwhile     *)
(* SigNoz ingests spans, in any order and with any delay, discovers the    *)
(* required attribute's key lazily, and the caller's context may end.      *)
(*                                                                         *)
(* The required query of cart.value is sum(cart.value), those of           *)
(* error.type and payment.authorize are count().  A span carries a value   *)
(* in fractions of 1/Unit; 0 stands for a span without the attribute,      *)
(* which the demo never emits with a value of zero.  With Unit = MaxValue  *)
(* = 1 the sum is the count.                                               *)
(*                                                                         *)
(* Time is a natural number.  It passes while the program is blocked: in   *)
(* an HTTP exchange, for at most QueryTimeout, or in wait(), until the     *)
(* timer fires.  The computation between two blocking calls takes no time. *)
(***************************************************************************)
EXTENDS Naturals, FiniteSets

CONSTANTS
  Spans,                \* identities of the spans that may be ingested
  EventTimes,           \* the instants at which spans may have happened
  LaunchTimes,          \* the instants at which the check may be started
  Start,                \* check.start: first instant of the window
  WindowEnd,            \* check.end: last instant of the window
  Minimum,              \* check.minimum: samples that make the data sufficient
  RequiredMatches,      \* check.success: value that satisfies it
  MaxValue, Unit,       \* values of the attribute: 0..MaxValue, as 1/Unit
  PollInterval, CompletenessTimeout, QueryTimeout,
  MinimumQueryWindow,   \* shortest window that is queried
  Step                  \* width of the buckets of a query result

ASSUME SpansAssumption == IsFiniteSet(Spans) /\ EventTimes \subseteq Nat
ASSUME WindowAssumption == /\ Start \in Nat /\ WindowEnd \in Nat
                           /\ Start < WindowEnd
                           /\ LaunchTimes \subseteq Nat
ASSUME ParameterAssumption ==
         /\ Minimum \in Nat \ {0} /\ RequiredMatches \in Nat \ {0}
         /\ PollInterval \in Nat \ {0} /\ CompletenessTimeout \in Nat \ {0}
         /\ QueryTimeout \in Nat \ {0} /\ MinimumQueryWindow \in Nat \ {0}
         /\ Step \in Nat \ {0}
         /\ MaxValue \in Nat \ {0} /\ Unit \in Nat \ {0}

VARIABLES
  now,           \* the clock that time.Now() reads
  visible,       \* spans that a SigNoz query can see
  fieldKnown,    \* SigNoz knows the key of the required attribute
  canceled,      \* the caller's context is done
  pc,            \* where pollTelemetry is
  launched,      \* when pollTelemetry was entered
  queryEnd,      \* end of the window of the current round
  timer,         \* when the pending HTTP exchange or wait() ends at the latest
  baseCount,     \* result of the base query
  reply,         \* outcome of the required query, on its way to the client
  verdict,       \* the CheckResult
  round          \* history: what SigNoz could show when the round began

env == <<visible, fieldKnown, canceled>>
vars == <<now, visible, fieldKnown, canceled, pc, launched, queryEnd, timer,
          baseCount, reply, verdict, round>>

Span == [id: Spans, at: EventTimes, value: 0..MaxValue]
Undecided == [state |-> "NONE", quality |-> "none", samples |-> 0]
Decided(state, quality, samples) ==
  [state |-> state, quality |-> quality, samples |-> samples]

NoReply == [kind |-> "none", count |-> 0]
MissingField == [kind |-> "missing", count |-> 0]
Counted(n) == [kind |-> "count", count |-> n]

Earlier(a, b) == IF a <= b THEN a ELSE b
Later(a, b) == IF a <= b THEN b ELSE a

Deadline == Earlier(launched + CompletenessTimeout, WindowEnd)

----------------------------------------------------------------------------
\* What a query returns and what traceCount makes of it.

\* SigNoz reports the spans of a query in buckets of Step, each point stamped
\* with the first instant of its bucket.
Bucket(t) == t - (t % Step)

\* The rows behind the answer to a query over Start..end.  The client does
\* not rely on the server to keep to the window it was asked for.
Returned(end, strict) ==
  IF strict THEN {s \in visible : Start <= s.at /\ s.at <= end} ELSE visible

\* Mutant: the points are taken as they come.
InPointsUnfiltered(spans, end) == spans

\* traceCount drops the points outside Start..end, adds up the others and
\* truncates the total to an integer: the count of the spans, or the sum of
\* their values (the total of a finite set, counted unit by unit).
InPoints(spans, end) ==
  {s \in spans : Start <= Bucket(s.at) /\ Bucket(s.at) <= end}
TraceCount(spans, end) == Cardinality(InPoints(spans, end))

Carrying(spans) == {s \in spans : s.value > 0}
Total(spans) ==
  Cardinality({p \in spans \X (1..MaxValue) : p[2] <= p[1].value})
Truncated(spans) == Total(spans) \div Unit
TraceSum(spans, end) == Truncated(InPoints(spans, end))

----------------------------------------------------------------------------
Init ==
  /\ launched \in LaunchTimes
  /\ now = launched
  /\ visible = {}
  /\ fieldKnown \in BOOLEAN     \* earlier runs may have carried the field
  /\ canceled = FALSE
  /\ pc = "poll"
  /\ queryEnd = 0 /\ timer = 0
  /\ baseCount = 0 /\ reply = NoReply
  /\ verdict = Undecided
  /\ round = [spans |-> {}, known |-> FALSE]

Finish(state, quality, samples) ==
  /\ pc' = "done"
  /\ verdict' = Decided(state, quality, samples)
  /\ UNCHANGED <<now, env, launched, queryEnd, timer, baseCount, reply, round>>

\* Mutant: the sleep is not cut at the deadline.
SleepUncapped ==
  /\ pc' = "waiting"
  /\ timer' = now + PollInterval
  /\ UNCHANGED <<now, env, launched, queryEnd, baseCount, reply, verdict,
                 round>>

\* wait(): sleep for the poll interval, but not past the deadline.
Sleep ==
  /\ pc' = "waiting"
  /\ timer' = Earlier(now + PollInterval, Deadline)
  /\ UNCHANGED <<now, env, launched, queryEnd, baseCount, reply, verdict,
                 round>>

----------------------------------------------------------------------------
\* The top of the loop.

ThisEnd == Earlier(now, WindowEnd)
TooShort == ThisEnd < Start + MinimumQueryWindow

WindowTooShort ==
  /\ pc = "poll" /\ TooShort
  /\ now >= Deadline \/ WindowEnd <= ThisEnd
  /\ Finish("INCONCLUSIVE", "insufficient", 0)

AwaitWindow ==
  /\ pc = "poll" /\ TooShort
  /\ now < Deadline /\ ThisEnd < WindowEnd
  /\ Sleep

StartRound ==
  /\ pc = "poll" /\ ~TooShort
  /\ pc' = "baseQuery"
  /\ queryEnd' = ThisEnd
  /\ timer' = now + QueryTimeout
  /\ round' = [spans |-> visible, known |-> fieldKnown]
  /\ UNCHANGED <<now, env, launched, baseCount, reply, verdict>>

----------------------------------------------------------------------------
\* The base query.

BaseAnswered ==
  /\ pc = "baseQuery"
  /\ \E strict \in BOOLEAN :
       baseCount' = TraceCount(Returned(queryEnd, strict), queryEnd)
  /\ pc' = "baseReply"
  /\ UNCHANGED <<now, env, launched, queryEnd, timer, reply, verdict, round>>

\* traceCount itself does not look at the context: both exchanges run under it,
\* so one that is still open when the context ends is given up by the HTTP
\* transport (BaseFailed, RequiredFailed), and an answer that was read before
\* comes before the end of the context here.
BaseReceived ==
  /\ pc = "baseReply" /\ ~canceled
  /\ pc' = "requiredQuery"
  /\ timer' = now + QueryTimeout
  /\ reply' = NoReply
  /\ UNCHANGED <<now, env, launched, queryEnd, baseCount, verdict, round>>

\* Mutant: a quality the verdict does not know.
BaseFailedStale ==
  /\ pc \in {"baseQuery", "baseReply"}
  /\ Finish("INCONCLUSIVE", "stale", 0)

\* Transport, authentication, malformed response, timeout or cancellation.
BaseFailed ==
  /\ pc \in {"baseQuery", "baseReply"}
  /\ Finish("INCONCLUSIVE", "error", 0)

----------------------------------------------------------------------------
\* The required query and the decision.

RequiredAnswered ==
  /\ pc = "requiredQuery"
  /\ \/ \E strict \in BOOLEAN :
          reply' = Counted(TraceSum(Returned(queryEnd, strict), queryEnd))
     \/ ~fieldKnown /\ reply' = MissingField
  /\ pc' = "requiredReply"
  /\ UNCHANGED <<now, env, launched, queryEnd, timer, baseCount, verdict,
                 round>>

\* Mutant: the queries do not run under the caller's context.
ReceivedAnyway == pc = "requiredReply"

Received == pc = "requiredReply" /\ ~canceled
Sufficient == baseCount >= Minimum
Satisfied == Sufficient /\ reply.count >= RequiredMatches

RequirementObserved ==
  /\ Received /\ reply.kind = "count" /\ Satisfied
  /\ Finish("PASS", "complete", baseCount)

FieldMissing ==
  /\ Received /\ reply.kind = "missing" /\ Sufficient
  /\ Finish("FAIL", "complete", baseCount)

\* Any other error, a missing field with too few samples among them.  The
\* exchange may also break off while a sufficient answer is on its way.
RequiredFailed ==
  /\ pc \in {"requiredQuery", "requiredReply"}
  /\ Finish("INCONCLUSIVE", "error", baseCount)

\* Mutants: FAIL without sufficient samples; a decision in the first round.
DeadlineReachedUnchecked ==
  /\ Received /\ reply.kind = "count" /\ ~Satisfied
  /\ now >= Deadline
  /\ Finish("FAIL", "complete", baseCount)

DecidedAtOnce ==
  /\ Received /\ reply.kind = "count" /\ ~Satisfied
  /\ IF Sufficient THEN Finish("FAIL", "complete", baseCount)
                   ELSE Finish("INCONCLUSIVE", "insufficient", baseCount)

DeadlineReached ==
  /\ Received /\ reply.kind = "count" /\ ~Satisfied
  /\ now >= Deadline
  /\ IF Sufficient THEN Finish("FAIL", "complete", baseCount)
                   ELSE Finish("INCONCLUSIVE", "insufficient", baseCount)

PollAgain ==
  /\ Received /\ reply.kind = "count" /\ ~Satisfied
  /\ now < Deadline
  /\ Sleep

----------------------------------------------------------------------------
\* wait() returns; with the timer fired and the context done, either may win.

\* Mutant: the timer is awaited past the instant it fires at.
TimerMissed ==
  /\ pc = "waiting" /\ now > timer
  /\ pc' = "poll"
  /\ UNCHANGED <<now, env, launched, queryEnd, timer, baseCount, reply,
                 verdict, round>>

TimerFires ==
  /\ pc = "waiting" /\ now >= timer
  /\ pc' = "poll"
  /\ UNCHANGED <<now, env, launched, queryEnd, timer, baseCount, reply,
                 verdict, round>>

WaitCanceled ==
  /\ pc = "waiting" /\ canceled
  /\ Finish("INCONCLUSIVE", "error", baseCount)

----------------------------------------------------------------------------
\* The world around the loop.

Blocked ==
  pc \in {"baseQuery", "baseReply", "requiredQuery", "requiredReply",
          "waiting"}

Tick ==
  /\ Blocked /\ now < timer
  /\ now' = now + 1
  /\ UNCHANGED <<env, pc, launched, queryEnd, timer, baseCount, reply,
                 verdict, round>>

Ingest(id, at, value) ==
  /\ Blocked
  /\ at <= now
  /\ \A s \in visible : s.id # id
  /\ visible' = visible \cup {[id |-> id, at |-> at, value |-> value]}
  /\ UNCHANGED <<now, fieldKnown, canceled, pc, launched, queryEnd, timer,
                 baseCount, reply, verdict, round>>

DiscoverField ==
  /\ Blocked /\ ~fieldKnown
  /\ Carrying(visible) # {}
  /\ fieldKnown' = TRUE
  /\ UNCHANGED <<now, visible, canceled, pc, launched, queryEnd, timer,
                 baseCount, reply, verdict, round>>

\* The command's own deadline expires or the caller cancels.
Cancel ==
  /\ Blocked /\ ~canceled
  /\ canceled' = TRUE
  /\ UNCHANGED <<now, visible, fieldKnown, pc, launched, queryEnd, timer,
                 baseCount, reply, verdict, round>>

Stopped == pc = "done" /\ UNCHANGED vars

Loop ==
  \/ WindowTooShort \/ AwaitWindow \/ StartRound
  \/ BaseReceived \/ BaseFailed
  \/ RequirementObserved \/ FieldMissing \/ RequiredFailed
  \/ DeadlineReached \/ PollAgain
  \/ TimerFires \/ WaitCanceled

Environment ==
  \/ \E id \in Spans, at \in EventTimes, v \in 0..MaxValue :
       Ingest(id, at, v)
  \/ DiscoverField \/ Cancel

Next ==
  \/ Loop \/ BaseAnswered \/ RequiredAnswered \/ Tick \/ Environment
  \/ Stopped

Spec == Init /\ [][Next]_vars

\* Timers fire, the server answers or the exchange breaks off, and the program
\* is scheduled: every context.WithTimeout and NewTimer of the code is bounded.
Fairness ==
  /\ WF_vars(Tick) /\ WF_vars(BaseAnswered) /\ WF_vars(RequiredAnswered)
  /\ WF_vars(Loop)
FairSpec == Spec /\ Fairness

----------------------------------------------------------------------------
\* Properties.

\* The spans that happened in the window.  A point stands for its whole bucket,
\* so the last one may count spans of up to a Step after the end: the code
\* cannot tell them apart, and no property asks it to.
InWindow(spans, end) == {s \in spans : Start <= s.at /\ s.at < end + Step}

\* The spans a query over Start..end is sure to count.
SurelyCounted(spans, end) ==
  {s \in spans : Start <= Bucket(s.at) /\ s.at <= end}

TypeOK ==
  /\ now \in Nat /\ launched \in LaunchTimes /\ timer \in Nat
  /\ queryEnd \in Nat /\ baseCount \in Nat
  /\ visible \subseteq Span /\ IsFiniteSet(visible)
  /\ fieldKnown \in BOOLEAN /\ canceled \in BOOLEAN
  /\ pc \in {"poll", "baseQuery", "baseReply", "requiredQuery",
             "requiredReply", "waiting", "done"}
  /\ reply \in [kind: {"none", "count", "missing"}, count: Nat]
  /\ verdict \in [state: {"NONE", "PASS", "FAIL", "INCONCLUSIVE"},
                  quality: {"none", "complete", "insufficient", "error"},
                  samples: Nat]
  /\ round \in [spans: SUBSET visible, known: BOOLEAN]

\* PASS is never given on stale, future or missing telemetry: the samples it
\* reports and the value it needs are those of spans that SigNoz really holds
\* and that happened inside the window, although the two results were read at
\* different times and the server may return points outside the window
\* (traceCount).
PassIsWitnessed ==
  verdict.state = "PASS" =>
    /\ verdict.samples >= Minimum
    /\ Cardinality(InWindow(visible, queryEnd)) >= verdict.samples
    /\ Truncated(InWindow(visible, queryEnd)) >= RequiredMatches

\* FAIL needs sufficient in-window samples; and it is never given when telemetry
\* of the required value could already be summed up when the last round began
\* and the attribute's key was known by then: the decision is made on the last
\* answers and not on those of an earlier round (pollTelemetry).
FailIsGrounded ==
  verdict.state = "FAIL" =>
    /\ Cardinality(InWindow(visible, queryEnd)) >= Minimum
    /\ round.known =>
         Truncated(SurelyCounted(round.spans, queryEnd)) < RequiredMatches

\* Telemetry that is still arriving gets its time: unless SigNoz reports the
\* field as missing, neither a violation nor insufficient data is reported
\* before the completeness deadline or the end of the window has passed.
NoEarlyVerdict ==
  \/ verdict.quality = "insufficient"
  \/ verdict.state = "FAIL" /\ reply.kind = "count"
  => now >= Deadline

\* The check is bounded: it runs at most two query timeouts past its deadline,
\* or past its launch when the deadline had passed by then.
Bounded == now <= Later(launched, Deadline) + 2 * QueryTimeout

\* A sleep is cut at the deadline, so the last round is begun at the deadline
\* at the latest and asks for nothing past it; and the telemetry a verdict rests
\* on was asked for up to the end of the window, or up to an instant at most the
\* timeouts of the two queries before the decision (pollTelemetry, wait).
LastPoll == Later(launched, Deadline)
LastRoundIsFresh ==
  verdict.quality = "complete" \/ pc = "requiredReply" =>
    /\ queryEnd <= LastPoll
    /\ queryEnd = WindowEnd \/ now <= queryEnd + 2 * QueryTimeout

\* FAIL proves a violation (docs/ARCHITECTURE.md): when SigNoz knows the key, no
\* telemetry of the window that satisfies the requirement was there to be
\* counted.  traceCount truncates the sum of the values to an integer, so a
\* run of small cart values fails a requirement that it satisfies.
FailMeansAbsent ==
  verdict.state = "FAIL" /\ round.known =>
    Cardinality(Carrying(SurelyCounted(round.spans, queryEnd)))
      < RequiredMatches

\* The check always ends (pollTelemetry's loop has no other exit).
Terminates == <>(pc = "done")

----------------------------------------------------------------------------
\* What the invariants above rest on, step by step.

\* A decision ends the check; and the counts that are on their way are counts
\* of spans SigNoz still holds, all of the window of this round.
CountInv ==
  /\ pc # "done" => verdict = Undecided
  /\ pc \in {"baseReply", "requiredQuery", "requiredReply"} =>
       baseCount <= Cardinality(InWindow(visible, queryEnd))
  /\ pc = "requiredReply" => reply.kind \in {"count", "missing"}
  /\ pc = "requiredReply" /\ reply.kind = "count" =>
       reply.count <= Truncated(InWindow(visible, queryEnd))

\* An answer to the required query is not older than its round.
RoundInv ==
  /\ pc \in {"baseQuery", "baseReply", "requiredQuery", "requiredReply"} =>
       (round.known => fieldKnown)
  /\ pc = "requiredReply" =>
       /\ reply.kind = "missing" => ~round.known
       /\ reply.kind = "count" =>
            Truncated(SurelyCounted(round.spans, queryEnd)) <= reply.count

\* How late it can be at each place of the loop.
TimeInv ==
  /\ pc = "poll" => now <= LastPoll
  /\ pc = "waiting" => now <= timer /\ timer <= LastPoll
  /\ pc \in {"baseQuery", "baseReply"} =>
       now <= timer /\ timer <= LastPoll + QueryTimeout
  /\ pc \in {"requiredQuery", "requiredReply"} =>
       now <= timer /\ timer <= LastPoll + 2 * QueryTimeout

----------------------------------------------------------------------------
\* The loop implements the abstract check.

Check == INSTANCE CheckSpec WITH
  sampled <- Cardinality(InWindow(visible, WindowEnd)) >= Minimum,
  satisfied <- Truncated(InWindow(visible, WindowEnd)) >= RequiredMatches,
  outcome <- verdict.state

\* Every behaviour of the loop is one of the abstract check: it decides once
\* and for good, and on the terms stated there.
ImplementsCheck == Check!Spec

=============================================================================
