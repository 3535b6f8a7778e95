----------------------------- MODULE AlertCheck -----------------------------
(***************************************************************************)
(* The alert-must-fire check of `guardian verify`: verifyAlert with        *)
(* getAlert, traceCount and wait (internal/verifier/verifier.go).          *)
(*                                                                         *)
(* The check polls until the end of the alert window.  A round fixes the   *)
(* end of its query window, counts the fault spans, then reads the firing  *)
(* history (module AlertHistory has the paging), and decides or sleeps.    *)
(* Meanwhile SigNoz ingests spans and records alert events, with any       *)
(* delay, and the caller's context may end.  Time as in TelemetryPoll.     *)
(***************************************************************************)
EXTENDS Naturals, FiniteSets

CONSTANTS
  Spans,            \* identities of the payment.authorize spans of the run
  Events,           \* identities of the events of the alert's history
  SpanTimes,        \* when spans may have happened
  EventTimes,       \* when events may have happened; 0: without a usable time
  LaunchTimes,      \* when the check may be started
  FaultInjectedAt,
  AlertTimeout,     \* the requirement's timeout
  RunEnds,          \* the instants at which the run may have ended (config.End)
  PollInterval, QueryTimeout, MinimumQueryWindow, Step

ASSUME WindowAssumption ==
  /\ FaultInjectedAt \in Nat \ {0} /\ AlertTimeout \in Nat \ {0}
  /\ RunEnds \subseteq Nat /\ \A end \in RunEnds : FaultInjectedAt < end
  /\ SpanTimes \subseteq Nat /\ EventTimes \subseteq Nat
  /\ LaunchTimes \subseteq Nat
ASSUME ParameterAssumption ==
  /\ IsFiniteSet(Spans) /\ IsFiniteSet(Events)
  /\ PollInterval \in Nat \ {0} /\ QueryTimeout \in Nat \ {0}
  /\ MinimumQueryWindow \in Nat \ {0} /\ Step \in Nat \ {0}

VARIABLES
  now,
  runEnd,        \* config.End
  visible,       \* fault spans that a query can see
  events,        \* the alert's history in SigNoz
  canceled,      \* the caller's context is done
  pc,
  launched,
  queryEnd,      \* end of the window of the current round
  timer,         \* when the pending HTTP exchange or wait() ends at the latest
  faultCount,    \* fault spans counted in this round
  history,       \* events returned in this round
  sawStale,      \* a stale event was returned in some round
  verdict,
  held,          \* history: the events SigNoz held when the history was read
  met            \* history: the events returned in this round or an earlier one

env == <<runEnd, visible, events, canceled>>
vars == <<now, runEnd, visible, events, canceled, pc, launched, queryEnd, timer,
          faultCount, history, sawStale, verdict, held, met>>

Span == [id: Spans, at: SpanTimes]
Event == [id: Events, at: EventTimes, firing: BOOLEAN]
Undecided == [state |-> "NONE", quality |-> "none", samples |-> 0]

Earlier(a, b) == IF a <= b THEN a ELSE b
Later(a, b) == IF a <= b THEN b ELSE a

End == Earlier(FaultInjectedAt + AlertTimeout, runEnd)

Bucket(t) == t - (t % Step)
ReturnedSpans(end, strict) ==
  IF strict THEN {s \in visible : FaultInjectedAt <= s.at /\ s.at <= end}
            ELSE visible
TraceCount(spans, end) ==
  Cardinality({s \in spans : /\ FaultInjectedAt <= Bucket(s.at)
                             /\ Bucket(s.at) <= end})

\* Events strictly after the fault and not after the end of the query window.
Fresh(evts, end) == {e \in evts : FaultInjectedAt < e.at /\ e.at <= end}
Firing(evts) == {e \in evts : e.firing}

\* The request asks for the firing events of the window; the client does not
\* rely on the server to keep to it.
ReturnedEvents(end, strict) ==
  IF strict THEN Firing(Fresh(events, end)) ELSE events

\* alertHistory reads page after page, up to the end of the history or to a
\* page with a firing event of the window (module AlertHistory).
PagesRead(evts, end) ==
  {evts} \cup {part \in SUBSET evts : Firing(Fresh(part, end)) # {}}

----------------------------------------------------------------------------
Init ==
  /\ launched \in LaunchTimes /\ runEnd \in RunEnds
  /\ now = launched
  /\ visible = {} /\ events = {} /\ canceled = FALSE
  /\ pc = "getAlert"
  /\ queryEnd = 0 /\ timer = launched + QueryTimeout
  /\ faultCount = 0 /\ history = {} /\ sawStale = FALSE
  /\ verdict = Undecided
  /\ held = {} /\ met = {}

FinishAlert(state, quality, samples) ==
  /\ pc' = "done"
  /\ verdict' = [state |-> state, quality |-> quality, samples |-> samples]
  /\ UNCHANGED <<now, env, launched, queryEnd, timer, faultCount, history,
                 sawStale, held, met>>

\* Mutant: the sleep is not cut at the end of the window.
SleepUncapped ==
  /\ pc' = "waiting"
  /\ timer' = now + PollInterval
  /\ UNCHANGED <<now, env, launched, queryEnd, faultCount, history, verdict,
                 held, met>>

\* wait(): sleep for the poll interval, but not past the end of the window.
Sleep ==
  /\ pc' = "waiting"
  /\ timer' = Earlier(now + PollInterval, End)
  /\ UNCHANGED <<now, env, launched, queryEnd, faultCount, history, verdict,
                 held, met>>

----------------------------------------------------------------------------
\* The alert resource is read once, before the loop.

AlertReceived ==
  /\ pc = "getAlert" /\ ~canceled
  /\ pc' = "poll"
  /\ UNCHANGED <<now, env, launched, queryEnd, timer, faultCount, history,
                 sawStale, verdict, held, met>>

\* Mutant: a quality the verdict does not know.
AlertUnavailableTimeout ==
  /\ pc = "getAlert"
  /\ FinishAlert("INCONCLUSIVE", "timeout", 0)

AlertUnavailable ==
  /\ pc = "getAlert"
  /\ FinishAlert("INCONCLUSIVE", "error", 0)

----------------------------------------------------------------------------
\* The top of the loop.

ThisEnd == Earlier(now, End)
TooShort == ThisEnd < FaultInjectedAt + MinimumQueryWindow

BeforeFault ==
  /\ pc = "poll" /\ ThisEnd <= FaultInjectedAt
  /\ Sleep /\ UNCHANGED sawStale

WindowTooShort ==
  /\ pc = "poll" /\ ThisEnd > FaultInjectedAt /\ TooShort
  /\ End <= ThisEnd
  /\ FinishAlert("INCONCLUSIVE", "insufficient", 0)

AwaitWindow ==
  /\ pc = "poll" /\ ThisEnd > FaultInjectedAt /\ TooShort
  /\ ThisEnd < End
  /\ Sleep /\ UNCHANGED sawStale

StartRound ==
  /\ pc = "poll" /\ ~TooShort
  /\ pc' = "faultQuery"
  /\ queryEnd' = ThisEnd
  /\ timer' = now + QueryTimeout
  /\ UNCHANGED <<now, env, launched, faultCount, history, sawStale, verdict,
                 held, met>>

----------------------------------------------------------------------------
\* The two queries of a round.

FaultsAnswered ==
  /\ pc = "faultQuery"
  /\ \E strict \in BOOLEAN :
       faultCount' = TraceCount(ReturnedSpans(queryEnd, strict), queryEnd)
  /\ pc' = "faultReply"
  /\ UNCHANGED <<now, env, launched, queryEnd, timer, history, sawStale,
                 verdict, held, met>>

FaultsReceived ==
  /\ pc = "faultReply" /\ ~canceled
  /\ pc' = "historyQuery"
  /\ timer' = now + QueryTimeout
  /\ UNCHANGED <<now, env, launched, queryEnd, faultCount, history, sawStale,
                 verdict, held, met>>

FaultQueryFailed ==
  /\ pc \in {"faultQuery", "faultReply"}
  /\ FinishAlert("INCONCLUSIVE", "error", 0)

HistoryAnswered ==
  /\ pc = "historyQuery"
  /\ \E strict \in BOOLEAN :
       history' \in PagesRead(ReturnedEvents(queryEnd, strict), queryEnd)
  /\ held' = events /\ met' = met \cup history'
  /\ pc' = "historyReply"
  /\ UNCHANGED <<now, env, launched, queryEnd, timer, faultCount, sawStale,
                 verdict>>

\* Also the page budget and the cursor loop of AlertHistory.
HistoryFailed ==
  /\ pc \in {"historyQuery", "historyReply"}
  /\ FinishAlert("INCONCLUSIVE", "error", faultCount)

----------------------------------------------------------------------------
\* The decision.

\* As in TelemetryPoll, an answer read by the client comes before the end of the
\* context, or the transport gives the exchange up.
\* Mutant: the queries do not run under the caller's context.
ReceivedAnyway == pc = "historyReply"

Received == pc = "historyReply" /\ ~canceled
\* Mutant: the events are taken as they come.
FreshUntested == history

FreshHere == Fresh(history, queryEnd)
\* Mutant: stale events are forgotten with the round.
StaleThisRound == history # FreshHere

StaleSoFar == sawStale \/ history # FreshHere
\* Mutant: one fault span is not enough.
FiredTwice == Firing(FreshHere) # {} /\ faultCount > 1

Fired == Firing(FreshHere) # {} /\ faultCount >= 1

AlertFired ==
  /\ Received /\ Fired
  /\ FinishAlert("PASS", "complete", faultCount)

WindowOver ==
  /\ Received /\ ~Fired
  /\ now >= End
  /\ IF faultCount < 1
     THEN FinishAlert("INCONCLUSIVE", "insufficient", faultCount)
     ELSE IF FreshHere = {} /\ StaleSoFar
     THEN FinishAlert("INCONCLUSIVE", "stale", faultCount)
     ELSE FinishAlert("FAIL", "complete", faultCount)

PollAgain ==
  /\ Received /\ ~Fired
  /\ now < End
  /\ sawStale' = StaleSoFar
  /\ Sleep

----------------------------------------------------------------------------
\* wait() returns; with the timer fired and the context done, either may win.

\* Mutant: the timer is awaited past the instant it fires at.
TimerMissed ==
  /\ pc = "waiting" /\ now > timer
  /\ pc' = "poll"
  /\ UNCHANGED <<now, env, launched, queryEnd, timer, faultCount, history,
                 sawStale, verdict, held, met>>

TimerFires ==
  /\ pc = "waiting" /\ now >= timer
  /\ pc' = "poll"
  /\ UNCHANGED <<now, env, launched, queryEnd, timer, faultCount, history,
                 sawStale, verdict, held, met>>

\* Before the first round no fault has been counted.
WaitCanceled ==
  /\ pc = "waiting" /\ canceled
  /\ FinishAlert("INCONCLUSIVE", "error", faultCount)

----------------------------------------------------------------------------
\* The world around the loop.

Blocked == pc \notin {"poll", "done"}

Tick ==
  /\ Blocked /\ now < timer
  /\ now' = now + 1
  /\ UNCHANGED <<env, pc, launched, queryEnd, timer, faultCount, history,
                 sawStale, verdict, held, met>>

Ingest(id, at) ==
  /\ Blocked /\ at <= now
  /\ \A s \in visible : s.id # id
  /\ visible' = visible \cup {[id |-> id, at |-> at]}
  /\ UNCHANGED <<now, runEnd, events, canceled, pc, launched, queryEnd, timer,
                 faultCount, history, sawStale, verdict, held, met>>

RecordEvent(id, at, firing) ==
  /\ Blocked /\ at <= now
  /\ \A e \in events : e.id # id
  /\ events' = events \cup {[id |-> id, at |-> at, firing |-> firing]}
  /\ UNCHANGED <<now, runEnd, visible, canceled, pc, launched, queryEnd, timer,
                 faultCount, history, sawStale, verdict, held, met>>

Cancel ==
  /\ Blocked /\ ~canceled
  /\ canceled' = TRUE
  /\ UNCHANGED <<now, runEnd, visible, events, pc, launched, queryEnd, timer,
                 faultCount, history, sawStale, verdict, held, met>>

Stopped == pc = "done" /\ UNCHANGED vars

Loop ==
  \/ AlertReceived \/ AlertUnavailable
  \/ BeforeFault \/ WindowTooShort \/ AwaitWindow \/ StartRound
  \/ FaultsReceived \/ FaultQueryFailed \/ HistoryFailed
  \/ AlertFired \/ WindowOver \/ PollAgain
  \/ TimerFires \/ WaitCanceled

Environment ==
  \/ \E id \in Spans, at \in SpanTimes : Ingest(id, at)
  \/ \E id \in Events, at \in EventTimes, f \in BOOLEAN :
       RecordEvent(id, at, f)
  \/ Cancel

Next ==
  \/ Loop \/ FaultsAnswered \/ HistoryAnswered \/ Tick \/ Environment
  \/ Stopped

Spec == Init /\ [][Next]_vars

\* As in TelemetryPoll: the timers of the code fire.
FairSpec == Spec /\ WF_vars(Loop) /\ WF_vars(Tick)
                 /\ WF_vars(FaultsAnswered) /\ WF_vars(HistoryAnswered)

----------------------------------------------------------------------------
\* Properties.

\* The fault spans that happened in the window, up to the end of a last bucket:
\* a point of a query result stands for its whole bucket.
InWindow(spans) ==
  {s \in spans : FaultInjectedAt <= s.at /\ s.at < End + Step}

TypeOK ==
  /\ now \in Nat /\ timer \in Nat
  /\ launched \in LaunchTimes /\ runEnd \in RunEnds
  /\ queryEnd \in Nat /\ faultCount \in Nat
  /\ visible \subseteq Span /\ IsFiniteSet(visible)
  /\ events \subseteq Event
  /\ history \subseteq events /\ held \subseteq events /\ met \subseteq events
  /\ canceled \in BOOLEAN /\ sawStale \in BOOLEAN
  /\ pc \in {"getAlert", "poll", "faultQuery", "faultReply", "historyQuery",
             "historyReply", "waiting", "done"}
  /\ verdict \in [state: {"NONE", "PASS", "FAIL", "INCONCLUSIVE"},
                  quality: {"none", "complete", "insufficient", "stale",
                            "error"},
                  samples: Nat]

\* PASS needs an alert that really fired inside the window, strictly after the
\* fault, and a span of the faulted operation inside it: an event left over
\* from an earlier run, or one without a usable time, never passes the check,
\* nor does an alert that no fault of this run can have caused (verifyAlert).
PassIsWitnessed ==
  verdict.state = "PASS" =>
    /\ Firing(Fresh(events, End)) # {}
    /\ InWindow(visible) # {}

\* FAIL is given after the end of the window only, on fault telemetry that is
\* really there, and never while the history that was read held a firing event
\* of the queried window.
FailIsGrounded ==
  verdict.state = "FAIL" =>
    /\ now >= End
    /\ InWindow(visible) # {}
    /\ Firing(Fresh(held, queryEnd)) = {}

\* Stale history is reported as such: the check claims a missed alert without a
\* single event of the queried window only if no event that any of its rounds
\* was given is from before the fault, without a usable time, or later than the
\* whole window (verifyAlert keeps sawStale over its rounds).
StaleIsNotAMiss ==
  verdict.state = "FAIL" /\ Fresh(history, queryEnd) = {}
    => met = Fresh(met, End)

\* FAIL says "bounded observation completed without a firing alert event", and
\* its evidence covers the window up to End: the history that was read held no
\* firing event of that window.  The end of the query window is fixed before
\* the queries and the clock is read again after them, so it may hold one.
FailCoversWindow ==
  verdict.state = "FAIL" => Firing(Fresh(held, End)) = {}

\* The check is bounded by the end of the window and the timeouts of the
\* queries that may straddle it.
LastPoll == Later(launched + QueryTimeout, End)
Bounded == now <= LastPoll + 2 * QueryTimeout

Terminates == <>(pc = "done")

----------------------------------------------------------------------------
\* What makes them inductive: what the places of the loop know.

\* A count other than none is a count of spans of the window, and a history
\* without firing events in the window of the round means that SigNoz held
\* none when it was read.
RoundInv ==
  /\ pc # "done" => verdict = Undecided
  /\ queryEnd <= End
  /\ pc \in {"faultReply", "historyQuery", "historyReply"}
       /\ faultCount >= 1 => InWindow(visible) # {}
  /\ pc = "historyReply" /\ Firing(Fresh(history, queryEnd)) = {}
       => Firing(Fresh(held, queryEnd)) = {}

\* Unless the loop remembers a stale event, every event it was given is one of
\* the window, those of the round it judges, or ended with, apart.
StaleInv ==
  ~sawStale =>
    \A e \in met : \/ e \in Fresh(met, End)
                   \/ pc \in {"historyReply", "done"} /\ e \in history

\* How far the clock may be at each place of the loop.
TimeInv ==
  /\ pc = "getAlert" =>
       now <= timer /\ timer <= launched + QueryTimeout
  /\ pc = "poll" => now <= LastPoll
  /\ pc = "waiting" => now <= timer /\ timer <= LastPoll
  /\ pc \in {"faultQuery", "faultReply"} =>
       now <= timer /\ timer <= LastPoll + QueryTimeout
  /\ pc \in {"historyQuery", "historyReply"} =>
       now <= timer /\ timer <= LastPoll + 2 * QueryTimeout

----------------------------------------------------------------------------
\* The loop implements the abstract check.

Check == INSTANCE CheckSpec WITH
  sampled <- InWindow(visible) # {},
  satisfied <- Firing(Fresh(events, End)) # {},
  outcome <- verdict.state

ImplementsCheck == Check!Spec

=============================================================================
