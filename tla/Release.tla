------------------------------- MODULE Release -------------------------------
(***************************************************************************)
(* A release under verification: the checkout service, SigNoz and a check  *)
(* of its telemetry, all at work at once.  SigNoz shows a span only after  *)
(* the collector has stored it, at any later time; it answers a query for  *)
(* the window it was asked for.                                            *)
(*                                                                         *)
(* The check is that of the operation payment.authorize or that of the     *)
(* field cart.value; both ask for RequiredMatches units.  A span counts as *)
(* one towards the operation.  The workload's carts (scripts/load) are of  *)
(* value 42, which is MaxValue: one of them satisfies the field check.     *)
(***************************************************************************)
EXTENDS TelemetryPoll

CONSTANT Faults

ASSUME ReleaseAssumption ==
  /\ Unit = 1 /\ RequiredMatches = Minimum /\ MaxValue >= RequiredMatches
  /\ Faults \subseteq Spans

VARIABLES
  variant, handler, traces,    \* the service
  check                        \* what is checked

Service == INSTANCE Checkout WITH Requests <- Spans

releaseVars == <<vars, variant, handler, traces, check>>

ReleaseInit ==
  /\ Init /\ Service!Init
  /\ check \in {"payment.authorize", "cart.value"}
  \* The name of a span is no key that has to be discovered.
  /\ check = "payment.authorize" => fieldKnown

Value(r) ==
  IF check = "payment.authorize" THEN 1
  ELSE IF "cart.value" \in Service!TelemetryAttributes(r) THEN MaxValue ELSE 0

\* Steps of the check, with a server that keeps to the window.
Answer ==
  \/ BaseAnswered /\ baseCount' = TraceCount(Returned(queryEnd, TRUE), queryEnd)
  \/ /\ RequiredAnswered
     /\ \/ reply' = MissingField
        \/ reply' = Counted(TraceSum(Returned(queryEnd, TRUE), queryEnd))

Apart == UNCHANGED <<variant, handler, traces, check>>

\* A request may have been served before the check began.
Serve ==
  /\ Blocked
  /\ \E r \in Spans :
       \/ \E at \in EventTimes : at <= now /\ Service!Accept(r, at)
       \/ Service!Posted(r) \/ Service!PostFails(r)
  /\ UNCHANGED <<vars, check>>

Show ==
  /\ \E r \in traces : Ingest(r, handler[r].started, Value(r))
  /\ Apart

ReleaseNext ==
  \/ (Loop \/ Answer \/ Tick \/ DiscoverField \/ Cancel \/ Stopped) /\ Apart
  \/ Serve \/ Show

\* The service may hang in an export and SigNoz need not show anything.
ReleaseSpec ==
  ReleaseInit /\ [][ReleaseNext]_releaseVars /\ Fairness

----------------------------------------------------------------------------
\* The verdict is about the release: of the check of the field, only a broken
\* release fails (unless SigNoz does not know the key yet) and only a healthy
\* one passes; none fails the check of the operation; and a PASS rests on
\* enough requests that were accepted in the window.  This holds although the
\* requests export their telemetry concurrently, in part or never, and the two
\* queries of a round are answered while spans are being added (checkout,
\* emit, pollTelemetry).
ReleaseIsJudged ==
  LET served == {r \in traces : /\ handler[r].started >= Start
                                /\ handler[r].started <= queryEnd}
  IN /\ verdict.state = "PASS" =>
          /\ Cardinality(served) >= Minimum
          /\ check = "cart.value" => variant = "healthy"
     /\ verdict.state = "FAIL" /\ round.known =>
          check = "cart.value" /\ variant = "broken"
=============================================================================
