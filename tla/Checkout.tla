------------------------------ MODULE Checkout ------------------------------
(***************************************************************************)
(* The checkout service (demo/checkout/main.go): handlers of concurrent    *)
(* requests, each of which exports its telemetry before it answers.  The   *)
(* export goes to the collector signal by signal and stops at the first    *)
(* error; the customer is answered all the same.                           *)
(*                                                                         *)
(* Of what the collector holds only the traces matter to Guardian.         *)
(***************************************************************************)
CONSTANTS
  Requests,      \* requests that the handler accepts
  Faults         \* those that inject the payment timeout

VARIABLES
  variant,       \* RELEASE_VARIANT
  handler,       \* request |-> the export it waits for, and when it started
  traces         \* the requests whose span the collector holds

Init ==
  /\ variant \in {"healthy", "broken"}
  /\ handler = [r \in Requests |-> [place |-> "none", started |-> 0]]
  /\ traces = {}

\* Mutant: the release was renamed in one place only.
TelemetryAttributesBoth(r) == {"run.id", "cart.value", "cart.amount"}

TelemetryAttributes(r) ==
  {"run.id"} \cup
  IF variant = "healthy"
  THEN {"cart.value"} \cup IF r \in Faults THEN {"error.type"} ELSE {}
  ELSE {"cart.amount"} \cup IF r \in Faults THEN {"error.kind"} ELSE {}

\* The payloads of emit, in their order.
After(r, signal) ==
  IF signal = "traces" THEN "metrics"
  ELSE IF signal = "metrics" /\ r \in Faults THEN "logs"
  ELSE "answered"

Exporting(r) == handler[r].place \in {"traces", "metrics", "logs"}

\* POST /checkout with a cart value above zero; other requests are refused and
\* leave nothing behind.
Accept(r, started) ==
  /\ handler[r].place = "none"
  /\ handler' = [handler EXCEPT ![r] = [place |-> "traces",
                                        started |-> started]]
  /\ UNCHANGED <<variant, traces>>

Stored(r) ==
  traces' = IF handler[r].place = "traces" THEN traces \cup {r} ELSE traces

Posted(r) ==
  /\ Exporting(r)
  /\ handler' = [handler EXCEPT ![r].place = After(r, @)]
  /\ Stored(r)
  /\ UNCHANGED variant

\* No identity for the span, no connection, an answer other than 2xx, or the
\* five seconds of the export are over: the collector may have stored it.
PostFails(r) ==
  /\ Exporting(r)
  /\ handler' = [handler EXCEPT ![r].place = "answered"]
  /\ Stored(r) \/ UNCHANGED traces
  /\ UNCHANGED variant

=============================================================================
