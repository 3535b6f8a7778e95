---------------------------- MODULE SigNozExchange ----------------------------
(***************************************************************************)
(* One exchange with SigNoz (internal/signoz/client.go): what `do' makes   *)
(* of a request that breaks and of the answers that a server, or a proxy   *)
(* in front of it, gives; and the decoding of a page of an alert history.  *)
(***************************************************************************)
EXTENDS Naturals, Sequences, SequencesExt

CONSTANT Statuses      \* HTTP status codes that are met

ASSUME ExchangeAssumption == Statuses \subseteq 100..599

\* The context of the caller; the client's own timer is one of the breaks.
Contexts == {"live", "deadline", "canceled"}
Breaks == {"timeout", "connection"}

\* http.Do returns an error, before the header of an answer.
RequestError(context, break) ==
  IF context = "canceled" THEN "canceled"
  ELSE IF context = "deadline" \/ break = "timeout" THEN "timeout"
  ELSE "requestFailed"

\* Mutant: a status that is not in the table leaves the kind empty.
StatusErrorUnset(status) ==
  CASE status = 401 -> "unauthorized"
    [] status = 403 -> "forbidden"
    [] status = 404 -> "not_found"
    [] status \in {408, 504} -> "timeout"
    [] status = 400 -> "invalid_request"
    [] OTHER -> ""

StatusError(status) ==
  CASE status = 401 -> "unauthorized"
    [] status = 403 -> "forbidden"
    [] status = 404 -> "not_found"
    [] status \in {408, 504} -> "timeout"
    [] status = 400 -> "invalid_request"
    [] OTHER -> "unexpected_status"

\* An answer: its body arrives or the connection breaks while it is read, is
\* within maxResponseBytes, and is an envelope with data, one without, or none.
Bodies == {"broken", "tooLarge", "noJSON", "noSuccessData", "data"}
Answers == [status: Statuses, body: Bodies]

Usable(answer) == answer.status \in 200..299 /\ answer.body = "data"

\* The body is read before the status is looked at.
AnswerError(answer) ==
  IF answer.body \in {"broken", "tooLarge"} \/ answer.status \in 200..299
  THEN "invalid_response"
  ELSE StatusError(answer.status)

Failures ==
  {"canceled", "timeout", "requestFailed", "invalid_response", "unauthorized",
   "forbidden", "not_found", "invalid_request", "unexpected_status"}

----------------------------------------------------------------------------
\* A page of an alert history.  A time is absent or null (""), zero, malformed, or
\* inside or outside the window that the caller asks about; it comes as a number,
\* as a number in a text, or as an RFC 3339 text.

TimestampOf(event) ==
  IF event.timestamp # "" THEN event.timestamp ELSE event.unixMilli

ItemOf(event) ==
  [timestamp |-> TimestampOf(event), createdAt |-> event.createdAt,
   state |-> event.state]

\* The page is the data itself, or lies in a field data of it.
PageOf(wire) == IF wire.data # << >> THEN Head(wire.data) ELSE wire.page

\* history(): one event whose time does not parse spoils the page.
Parses(wire) ==
  \A event \in ToSet(PageOf(wire).items) : TimestampOf(event) # "malformed"
History(wire) ==
  [nextCursor |-> PageOf(wire).nextCursor,
   items |-> [i \in DOMAIN PageOf(wire).items |->
                ItemOf(PageOf(wire).items[i])]]

=============================================================================
