---------------------------- MODULE AlertHistory ----------------------------
(***************************************************************************)
(* Reading the firing history of the alert page by page: alertHistory and  *)
(* hasFreshFiringEvent (internal/verifier/verifier.go).                    *)
(*                                                                         *)
(* SigNoz appends events while the client pages.  An honest server cuts    *)
(* the history into pages and hands out the offset of the next one as the  *)
(* cursor; the client also has to survive a server whose cursors make no   *)
(* sense, answers that are no page (SigNozExchange) and connections that   *)
(* break.  All pages are read under one query context.                     *)
(***************************************************************************)
EXTENDS SigNozExchange

CONSTANTS
  MaxPages,      \* maxAlertHistoryPages
  PageSize,      \* the Limit of a request
  Events,        \* events in their wire form
  WildCursors,   \* what a server may return as a cursor that pages improperly
  MaxEvents      \* bound on the length of the server's history

ASSUME PagingAssumption ==
  /\ MaxPages \in Nat \ {0} /\ PageSize \in Nat \ {0} /\ MaxEvents \in Nat
  /\ WildCursors \subseteq 0..MaxEvents

VARIABLES
  log,           \* the server's history, oldest event first
  honest,        \* the server's cursors are those of its pages
  context,       \* the query context: live, past its deadline or canceled
  pc,
  page,          \* requests answered so far
  cursor,        \* cursor of the next request
  seenCursors,
  items,         \* the events collected so far
  outcome,
  asked          \* history: the cursors of the requests, in their order

vars == <<log, honest, context, pc, page, cursor, seenCursors, items, outcome,
          asked>>

Blank == 0      \* no cursor, in a request (the first page) and in an answer
Cursors == 0..MaxEvents

EventTime(item) ==
  IF item.timestamp \in {"", "zero"} THEN item.createdAt ELSE item.timestamp
HasFreshFiringEvent(collected) ==
  \E item \in ToSet(collected) :
    EventTime(item) = "inWindow" /\ item.state = "firing"

----------------------------------------------------------------------------
\* The server.

EventsAt(offset) ==
  SubSeq(log, offset + 1, IF offset + PageSize <= Len(log)
                          THEN offset + PageSize ELSE Len(log))
CursorAfter(offset) ==
  IF offset + PageSize < Len(log) THEN offset + PageSize ELSE Blank

NextCursors == IF honest THEN {CursorAfter(cursor)} ELSE WildCursors

\* The data of an answer: a page, flat or nested.
NoPage == [items |-> << >>, nextCursor |-> Blank]
Wires ==
  LET pages == {[items |-> EventsAt(cursor), nextCursor |-> next] :
                  next \in NextCursors}
  IN  {[page |-> fetched, data |-> << >>] : fetched \in pages}
        \cup {[page |-> NoPage, data |-> <<fetched>>] : fetched \in pages}

Record(event) ==
  /\ pc # "done" /\ Len(log) < MaxEvents
  /\ log' = Append(log, event)
  /\ UNCHANGED <<honest, context, pc, page, cursor, seenCursors, items,
                 outcome, asked>>

ContextEnds ==
  /\ pc # "done" /\ context = "live"
  /\ context' \in Contexts \ {"live"}
  /\ UNCHANGED <<log, honest, pc, page, cursor, seenCursors, items, outcome,
                 asked>>

----------------------------------------------------------------------------
\* The client.

Init ==
  /\ \E n \in 0..MaxEvents : log \in [1..n -> Events]
  /\ honest \in BOOLEAN
  /\ context = "live"
  /\ pc = "loop" /\ page = 0 /\ cursor = Blank
  /\ seenCursors = {} /\ items = << >>
  /\ outcome = "none" /\ asked = << >>

Return(result, returned) ==
  /\ pc' = "done" /\ outcome' = result /\ items' = returned
  /\ page' = 0 /\ cursor' = Blank /\ seenCursors' = {}
  /\ UNCHANGED <<log, honest, context, asked>>
ReturnError(result) == Return(result, << >>)

\* Mutants: the budget is one page short; the loop has no budget.
BudgetShort == page + 1 < MaxPages
BudgetUnlimited == TRUE

\* The condition of the loop.
BudgetLeft == page < MaxPages

OutOfPages ==
  /\ pc = "loop" /\ ~BudgetLeft
  /\ ReturnError("pageBudget")

ContextDone ==
  /\ pc = "loop" /\ BudgetLeft /\ context # "live"
  /\ ReturnError("contextDone")

Request ==
  /\ pc = "loop" /\ BudgetLeft /\ context = "live"
  /\ pc' = "request"
  /\ asked' = Append(asked, cursor)
  /\ UNCHANGED <<log, honest, context, page, cursor, seenCursors, items,
                 outcome>>

RequestFails ==
  /\ pc = "request"
  /\ \E break \in Breaks : ReturnError(RequestError(context, break))

\* The header has arrived; the body is read next.
HeaderReceived ==
  /\ pc = "request" /\ context = "live"
  /\ pc' = "body"
  /\ UNCHANGED <<log, honest, context, page, cursor, seenCursors, items,
                 outcome, asked>>

Refused ==
  /\ pc = "body"
  /\ \E answer \in Answers :
       /\ ~Usable(answer)
       /\ context # "live" => answer.body = "broken"
       /\ ReturnError(AnswerError(answer))

PageMalformed ==
  /\ pc = "body" /\ context = "live"
  /\ \E wire \in Wires : ~Parses(wire)
  /\ ReturnError("invalid_response")

\* Mutant: only the last page is returned.
CollectedLast(fetched) == fetched.items

Collected(fetched) == items \o fetched.items

KeepReading(fetched) ==
  /\ seenCursors' = seenCursors \cup {fetched.nextCursor}
  /\ cursor' = fetched.nextCursor /\ page' = page + 1
  /\ items' = Collected(fetched)
  /\ pc' = "loop"
  /\ UNCHANGED <<log, honest, context, outcome, asked>>

PageReceived ==
  /\ pc = "body" /\ context = "live"
  /\ \E wire \in Wires :
       LET fetched == History(wire)
           next == fetched.nextCursor
           ends == HasFreshFiringEvent(fetched.items) \/ next = Blank
       IN /\ Parses(wire)
          /\ \/ ends /\ Return("ok", Collected(fetched))
             \/ ~ends /\ next \in seenCursors /\ ReturnError("cursorLoop")
             \/ ~ends /\ next \notin seenCursors /\ KeepReading(fetched)

Stopped == pc = "done" /\ UNCHANGED vars

Client ==
  \/ OutOfPages \/ ContextDone \/ Request
  \/ RequestFails \/ HeaderReceived
  \/ Refused \/ PageMalformed \/ PageReceived

Next ==
  Client \/ (\E event \in Events : Record(event)) \/ ContextEnds \/ Stopped

Spec == Init /\ [][Next]_vars

----------------------------------------------------------------------------
TypeOK ==
  /\ log \in Seq(Events) /\ Len(log) <= MaxEvents
  /\ items \in Seq({ItemOf(event) : event \in Events})
  /\ honest \in BOOLEAN /\ context \in Contexts
  /\ pc \in {"loop", "request", "body", "done"}
  /\ page \in 0..MaxPages /\ cursor \in Cursors
  /\ seenCursors \subseteq Cursors
  /\ outcome \in {"none", "ok", "contextDone", "cursorLoop", "pageBudget"}
                 \cup Failures
  /\ asked \in Seq(Cursors)

\* A history that is returned as quiet is the whole history: with a server
\* that pages properly, every event it holds when the last page is read was
\* handed to the freshness test, none twice and none skipped, none lost with a
\* body that broke or passed over because its time did not parse.
QuietMeansWholeHistory ==
  outcome = "ok" /\ honest /\ ~HasFreshFiringEvent(items) =>
    /\ items = [i \in DOMAIN log |-> ItemOf(log[i])]
    /\ \A item \in ToSet(items) : item.timestamp # "malformed"

\* The guards against a runaway server never hit a proper one: the cursor loop
\* is not reported, and the budget only when the pages it covers hold no fresh
\* firing event and the history is longer than that.
GuardsSpareHonestServers ==
  honest =>
    /\ outcome # "cursorLoop"
    /\ outcome = "pageBudget" =>
         /\ Len(log) > MaxPages * PageSize
         /\ ~HasFreshFiringEvent(
               [i \in 1..MaxPages * PageSize |-> ItemOf(log[i])])

\* A runaway server, whatever cursors it makes up, costs the check a bounded
\* number of requests, none of them for a page it has asked for before; and the
\* budget is only reported when it was used up.
RunawayIsBounded ==
  /\ Len(asked) <= MaxPages
  /\ \A i, j \in DOMAIN asked : asked[i] = asked[j] => i = j
  /\ outcome = "pageBudget" => Len(asked) = MaxPages

\* What makes them inductive: a request is within the budget; and at every
\* request an honest server has handed out its history up to the cursor, and
\* nothing in it ends the reading.
BudgetInv == pc \in {"request", "body"} => page < MaxPages

Read(n) == [i \in 1..n |-> ItemOf(log[i])]

PagedInv ==
  pc # "done" =>
    /\ outcome = "none"
    /\ honest =>
         /\ cursor = page * PageSize
         /\ page = 0 \/ cursor < Len(log)
         /\ seenCursors \subseteq 1..cursor
         /\ items = Read(cursor)
         /\ \A i \in 1..cursor : ItemOf(log[i]).timestamp # "malformed"
         /\ ~HasFreshFiringEvent(items)

\* The cursors that were asked for are those the client remembers, the one that
\* comes next apart.
AskedInv ==
  /\ Blank \notin seenCursors /\ cursor \in {Blank} \cup seenCursors
  /\ pc = "loop" => /\ Len(asked) = page
                    /\ cursor \notin ToSet(asked)
                    /\ ToSet(asked) \subseteq {Blank} \cup seenCursors
  /\ pc \in {"request", "body"} =>
       /\ Len(asked) = page + 1
       /\ ToSet(asked) \subseteq {Blank} \cup seenCursors

=============================================================================
