------------------------- MODULE AlertHistory_proofs -------------------------
(***************************************************************************)
(* Proofs about AlertHistory, for every page size, page budget and history *)
(* and for every set of events: types, the completeness of a history that  *)
(* is returned as quiet, the innocence of the guards and their effect on a *)
(* runaway server.                                                         *)
(***************************************************************************)
EXTENDS AlertHistory, SequenceTheorems, TLAPS

USE ExchangeAssumption, PagingAssumption

Items == {ItemOf(event) : event \in Events}

\* Where the page at the cursor ends.
PageEnd ==
  IF cursor + PageSize <= Len(log) THEN cursor + PageSize ELSE Len(log)

----------------------------------------------------------------------------
\* The operators the model is built from.

LEMMA LogType ==
  ASSUME TypeOK
  PROVE  /\ log \in Seq(Events) /\ Len(log) \in Nat /\ Len(log) <= MaxEvents
         /\ DOMAIN log = 1..Len(log)
         /\ \A i \in 1..Len(log) : log[i] \in Events
         /\ cursor \in Nat /\ page \in Nat /\ PageSize \in Nat \ {0}
         /\ PageEnd \in Nat
BY DEF TypeOK, Cursors, PageEnd

\* A page is the piece of the history that starts at its cursor.
LEMMA PageIsPiece ==
  ASSUME TypeOK
  PROVE  /\ EventsAt(cursor) \in Seq(Events)
         /\ cursor <= Len(log) => Len(EventsAt(cursor)) = PageEnd - cursor
         /\ \A i \in 1..Len(EventsAt(cursor)) :
              EventsAt(cursor)[i] = log[cursor + i]
<1>1. /\ cursor + 1 \in Int /\ PageEnd \in Int /\ cursor \in Nat
      /\ PageEnd <= Len(log)
  BY LogType DEF PageEnd
<1>2. \A i \in cursor + 1 .. PageEnd : log[i] \in Events
  BY <1>1, LogType
<1>3. EventsAt(cursor) = SubSeq(log, cursor + 1, PageEnd)
  BY DEF EventsAt, PageEnd
<1>4. /\ EventsAt(cursor) \in Seq(Events)
      /\ Len(EventsAt(cursor))
           = IF cursor + 1 <= PageEnd THEN PageEnd - (cursor + 1) + 1 ELSE 0
      /\ \A i \in 1..PageEnd - (cursor + 1) + 1 :
           EventsAt(cursor)[i] = log[(cursor + 1) + i - 1]
  BY <1>1, <1>2, <1>3, SubSeqProperties
<1>5. cursor <= Len(log) => cursor <= PageEnd
  BY LogType DEF PageEnd
<1>6. QED
  BY <1>1, <1>4, <1>5, LogType

\* Flat or nested, an answer holds that page and a cursor of the server.
LEMMA AnswerHoldsPage ==
  ASSUME NEW wire \in Wires
  PROVE  /\ PageOf(wire).items = EventsAt(cursor)
         /\ PageOf(wire).nextCursor \in NextCursors
BY DEF Wires, PageOf, NoPage

LEMMA DecodedPage ==
  ASSUME TypeOK, NEW wire \in Wires
  PROVE  /\ History(wire).nextCursor \in NextCursors
         /\ History(wire).items \in Seq(Items)
         /\ Len(History(wire).items) = Len(EventsAt(cursor))
         /\ \A i \in 1..Len(EventsAt(cursor)) :
              History(wire).items[i] = ItemOf(log[cursor + i])
<1> DEFINE evts == EventsAt(cursor)
<1>1. /\ evts \in Seq(Events) /\ DOMAIN evts = 1..Len(evts)
      /\ Len(evts) \in Nat
      /\ \A i \in 1..Len(evts) : evts[i] \in Events
                                 /\ evts[i] = log[cursor + i]
  BY PageIsPiece
<1>2. /\ History(wire).nextCursor \in NextCursors
      /\ History(wire).items = [i \in DOMAIN evts |-> ItemOf(evts[i])]
  BY AnswerHoldsPage DEF History
<1> HIDE DEF evts
<1>3. History(wire).items = [i \in 1..Len(evts) |-> ItemOf(evts[i])]
  BY <1>1, <1>2
<1>4. \A i \in 1..Len(evts) : ItemOf(evts[i]) \in Items
  BY <1>1 DEF Items
<1>5. [i \in 1..Len(evts) |-> ItemOf(evts[i])] \in Seq(Items)
  BY <1>1, <1>4
<1>6. /\ History(wire).items \in Seq(Items)
      /\ Len(History(wire).items) = Len(evts)
      /\ \A i \in 1..Len(evts) : History(wire).items[i] = ItemOf(log[cursor + i])
  BY <1>1, <1>3, <1>5
<1>7. QED
  BY <1>2, <1>6 DEF evts

----------------------------------------------------------------------------
\* Types.

LEMMA TypeInit == Init => TypeOK
<1> SUFFICES ASSUME Init PROVE TypeOK
  OBVIOUS
<1>1. PICK n \in 0..MaxEvents : log \in [1..n -> Events]
  BY DEF Init
<1>2. log \in Seq(Events) /\ Len(log) <= MaxEvents
  BY <1>1
<1>3. 0 \in 0..MaxPages /\ Blank \in Cursors
  BY DEF Blank, Cursors
<1>4. QED
  BY <1>2, <1>3 DEF Init, TypeOK, Contexts

LEMMA ReturnType ==
  ASSUME TypeOK, NEW returned \in Seq(Items),
         NEW result \in {"ok", "contextDone", "cursorLoop", "pageBudget"}
                          \cup Failures,
         Return(result, returned)
  PROVE  TypeOK' /\ BudgetInv'
<1>1. 0 \in 0..MaxPages /\ Blank \in Cursors
  BY DEF Blank, Cursors
<1>2. QED
  BY <1>1 DEF Return, TypeOK, BudgetInv, Items

LEMMA ErrorType ==
  ASSUME TypeOK, NEW result \in {"contextDone", "cursorLoop", "pageBudget"}
                                \cup Failures,
         ReturnError(result)
  PROVE  TypeOK' /\ BudgetInv'
<1>1. << >> \in Seq(Items)
  BY EmptySeq
<1>2. QED
  BY <1>1, ReturnType DEF ReturnError

LEMMA CollectedType ==
  ASSUME TypeOK, NEW wire \in Wires
  PROVE  /\ Collected(History(wire)) \in Seq(Items)
         /\ History(wire).nextCursor \in Cursors
<1>1. items \in Seq(Items)
  BY DEF TypeOK, Items
<1>2. Collected(History(wire)) \in Seq(Items)
  BY <1>1, DecodedPage, ConcatProperties DEF Collected
<1>3. CursorAfter(cursor) \in Cursors
  BY LogType DEF CursorAfter, Cursors, Blank
<1>4. NextCursors \subseteq Cursors
  BY <1>3 DEF NextCursors, Cursors
<1>5. QED
  BY <1>2, <1>4, DecodedPage

LEMMA TypeStep ==
  ASSUME TypeOK, BudgetInv, [Next]_vars
  PROVE  TypeOK' /\ BudgetInv'
<1>1. CASE OutOfPages
  BY <1>1, ErrorType DEF OutOfPages
<1>2. CASE ContextDone
  BY <1>2, ErrorType DEF ContextDone
<1>3. CASE Request
  <2>1. asked' \in Seq(Cursors)
    BY <1>3, AppendProperties DEF Request, TypeOK
  <2>2. QED
    BY <1>3, <2>1 DEF Request, TypeOK, BudgetInv, BudgetLeft
<1>4. CASE RequestFails
  <2>1. PICK break \in Breaks : ReturnError(RequestError(context, break))
    BY <1>4 DEF RequestFails
  <2>2. RequestError(context, break) \in Failures
    BY DEF RequestError, Failures
  <2>3. QED
    BY <2>1, <2>2, ErrorType
<1>5. CASE HeaderReceived
  BY <1>5 DEF HeaderReceived, TypeOK, BudgetInv
<1>6. CASE Refused
  <2>1. PICK answer \in Answers : ReturnError(AnswerError(answer))
    BY <1>6 DEF Refused
  <2>2. AnswerError(answer) \in Failures
    BY DEF AnswerError, StatusError, Failures
  <2>3. QED
    BY <2>1, <2>2, ErrorType
<1>7. CASE PageMalformed
  BY <1>7, ErrorType DEF PageMalformed, Failures
<1>8. CASE PageReceived
  <2>1. PICK wire \in Wires :
          \/ Return("ok", Collected(History(wire)))
          \/ ReturnError("cursorLoop")
          \/ KeepReading(History(wire))
    BY <1>8 DEF PageReceived
  <2>2. CASE Return("ok", Collected(History(wire)))
    BY <2>2, CollectedType, ReturnType
  <2>3. CASE ReturnError("cursorLoop")
    BY <2>3, ErrorType
  <2>4. CASE KeepReading(History(wire))
    <3>1. page + 1 \in 0..MaxPages
      BY <1>8, LogType DEF PageReceived, BudgetInv
    <3>2. QED
      BY <2>4, <3>1, CollectedType DEF KeepReading, TypeOK, Items, BudgetInv
  <2>5. QED
    BY <2>1, <2>2, <2>3, <2>4
<1>9. ASSUME NEW event \in Events, Record(event)
      PROVE  TypeOK' /\ BudgetInv'
  <2>1. log' \in Seq(Events) /\ Len(log') = Len(log) + 1
    BY <1>9, AppendProperties DEF Record, TypeOK
  <2>2. Len(log') <= MaxEvents
    BY <1>9, <2>1, LogType DEF Record
  <2>3. QED
    BY <1>9, <2>1, <2>2 DEF Record, TypeOK, BudgetInv
<1>10. CASE ContextEnds
  BY <1>10 DEF ContextEnds, TypeOK, BudgetInv
<1>11. CASE UNCHANGED vars
  BY <1>11 DEF vars, TypeOK, BudgetInv
<1>12. QED
  BY <1>1, <1>2, <1>3, <1>4, <1>5, <1>6, <1>7, <1>8, <1>9, <1>10, <1>11
  DEF Next, Client, Stopped

LEMMA Typing == Spec => [](TypeOK /\ BudgetInv)
<1>1. Init => BudgetInv
  BY DEF Init, BudgetInv
<1>2. TypeOK /\ BudgetInv /\ [Next]_vars => TypeOK' /\ BudgetInv'
  BY TypeStep
<1>3. QED
  BY TypeInit, <1>1, <1>2, PTL DEF Spec

\* Every variable keeps its type: in particular the pages stay within the
\* budget and every failure is one of those the client classifies
\* (alertHistory, do).
THEOREM TypeCorrect == Spec => []TypeOK
BY Typing, PTL

----------------------------------------------------------------------------
\* What an honest server has handed out.

LEMMA ReadType ==
  ASSUME TypeOK, NEW n \in Nat, n <= Len(log)
  PROVE  /\ Read(n) \in Seq(Items) /\ Len(Read(n)) = n
         /\ \A i \in 1..n : Read(n)[i] = ItemOf(log[i])
<1>1. \A i \in 1..n : ItemOf(log[i]) \in Items
  BY LogType DEF Items
<1>2. [i \in 1..n |-> ItemOf(log[i])] \in Seq(Items)
  BY <1>1
<1>3. QED
  BY <1>2 DEF Read

LEMMA ConcatHalves ==
  ASSUME NEW S, NEW s \in Seq(S), NEW t \in Seq(S)
  PROVE  /\ s \o t \in Seq(S)
         /\ Len(s) \in Nat /\ Len(t) \in Nat
         /\ Len(s \o t) = Len(s) + Len(t)
         /\ \A i \in 1..Len(s) : (s \o t)[i] = s[i]
         /\ \A i \in 1..Len(t) : (s \o t)[Len(s) + i] = t[i]
<1>1. /\ s \o t \in Seq(S)
      /\ Len(s) \in Nat /\ Len(t) \in Nat
      /\ Len(s \o t) = Len(s) + Len(t)
  BY ConcatProperties, LenProperties
<1>2. \A i \in 1..Len(s) + Len(t) :
        (s \o t)[i] = IF i <= Len(s) THEN s[i] ELSE t[i - Len(s)]
  BY ConcatProperties
<1>3. ASSUME NEW i \in 1..Len(t)
      PROVE  (s \o t)[Len(s) + i] = t[i]
  <2>1. /\ Len(s) + i \in 1..Len(s) + Len(t)
        /\ ~(Len(s) + i <= Len(s)) /\ (Len(s) + i) - Len(s) = i
    BY <1>1
  <2>2. QED
    BY <1>2, <2>1
<1>4. ASSUME NEW i \in 1..Len(s)
      PROVE  (s \o t)[i] = s[i]
  <2>1. i \in 1..Len(s) + Len(t) /\ i <= Len(s)
    BY <1>1
  <2>2. QED
    BY <1>2, <2>1
<1>5. QED
  BY <1>1, <1>3, <1>4

\* The next page extends what was read to the end of that page.
LEMMA CollectedIsRead ==
  ASSUME TypeOK, cursor <= Len(log), items = Read(cursor), NEW wire \in Wires
  PROVE  Collected(History(wire)) = Read(PageEnd)
<1> DEFINE fetched == History(wire).items
           both == items \o fetched
<1>1. /\ cursor \in Nat /\ PageEnd \in Nat /\ cursor <= PageEnd
      /\ PageEnd <= Len(log) /\ Len(log) \in Nat
  BY LogType DEF PageEnd
<1>2. /\ items \in Seq(Items) /\ Len(items) = cursor
      /\ \A i \in 1..cursor : items[i] = ItemOf(log[i])
  BY <1>1, ReadType
<1>3. /\ fetched \in Seq(Items) /\ Len(fetched) = PageEnd - cursor
      /\ \A i \in 1..PageEnd - cursor : fetched[i] = ItemOf(log[cursor + i])
  BY DecodedPage, PageIsPiece
<1>4. /\ Read(PageEnd) \in Seq(Items) /\ Len(Read(PageEnd)) = PageEnd
      /\ \A i \in 1..PageEnd : Read(PageEnd)[i] = ItemOf(log[i])
  BY <1>1, ReadType
<1> HIDE DEF fetched
<1>4a. items \in Seq(Items) /\ fetched \in Seq(Items)
  BY <1>2, <1>3
<1>5. /\ both \in Seq(Items)
      /\ Len(both) = Len(items) + Len(fetched)
      /\ \A i \in 1..Len(items) : both[i] = items[i]
      /\ \A i \in 1..Len(fetched) : both[Len(items) + i] = fetched[i]
  BY ONLY <1>4a, ConcatHalves
<1> HIDE DEF both
<1>6. ASSUME NEW i \in 1..PageEnd
      PROVE  both[i] = Read(PageEnd)[i]
  <2>1. CASE i <= cursor
    BY <1>1, <1>2, <1>4, <1>5, <2>1
  <2>2. CASE i > cursor
    <3>1. PICK j \in 1..PageEnd - cursor : i = cursor + j
      <4>1. i - cursor \in 1..PageEnd - cursor /\ i = cursor + (i - cursor)
        BY <1>1, <2>2
      <4>2. QED
        BY <4>1
    <3>2. both[cursor + j] = fetched[j]
      BY <1>2, <1>3, <1>5
    <3>3. fetched[j] = ItemOf(log[cursor + j])
      BY <1>3
    <3>4. QED
      BY <1>4, <3>1, <3>2, <3>3
  <2>3. QED
    BY <1>1, <2>1, <2>2
<1>7. Len(both) = PageEnd
  BY <1>1, <1>2, <1>3, <1>5
<1>8. both = Read(PageEnd)
  BY <1>4, <1>5, <1>6, <1>7, SeqEqual
<1>9. QED
  BY <1>8 DEF Collected, both, fetched

\* A page that parses holds no event without a usable time.
LEMMA ParsedPage ==
  ASSUME TypeOK, cursor <= Len(log), NEW wire \in Wires, Parses(wire),
         NEW i \in cursor + 1 .. PageEnd
  PROVE  ItemOf(log[i]).timestamp # "malformed"
<1>1. /\ cursor \in Nat /\ PageEnd \in Nat /\ cursor <= PageEnd
  BY LogType DEF PageEnd
<1>2. /\ EventsAt(cursor) \in Seq(Events)
      /\ Len(EventsAt(cursor)) = PageEnd - cursor
  BY PageIsPiece
<1>3. i - cursor \in 1..Len(EventsAt(cursor)) /\ cursor + (i - cursor) = i
  BY <1>1, <1>2
<1>4. EventsAt(cursor)[i - cursor] = log[i]
  BY <1>3, PageIsPiece
<1>5. log[i] \in ToSet(EventsAt(cursor))
  BY <1>2, <1>3, <1>4 DEF ToSet
<1>6. TimestampOf(log[i]) # "malformed"
  BY <1>5, AnswerHoldsPage DEF Parses
<1>7. QED
  BY <1>6 DEF ItemOf

\* Fresh firing events of a concatenation are those of its parts.
LEMMA FreshOfBoth ==
  ASSUME NEW s \in Seq(Items), NEW t \in Seq(Items)
  PROVE  HasFreshFiringEvent(s \o t)
           <=> HasFreshFiringEvent(s) \/ HasFreshFiringEvent(t)
<1> DEFINE both == s \o t
<1>1. /\ both \in Seq(Items) /\ DOMAIN both = 1..Len(both)
      /\ DOMAIN s = 1..Len(s) /\ DOMAIN t = 1..Len(t)
      /\ Len(s) \in Nat /\ Len(t) \in Nat
      /\ Len(both) = Len(s) + Len(t)
      /\ \A i \in 1..Len(s) : both[i] = s[i]
      /\ \A i \in 1..Len(t) : both[Len(s) + i] = t[i]
  BY ConcatHalves, LenProperties
<1> HIDE DEF both
<1>2. ASSUME NEW i \in 1..Len(t)
      PROVE  t[i] \in ToSet(both)
  <2>1. Len(s) + i \in 1..Len(both)
    BY <1>1
  <2>2. QED
    BY <1>1, <2>1 DEF ToSet
<1>3. ASSUME NEW i \in 1..Len(s)
      PROVE  s[i] \in ToSet(both)
  <2>1. i \in 1..Len(both)
    BY <1>1
  <2>2. QED
    BY <1>1, <2>1 DEF ToSet
<1>4. ASSUME NEW i \in 1..Len(both)
      PROVE  both[i] \in ToSet(s) \cup ToSet(t)
  <2>1. CASE i <= Len(s)
    BY <1>1, <2>1 DEF ToSet
  <2>2. CASE i > Len(s)
    <3>1. i - Len(s) \in 1..Len(t) /\ i = Len(s) + (i - Len(s))
      BY <1>1, <2>2
    <3>2. both[i] = t[i - Len(s)]
      BY <1>1, <3>1
    <3>3. QED
      BY <1>1, <3>1, <3>2 DEF ToSet
  <2>3. QED
    BY <1>1, <2>1, <2>2
<1>5. ToSet(s) \subseteq ToSet(both) /\ ToSet(t) \subseteq ToSet(both)
  BY <1>1, <1>2, <1>3 DEF ToSet
<1>6. ToSet(both) \subseteq ToSet(s) \cup ToSet(t)
  <2>1. \A item \in ToSet(both) : \E i \in 1..Len(both) : item = both[i]
    BY <1>1 DEF ToSet
  <2>2. QED
    BY <1>4, <2>1
<1>7. ToSet(both) = ToSet(s) \cup ToSet(t)
  BY <1>5, <1>6
<1>8. QED
  BY <1>7 DEF HasFreshFiringEvent, both

----------------------------------------------------------------------------
\* Reading an honest server's history.

Sound == QuietMeansWholeHistory /\ GuardsSpareHonestServers

LEMMA OpenIsSound ==
  ASSUME outcome' = "none"
  PROVE  Sound'
BY DEF Sound, QuietMeansWholeHistory, GuardsSpareHonestServers

LEMMA ErrorIsSound ==
  ASSUME NEW result, ReturnError(result),
         result \notin {"ok", "cursorLoop", "pageBudget"}
  PROVE  PagedInv' /\ Sound'
BY DEF ReturnError, Return, PagedInv, Sound, QuietMeansWholeHistory,
       GuardsSpareHonestServers

LEMMA PagedKept ==
  ASSUME TypeOK, PagedInv, pc # "done",
         UNCHANGED <<log, honest, page, cursor, seenCursors, items, outcome>>
  PROVE  PagedInv' /\ Sound'
<1>1. outcome' = "none"
  BY DEF PagedInv
<1>2. PagedInv'
  BY DEF PagedInv, Read, HasFreshFiringEvent
<1>3. QED
  BY <1>1, <1>2, OpenIsSound

\* An honest server hands out a page that extends what was read, and the offset
\* of its end while the history goes on.
LEMMA HonestPage ==
  ASSUME TypeOK, PagedInv, pc # "done", honest, NEW wire \in Wires
  PROVE  /\ cursor <= Len(log) /\ cursor \in Nat
         /\ Collected(History(wire)) = Read(PageEnd)
         /\ History(wire).nextCursor # Blank =>
              /\ History(wire).nextCursor = cursor + PageSize
              /\ PageEnd = cursor + PageSize
              /\ PageEnd < Len(log)
         /\ History(wire).nextCursor = Blank => PageEnd = Len(log)
<1>1. cursor \in Nat /\ Len(log) \in Nat /\ PageSize \in Nat \ {0}
  BY LogType
<1>2. cursor <= Len(log)
  BY <1>1 DEF PagedInv
<1>3. Collected(History(wire)) = Read(PageEnd)
  BY <1>2, CollectedIsRead DEF PagedInv
<1>4. History(wire).nextCursor = CursorAfter(cursor)
  BY DecodedPage DEF NextCursors
<1>5. QED
  BY <1>1, <1>2, <1>3, <1>4 DEF CursorAfter, PageEnd, Blank

LEMMA HonestReceived ==
  ASSUME TypeOK, TypeOK', PagedInv, pc # "done", honest,
         NEW wire \in Wires, Parses(wire)
  PROVE  /\ Return("ok", Collected(History(wire))) /\
              (HasFreshFiringEvent(History(wire).items)
                 \/ History(wire).nextCursor = Blank)
              => QuietMeansWholeHistory'
         /\ History(wire).nextCursor # Blank
              => History(wire).nextCursor \notin seenCursors
         /\ KeepReading(History(wire)) /\ History(wire).nextCursor # Blank
              /\ ~HasFreshFiringEvent(History(wire).items)
              => PagedInv'
<1> DEFINE fetched == History(wire)
<1>1. /\ cursor \in Nat /\ PageEnd \in Nat /\ Len(log) \in Nat
      /\ PageSize \in Nat \ {0} /\ page \in Nat /\ cursor <= Len(log)
      /\ PageEnd <= Len(log) /\ cursor <= PageEnd
  BY LogType, HonestPage DEF PageEnd
<1>2. /\ cursor = page * PageSize /\ items = Read(cursor)
      /\ seenCursors \subseteq 1..cursor
      /\ \A i \in 1..cursor : ItemOf(log[i]).timestamp # "malformed"
      /\ ~HasFreshFiringEvent(items)
  BY DEF PagedInv
<1>3. Collected(fetched) = Read(PageEnd)
  BY HonestPage
<1>4. ASSUME NEW i \in 1..PageEnd
      PROVE  ItemOf(log[i]).timestamp # "malformed"
  <2>1. CASE i <= cursor
    BY <1>1, <1>2, <2>1
  <2>2. CASE i > cursor
    BY <1>1, <2>2, ParsedPage
  <2>3. QED
    BY <1>1, <2>1, <2>2
<1>5. HasFreshFiringEvent(fetched.items)
        => HasFreshFiringEvent(Collected(fetched))
  BY DecodedPage, FreshOfBoth DEF Collected, TypeOK, Items
<1>6. ~HasFreshFiringEvent(fetched.items)
        => ~HasFreshFiringEvent(Collected(fetched))
  BY <1>2, DecodedPage, FreshOfBoth DEF Collected, TypeOK, Items
<1>7. /\ fetched.nextCursor # Blank =>
           /\ fetched.nextCursor = cursor + PageSize
           /\ PageEnd = cursor + PageSize /\ PageEnd < Len(log)
      /\ fetched.nextCursor = Blank => PageEnd = Len(log)
  BY HonestPage
<1> HIDE DEF fetched
<1>8. ASSUME Return("ok", Collected(fetched)),
             HasFreshFiringEvent(fetched.items) \/ fetched.nextCursor = Blank
      PROVE  QuietMeansWholeHistory'
  <2>1. items' = Collected(fetched) /\ log' = log
    BY <1>8 DEF Return
  <2>2. CASE HasFreshFiringEvent(fetched.items)
    BY <1>5, <2>1, <2>2 DEF QuietMeansWholeHistory, HasFreshFiringEvent
  <2>3. CASE fetched.nextCursor = Blank
    <3>1. PageEnd = Len(log) /\ DOMAIN log = 1..Len(log)
      BY <1>7, <2>3, LogType
    <3>2. items' = [i \in DOMAIN log |-> ItemOf(log[i])]
      BY <1>3, <2>1, <3>1 DEF Read
    <3>3. \A item \in ToSet(items') : \E i \in 1..PageEnd : item = ItemOf(log[i])
      BY <3>1, <3>2 DEF ToSet
    <3>4. \A item \in ToSet(items') : item.timestamp # "malformed"
      BY <1>4, <3>3
    <3>5. QED
      BY <2>1, <3>2, <3>4 DEF QuietMeansWholeHistory, ToSet
  <2>4. QED
    BY <1>8, <2>2, <2>3
<1>9. ASSUME fetched.nextCursor # Blank
      PROVE  fetched.nextCursor \notin seenCursors
  BY <1>1, <1>2, <1>7, <1>9
<1>10. ASSUME KeepReading(fetched), fetched.nextCursor # Blank,
              ~HasFreshFiringEvent(fetched.items)
       PROVE  PagedInv'
  <2>1. /\ log' = log /\ cursor' = cursor + PageSize /\ cursor' = PageEnd
        /\ page' = page + 1 /\ items' = Read(PageEnd)
        /\ seenCursors' = seenCursors \cup {cursor'}
        /\ outcome' = outcome /\ honest' = honest /\ PageEnd < Len(log)
    BY <1>3, <1>7, <1>10 DEF KeepReading
  <2>2. cursor' = page' * PageSize
    <3>1. (page + 1) * PageSize = page * PageSize + PageSize
      BY <1>1
    <3>2. QED
      BY <1>2, <2>1, <3>1
  <2>3. seenCursors' \subseteq 1..cursor'
    BY <1>1, <1>2, <2>1
  <2>4. ~HasFreshFiringEvent(items')
    BY <1>3, <1>6, <1>10, <2>1
  <2>5. items' = [i \in 1..cursor' |-> ItemOf(log'[i])]
    BY <2>1 DEF Read
  <2>6. \A i \in 1..cursor' : ItemOf(log'[i]).timestamp # "malformed"
    BY <1>4, <2>1
  <2>7. outcome' = "none" /\ cursor' < Len(log')
    BY <2>1 DEF PagedInv
  <2>8. QED
    BY <2>2, <2>3, <2>4, <2>5, <2>6, <2>7
    DEF PagedInv, Read, HasFreshFiringEvent
<1>11. QED
  BY <1>8, <1>9, <1>10 DEF fetched

LEMMA PagedStep ==
  ASSUME TypeOK, TypeOK', PagedInv, Sound, [Next]_vars
  PROVE  PagedInv' /\ Sound'
<1>1. CASE OutOfPages
  <2>1. /\ pc = "loop" /\ page = MaxPages /\ outcome' = "pageBudget"
        /\ pc' = "done" /\ UNCHANGED <<log, honest>>
    BY <1>1 DEF OutOfPages, BudgetLeft, ReturnError, Return, TypeOK
  <2>2. ASSUME honest
        PROVE  /\ Len(log) > MaxPages * PageSize
               /\ ~HasFreshFiringEvent(
                     [i \in 1..MaxPages * PageSize |-> ItemOf(log[i])])
    BY <2>1, <2>2, LogType DEF PagedInv, Read
  <2>3. GuardsSpareHonestServers'
    BY <2>1, <2>2 DEF GuardsSpareHonestServers, HasFreshFiringEvent
  <2>4. QED
    BY <2>1, <2>3 DEF PagedInv, Sound, QuietMeansWholeHistory
<1>2. CASE ContextDone
  BY <1>2, ErrorIsSound DEF ContextDone
<1>3. CASE Request
  <2>1. pc # "done" /\ pc' # "done"
    BY <1>3 DEF Request
  <2>2. QED
    BY <1>3, <2>1, PagedKept DEF Request
<1>4. CASE RequestFails
  <2>1. PICK break \in Breaks : ReturnError(RequestError(context, break))
    BY <1>4 DEF RequestFails
  <2>2. RequestError(context, break) \notin {"ok", "cursorLoop", "pageBudget"}
    BY DEF RequestError
  <2>3. QED
    BY <2>1, <2>2, ErrorIsSound
<1>5. CASE HeaderReceived
  BY <1>5, PagedKept DEF HeaderReceived
<1>6. CASE Refused
  <2>1. PICK answer \in Answers : ReturnError(AnswerError(answer))
    BY <1>6 DEF Refused
  <2>2. AnswerError(answer) \notin {"ok", "cursorLoop", "pageBudget"}
    BY DEF AnswerError, StatusError
  <2>3. QED
    BY <2>1, <2>2, ErrorIsSound
<1>7. CASE PageMalformed
  BY <1>7, ErrorIsSound DEF PageMalformed
<1>8. CASE PageReceived
  <2> DEFINE ends(fetched) == \/ HasFreshFiringEvent(fetched.items)
                              \/ fetched.nextCursor = Blank
  <2>1. PICK wire \in Wires :
          /\ Parses(wire)
          /\ \/ ends(History(wire))
                /\ Return("ok", Collected(History(wire)))
             \/ /\ ~ends(History(wire))
                /\ History(wire).nextCursor \in seenCursors
                /\ ReturnError("cursorLoop")
             \/ ~ends(History(wire)) /\ KeepReading(History(wire))
    BY <1>8 DEF PageReceived
  <2>2. pc # "done"
    BY <1>8 DEF PageReceived
  <2>3. CASE ends(History(wire)) /\ Return("ok", Collected(History(wire)))
    <3>1. pc' = "done" /\ outcome' = "ok" /\ honest' = honest
      BY <2>3 DEF Return
    <3>2. QuietMeansWholeHistory'
      <4>1. CASE honest
        BY <2>1, <2>2, <2>3, <4>1, HonestReceived
      <4>2. CASE ~honest
        BY <3>1, <4>2 DEF QuietMeansWholeHistory
      <4>3. QED
        BY <4>1, <4>2
    <3>3. QED
      BY <3>1, <3>2 DEF PagedInv, Sound, GuardsSpareHonestServers
  <2>4. CASE /\ ~ends(History(wire))
             /\ History(wire).nextCursor \in seenCursors
             /\ ReturnError("cursorLoop")
    <3>1. ~honest
      BY <2>1, <2>2, <2>4, HonestReceived
    <3>2. pc' = "done" /\ outcome' = "cursorLoop" /\ honest' = honest
      BY <2>4 DEF ReturnError, Return
    <3>3. QED
      BY <3>1, <3>2
      DEF PagedInv, Sound, QuietMeansWholeHistory, GuardsSpareHonestServers
  <2>5. CASE ~ends(History(wire)) /\ KeepReading(History(wire))
    <3>1. honest' = honest /\ outcome' = "none"
      BY <2>2, <2>5 DEF KeepReading, PagedInv
    <3>2. CASE honest
      BY <2>1, <2>2, <2>5, <3>1, <3>2, HonestReceived, OpenIsSound
    <3>3. CASE ~honest
      BY <3>1, <3>3, OpenIsSound DEF PagedInv
    <3>4. QED
      BY <3>2, <3>3
  <2>6. QED
    BY <2>1, <2>3, <2>4, <2>5
<1>9. ASSUME NEW event \in Events, Record(event)
      PROVE  PagedInv' /\ Sound'
  <2>1. /\ pc # "done" /\ log \in Seq(Events) /\ log' = Append(log, event)
        /\ UNCHANGED <<honest, pc, page, cursor, seenCursors, items, outcome>>
    BY <1>9, LogType DEF Record
  <2>2. /\ Len(log') = Len(log) + 1 /\ Len(log) \in Nat
        /\ \A i \in 1..Len(log) : log'[i] = log[i]
    BY <2>1, AppendProperties, LogType
  <2>3. outcome' = "none"
    BY <2>1 DEF PagedInv
  <2>4. ASSUME honest
        PROVE  /\ \A i \in 1..cursor : log'[i] = log[i]
               /\ page = 0 \/ cursor < Len(log')
    BY <2>1, <2>2, <2>4, LogType DEF PagedInv
  <2>5. honest => /\ items = [i \in 1..cursor |-> ItemOf(log'[i])]
                  /\ \A i \in 1..cursor :
                       ItemOf(log'[i]).timestamp # "malformed"
    BY <2>1, <2>4 DEF PagedInv, Read
  <2>6. PagedInv'
    BY <2>1, <2>3, <2>4, <2>5 DEF PagedInv, Read, HasFreshFiringEvent
  <2>7. QED
    BY <2>3, <2>6, OpenIsSound
<1>10. CASE ContextEnds
  BY <1>10, PagedKept DEF ContextEnds
<1>11. CASE UNCHANGED vars
  BY <1>11
  DEF vars, PagedInv, Read, HasFreshFiringEvent, Sound,
      QuietMeansWholeHistory, GuardsSpareHonestServers
<1>12. QED
  BY <1>1, <1>2, <1>3, <1>4, <1>5, <1>6, <1>7, <1>8, <1>9, <1>10, <1>11
  DEF Next, Client, Stopped

LEMMA PagedInit == Init => PagedInv /\ Sound
<1> SUFFICES ASSUME Init PROVE PagedInv /\ Sound
  OBVIOUS
<1>1. /\ pc = "loop" /\ outcome = "none" /\ page = 0 /\ cursor = 0
      /\ seenCursors = {} /\ items = << >>
  BY DEF Init, Blank
<1>2. 1..cursor = {}
  BY <1>1
<1>3. items = Read(cursor) /\ ~HasFreshFiringEvent(items)
  BY <1>1, <1>2 DEF Read, HasFreshFiringEvent, ToSet
<1>4. cursor = page * PageSize
  BY <1>1
<1>5. PagedInv
  BY <1>1, <1>2, <1>3, <1>4 DEF PagedInv
<1>6. QED
  BY <1>1, <1>5
  DEF Sound, QuietMeansWholeHistory, GuardsSpareHonestServers

LEMMA Reading == Spec => [](PagedInv /\ Sound)
<1>1. TypeOK /\ TypeOK' /\ PagedInv /\ Sound /\ [Next]_vars
        => PagedInv' /\ Sound'
  BY PagedStep
<1>2. QED
  BY PagedInit, <1>1, TypeCorrect, PTL DEF Spec

\* A history returned without a fresh firing event is the whole history of an
\* honest server, whatever the page size, the budget and the events recorded
\* while the client pages (alertHistory, history).
THEOREM QuietHistoryIsWhole == Spec => []QuietMeansWholeHistory
<1>1. Sound => QuietMeansWholeHistory
  BY DEF Sound
<1>2. QED
  BY <1>1, Reading, PTL

\* An honest server never runs into the cursor loop, and into the page budget
\* only with a longer history and no fresh firing event in it so far
\* (alertHistory).
THEOREM GuardsAreHarmless == Spec => []GuardsSpareHonestServers
<1>1. Sound => GuardsSpareHonestServers
  BY DEF Sound
<1>2. QED
  BY <1>1, Reading, PTL

----------------------------------------------------------------------------
\* A runaway server.

LEMMA AskedType ==
  ASSUME TypeOK
  PROVE  /\ asked \in Seq(Cursors) /\ Len(asked) \in Nat
         /\ DOMAIN asked = 1..Len(asked) /\ page \in Nat
         /\ \A i \in DOMAIN asked : asked[i] \in ToSet(asked)
BY DEF TypeOK, ToSet

\* A step that sends no request keeps the cursors that were asked for.
LEMMA AskedKept ==
  ASSUME AskedInv, RunawayIsBounded,
         UNCHANGED <<asked, page, cursor, seenCursors>>,
         \/ pc' = pc
         \/ pc = "request" /\ pc' = "body",
         outcome' = outcome
  PROVE  AskedInv' /\ RunawayIsBounded'
BY DEF AskedInv, RunawayIsBounded, ToSet

LEMMA AskedReturn ==
  ASSUME RunawayIsBounded,
         NEW result, NEW returned, Return(result, returned),
         result = "pageBudget" => Len(asked) = MaxPages
  PROVE  AskedInv' /\ RunawayIsBounded'
<1>1. /\ pc' = "done" /\ outcome' = result /\ asked' = asked
      /\ seenCursors' = {} /\ cursor' = Blank
  BY DEF Return
<1>2. AskedInv'
  BY <1>1 DEF AskedInv
<1>3. RunawayIsBounded'
  BY <1>1 DEF RunawayIsBounded
<1>4. QED
  BY <1>2, <1>3

\* A request within the budget is for a page that was not asked for yet.
LEMMA AskedOnce ==
  ASSUME TypeOK, AskedInv, RunawayIsBounded, outcome = "none", Request
  PROVE  AskedInv' /\ RunawayIsBounded'
<1>1. /\ pc = "loop" /\ pc' = "request" /\ asked' = Append(asked, cursor)
      /\ page < MaxPages /\ outcome' = outcome
      /\ UNCHANGED <<page, cursor, seenCursors>>
  BY DEF Request, BudgetLeft
<1>2. cursor \in Cursors
  BY DEF TypeOK
<1>3. /\ Len(asked') = Len(asked) + 1 /\ DOMAIN asked' = 1..Len(asked) + 1
      /\ \A i \in 1..Len(asked) : asked'[i] = asked[i]
      /\ asked'[Len(asked) + 1] = cursor
  BY <1>1, <1>2, AskedType, AppendProperties
<1>4. Len(asked) = page /\ cursor \notin ToSet(asked)
      /\ ToSet(asked) \subseteq {Blank} \cup seenCursors
  BY <1>1 DEF AskedInv
<1>5. ASSUME NEW i \in DOMAIN asked', NEW j \in DOMAIN asked',
             asked'[i] = asked'[j]
      PROVE  i = j
  <2>1. \A k \in 1..Len(asked) : asked'[k] # cursor
    BY <1>3, <1>4, AskedType
  <2>2. CASE i \in 1..Len(asked) /\ j \in 1..Len(asked)
    BY <1>3, <1>5, <2>2, AskedType DEF RunawayIsBounded
  <2>3. QED
    BY <1>3, <1>5, <2>1, <2>2, AskedType
<1>6. RunawayIsBounded'
  BY <1>1, <1>3, <1>4, <1>5, AskedType DEF RunawayIsBounded
<1>7. cursor \in {Blank} \cup seenCursors
  BY <1>1 DEF AskedInv
<1>8. ToSet(asked') \subseteq ToSet(asked) \cup {cursor}
  BY <1>3, AskedType DEF ToSet
<1>9. AskedInv'
  BY <1>1, <1>3, <1>4, <1>7, <1>8 DEF AskedInv
<1>10. QED
  BY <1>6, <1>9

\* The next cursor is one the client has not seen, so no request had it.
LEMMA AskedNext ==
  ASSUME TypeOK, AskedInv, RunawayIsBounded, pc = "body", NEW fetched,
         KeepReading(fetched), fetched.nextCursor # Blank,
         fetched.nextCursor \notin seenCursors, outcome = "none"
  PROVE  AskedInv' /\ RunawayIsBounded'
<1>1. /\ pc' = "loop" /\ cursor' = fetched.nextCursor /\ page' = page + 1
      /\ seenCursors' = seenCursors \cup {fetched.nextCursor}
      /\ UNCHANGED <<asked, outcome>>
  BY DEF KeepReading
<1>2. Len(asked) = page + 1 /\ Blank \notin seenCursors
      /\ ToSet(asked) \subseteq {Blank} \cup seenCursors
  BY DEF AskedInv
<1>3. ToSet(asked)' = ToSet(asked)
  BY <1>1 DEF ToSet
<1>4. AskedInv'
  BY <1>1, <1>2, <1>3 DEF AskedInv
<1>5. RunawayIsBounded'
  BY <1>1 DEF RunawayIsBounded
<1>6. QED
  BY <1>4, <1>5

LEMMA AskedStep ==
  ASSUME TypeOK, PagedInv, AskedInv, RunawayIsBounded, [Next]_vars
  PROVE  AskedInv' /\ RunawayIsBounded'
<1>0. pc # "done" => outcome = "none"
  BY DEF PagedInv
<1>1. CASE OutOfPages
  <2>1. Len(asked) = MaxPages
    BY <1>1 DEF OutOfPages, BudgetLeft, AskedInv, TypeOK
  <2>2. QED
    BY <1>1, <2>1, AskedReturn DEF OutOfPages, ReturnError
<1>2. CASE ContextDone
  BY <1>2, AskedReturn DEF ContextDone, ReturnError
<1>3. CASE Request
  BY <1>0, <1>3, AskedOnce DEF Request
<1>4. CASE RequestFails
  <2>1. PICK break \in Breaks : ReturnError(RequestError(context, break))
    BY <1>4 DEF RequestFails
  <2>2. RequestError(context, break) # "pageBudget"
    BY DEF RequestError
  <2>3. QED
    BY <2>1, <2>2, AskedReturn DEF ReturnError
<1>5. CASE HeaderReceived
  BY <1>5, AskedKept DEF HeaderReceived
<1>6. CASE Refused
  <2>1. PICK answer \in Answers : ReturnError(AnswerError(answer))
    BY <1>6 DEF Refused
  <2>2. AnswerError(answer) # "pageBudget"
    BY DEF AnswerError, StatusError
  <2>3. QED
    BY <2>1, <2>2, AskedReturn DEF ReturnError
<1>7. CASE PageMalformed
  BY <1>7, AskedReturn DEF PageMalformed, ReturnError
<1>8. CASE PageReceived
  <2>1. PICK wire \in Wires :
          \/ Return("ok", Collected(History(wire)))
          \/ ReturnError("cursorLoop")
          \/ /\ KeepReading(History(wire))
             /\ History(wire).nextCursor # Blank
             /\ History(wire).nextCursor \notin seenCursors
    BY <1>8 DEF PageReceived
  <2>2. pc = "body" /\ outcome = "none"
    BY <1>0, <1>8 DEF PageReceived
  <2>3. CASE Return("ok", Collected(History(wire)))
    BY <2>3, AskedReturn
  <2>4. CASE ReturnError("cursorLoop")
    BY <2>4, AskedReturn DEF ReturnError
  <2>5. CASE /\ KeepReading(History(wire))
             /\ History(wire).nextCursor # Blank
             /\ History(wire).nextCursor \notin seenCursors
    BY <2>2, <2>5, AskedNext
  <2>6. QED
    BY <2>1, <2>3, <2>4, <2>5
<1>9. ASSUME NEW event \in Events, Record(event)
      PROVE  AskedInv' /\ RunawayIsBounded'
  BY <1>9, AskedKept DEF Record
<1>10. CASE ContextEnds
  BY <1>10, AskedKept DEF ContextEnds
<1>11. CASE UNCHANGED vars
  BY <1>11, AskedKept DEF vars
<1>12. QED
  BY <1>1, <1>2, <1>3, <1>4, <1>5, <1>6, <1>7, <1>8, <1>9, <1>10, <1>11
  DEF Next, Client, Stopped

\* Whatever cursors a server makes up, the client sends at most MaxPages
\* requests, none of them twice (alertHistory).
THEOREM RunawayIsStopped == Spec => []RunawayIsBounded
<1>1. Init => AskedInv /\ RunawayIsBounded
  BY DEF Init, AskedInv, RunawayIsBounded, ToSet
<1>2. TypeOK /\ PagedInv /\ AskedInv /\ RunawayIsBounded /\ [Next]_vars
        => AskedInv' /\ RunawayIsBounded'
  BY AskedStep
<1>3. QED
  BY <1>1, <1>2, TypeCorrect, Reading, PTL DEF Spec
=============================================================================
