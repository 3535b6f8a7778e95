-------------------------- MODULE AlertCheck_proofs --------------------------
(***************************************************************************)
(* Proofs about AlertCheck, for every value of its constants: types, the   *)
(* witnesses of PASS, the grounds of FAIL, the report of stale history and *)
(* the time bound, and the refinement of CheckSpec.                        *)
(***************************************************************************)
EXTENDS AlertCheck, FiniteSetTheorems, TLAPS

USE WindowAssumption, ParameterAssumption

----------------------------------------------------------------------------
\* The operators the model is built from.

LEMMA BucketBounds ==
  ASSUME NEW t \in Nat
  PROVE  Bucket(t) \in Int /\ Bucket(t) <= t /\ t < Bucket(t) + Step
BY DEF Bucket

LEMMA EarlierLater ==
  ASSUME NEW a \in Nat, NEW b \in Nat
  PROVE  /\ Earlier(a, b) \in Nat /\ Later(a, b) \in Nat
         /\ Earlier(a, b) <= a /\ Earlier(a, b) <= b
         /\ a <= Later(a, b) /\ b <= Later(a, b)
BY DEF Earlier, Later

\* The window ends after the fault.
LEMMA Times ==
  ASSUME TypeOK
  PROVE  /\ End \in Nat /\ FaultInjectedAt < End
         /\ LastPoll \in Nat /\ End <= LastPoll
         /\ launched \in Nat /\ launched + QueryTimeout <= LastPoll
         /\ now \in Nat /\ timer \in Nat /\ queryEnd \in Nat
         /\ FaultInjectedAt \in Nat
         /\ QueryTimeout \in Nat /\ PollInterval \in Nat \ {0}
<1>1. runEnd \in Nat /\ FaultInjectedAt < runEnd /\ launched \in Nat
  BY DEF TypeOK
<1>2. End \in Nat /\ FaultInjectedAt < End
  BY <1>1 DEF End, Earlier
<1>3. launched + QueryTimeout \in Nat
  BY <1>1
<1>4. LastPoll \in Nat /\ End <= LastPoll /\ launched + QueryTimeout <= LastPoll
  BY <1>2, <1>3, EarlierLater DEF LastPoll
<1>5. QED
  BY <1>1, <1>2, <1>4 DEF TypeOK

LEMMA ThisEndBounds ==
  ASSUME TypeOK
  PROVE  ThisEnd \in Nat /\ ThisEnd <= End /\ ThisEnd <= now
BY Times, EarlierLater DEF ThisEnd

\* Whatever points the server returns, a count is the size of a finite set of
\* spans that SigNoz shows.
LEMMA CountIsNatural ==
  ASSUME TypeOK, NEW end, NEW strict \in BOOLEAN
  PROVE  TraceCount(ReturnedSpans(end, strict), end) \in Nat
<1> DEFINE counted == {s \in ReturnedSpans(end, strict) :
                         /\ FaultInjectedAt <= Bucket(s.at)
                         /\ Bucket(s.at) <= end}
<1>1. IsFiniteSet(counted)
  BY FS_Subset DEF ReturnedSpans, TypeOK
<1>2. QED
  BY <1>1, FS_CardinalityType DEF TraceCount

\* A count other than zero stands for a span of the window.
LEMMA CountIsWitnessed ==
  ASSUME TypeOK, queryEnd <= End, NEW strict \in BOOLEAN,
         TraceCount(ReturnedSpans(queryEnd, strict), queryEnd) >= 1
  PROVE  InWindow(visible) # {}
<1> DEFINE counted == {s \in ReturnedSpans(queryEnd, strict) :
                         /\ FaultInjectedAt <= Bucket(s.at)
                         /\ Bucket(s.at) <= queryEnd}
<1>1. counted # {}
  <2>1. ASSUME counted = {}
        PROVE  FALSE
    <3>1. Cardinality(counted) = 0
      BY <2>1, FS_EmptySet
    <3>2. QED
      BY <3>1 DEF TraceCount
  <2>2. QED
    BY <2>1
<1>2. PICK s \in visible : FaultInjectedAt <= Bucket(s.at)
                           /\ Bucket(s.at) <= queryEnd
  BY <1>1 DEF ReturnedSpans
<1>3. s.at \in Nat
  BY DEF TypeOK, Span
<1>4. FaultInjectedAt <= s.at /\ s.at < End + Step
  BY <1>2, <1>3, BucketBounds, Times
<1>5. QED
  BY <1>2, <1>4 DEF InWindow

\* A history read to its end, or up to a firing event of the window, shows a
\* firing event of the window if the server holds one.
LEMMA HistoryIsHonest ==
  ASSUME TypeOK, NEW end \in Nat, NEW strict \in BOOLEAN,
         NEW evts \in PagesRead(ReturnedEvents(end, strict), end)
  PROVE  /\ evts \subseteq events
         /\ Firing(Fresh(evts, end)) = {} => Firing(Fresh(events, end)) = {}
BY DEF PagesRead, ReturnedEvents, Firing, Fresh

\* What is fresh in a round is fresh in the window of the check.
LEMMA FreshReachesWindow ==
  ASSUME TypeOK, queryEnd <= End,
         NEW evts, evts \subseteq events
  PROVE  Firing(Fresh(evts, queryEnd)) \subseteq Firing(Fresh(events, End))
<1>1. ASSUME NEW e \in events, e.at <= queryEnd
      PROVE  e.at <= End
  <2>1. e.at \in Nat
    BY DEF TypeOK, Event
  <2>2. QED
    BY <1>1, <2>1, Times
<1>2. QED
  BY <1>1 DEF Firing, Fresh

----------------------------------------------------------------------------
\* Types.

LEMMA TypeInit == Init => TypeOK
<1> SUFFICES ASSUME Init PROVE TypeOK
  OBVIOUS
<1>1. /\ launched \in LaunchTimes /\ now \in Nat
      /\ timer \in Nat
  BY DEF Init
<1>2. IsFiniteSet(visible)
  BY FS_EmptySet DEF Init
<1>3. QED
  BY <1>1, <1>2 DEF Init, TypeOK, Undecided

LEMMA FinishType ==
  ASSUME TypeOK,
         NEW state \in {"PASS", "FAIL", "INCONCLUSIVE"},
         NEW quality \in {"complete", "insufficient", "stale", "error"},
         NEW samples \in Nat,
         FinishAlert(state, quality, samples), sawStale' \in BOOLEAN
  PROVE  TypeOK'
BY DEF TypeOK, FinishAlert, env

LEMMA SleepType ==
  ASSUME TypeOK, Sleep, sawStale' \in BOOLEAN
  PROVE  TypeOK'
<1>1. Earlier(now + PollInterval, End) \in Nat
  <2>1. now + PollInterval \in Nat /\ End \in Nat
    BY Times
  <2>2. QED
    BY <2>1, EarlierLater
<1>2. QED
  BY <1>1 DEF TypeOK, Sleep, env

LEMMA TypeStep ==
  ASSUME TypeOK, [Next]_vars
  PROVE  TypeOK'
<1>0. faultCount \in Nat /\ sawStale \in BOOLEAN
  BY DEF TypeOK
<1>1. CASE AlertReceived
  BY <1>1 DEF AlertReceived, TypeOK, env
<1>2. CASE AlertUnavailable
  BY <1>0, <1>2, FinishType DEF AlertUnavailable, FinishAlert
<1>3. CASE BeforeFault
  BY <1>0, <1>3, SleepType DEF BeforeFault
<1>4. CASE WindowTooShort
  BY <1>0, <1>4, FinishType DEF WindowTooShort, FinishAlert
<1>5. CASE AwaitWindow
  BY <1>0, <1>5, SleepType DEF AwaitWindow
<1>6. CASE StartRound
  <2>1. ThisEnd \in Nat /\ now + QueryTimeout \in Nat
    BY ThisEndBounds, Times
  <2>2. QED
    BY <1>6, <2>1 DEF StartRound, TypeOK, env
<1>7. CASE FaultsReceived
  <2>1. now + QueryTimeout \in Nat
    BY Times
  <2>2. QED
    BY <1>7, <2>1 DEF FaultsReceived, TypeOK, env
<1>8. CASE FaultQueryFailed
  BY <1>0, <1>8, FinishType DEF FaultQueryFailed, FinishAlert
<1>9. CASE HistoryFailed
  BY <1>0, <1>9, FinishType DEF HistoryFailed, FinishAlert
<1>10. CASE AlertFired
  BY <1>0, <1>10, FinishType DEF AlertFired, FinishAlert
<1>11. CASE WindowOver
  <2>1. PICK state \in {"FAIL", "INCONCLUSIVE"},
             quality \in {"complete", "insufficient", "stale"} :
          FinishAlert(state, quality, faultCount)
    BY <1>11 DEF WindowOver
  <2>2. QED
    BY <1>0, <2>1, FinishType DEF FinishAlert
<1>12. CASE PollAgain
  <2>1. sawStale' \in BOOLEAN
    BY <1>0, <1>12 DEF PollAgain, StaleSoFar
  <2>2. QED
    BY <1>12, <2>1, SleepType DEF PollAgain
<1>13. CASE TimerFires
  BY <1>13 DEF TimerFires, TypeOK, env
<1>14. CASE WaitCanceled
  BY <1>0, <1>14, FinishType DEF WaitCanceled, FinishAlert
<1>15. CASE FaultsAnswered
  <2>1. faultCount' \in Nat
    BY <1>15, CountIsNatural DEF FaultsAnswered
  <2>2. QED
    BY <1>15, <2>1 DEF FaultsAnswered, TypeOK, env
<1>16. CASE HistoryAnswered
  <2>1. history' \subseteq events
    BY <1>16, HistoryIsHonest DEF HistoryAnswered, TypeOK
  <2>2. met' \subseteq events
    BY <1>16, <2>1 DEF HistoryAnswered, TypeOK
  <2>3. QED
    BY <1>16, <2>1, <2>2 DEF HistoryAnswered, TypeOK, env
<1>17. CASE Tick
  BY <1>17 DEF Tick, TypeOK, env
<1>18. ASSUME NEW id \in Spans, NEW at \in SpanTimes, Ingest(id, at)
       PROVE  TypeOK'
  <2>1. IsFiniteSet(visible')
    BY <1>18, FS_AddElement DEF Ingest, TypeOK
  <2>2. visible' \subseteq Span
    BY <1>18 DEF Ingest, TypeOK, Span
  <2>3. QED
    BY <1>18, <2>1, <2>2 DEF Ingest, TypeOK
<1>19. ASSUME NEW id \in Events, NEW at \in EventTimes, NEW f \in BOOLEAN,
              RecordEvent(id, at, f)
       PROVE  TypeOK'
  <2>1. events' \subseteq Event /\ events \subseteq events'
    BY <1>19 DEF RecordEvent, TypeOK, Event
  <2>2. QED
    BY <1>19, <2>1 DEF RecordEvent, TypeOK
<1>20. CASE Cancel
  BY <1>20 DEF Cancel, TypeOK
<1>21. CASE UNCHANGED vars
  BY <1>21 DEF vars, TypeOK
<1>22. QED
  BY <1>1, <1>2, <1>3, <1>4, <1>5, <1>6, <1>7, <1>8, <1>9, <1>10, <1>11,
     <1>12, <1>13, <1>14, <1>15, <1>16, <1>17, <1>18, <1>19, <1>20, <1>21
  DEF Next, Loop, Environment, Stopped

\* Every variable keeps its type: in particular what a round read of the
\* history is part of what SigNoz holds (verifyAlert).
THEOREM TypeCorrect == Spec => []TypeOK
<1>1. TypeOK /\ [Next]_vars => TypeOK'
  BY TypeStep
<1>2. QED
  BY TypeInit, <1>1, PTL DEF Spec

----------------------------------------------------------------------------
\* PASS is witnessed, FAIL is grounded.

Sound == PassIsWitnessed /\ FailIsGrounded

\* A step that decides nothing has to keep what the round knows.
LEMMA UndecidedIsSound ==
  ASSUME verdict' = Undecided
  PROVE  Sound'
BY DEF Sound, PassIsWitnessed, FailIsGrounded, Undecided

LEMMA RoundKept ==
  ASSUME TypeOK, RoundInv, pc # "done", pc' # "done",
         UNCHANGED <<verdict, runEnd, queryEnd>>, visible \subseteq visible',
         \/ UNCHANGED <<pc, faultCount, history, held>>
         \/ pc' \in {"poll", "waiting"}
         \/ pc = "faultReply" /\ pc' = "historyQuery" /\ UNCHANGED faultCount
  PROVE  RoundInv' /\ Sound'
<1>1. verdict' = Undecided
  BY DEF RoundInv
<1>2. queryEnd' <= End'
  BY DEF RoundInv, End
<1>3. pc' \in {"faultReply", "historyQuery", "historyReply"}
        /\ faultCount' >= 1 => InWindow(visible') # {}
  <2>1. InWindow(visible) \subseteq InWindow(visible')
    BY DEF InWindow
  <2>2. QED
    BY <2>1 DEF RoundInv
<1>4. pc' = "historyReply" /\ Firing(Fresh(history', queryEnd')) = {}
        => Firing(Fresh(held', queryEnd')) = {}
  BY DEF RoundInv
<1>5. InWindow(visible)' = InWindow(visible')
  BY DEF InWindow, End
<1>6. RoundInv'
  BY <1>1, <1>2, <1>3, <1>4, <1>5 DEF RoundInv, Firing, Fresh
<1>7. QED
  BY <1>1, <1>6, UndecidedIsSound

LEMMA FinishInconclusive ==
  ASSUME RoundInv, NEW quality, NEW samples,
         FinishAlert("INCONCLUSIVE", quality, samples)
  PROVE  RoundInv' /\ Sound'
BY DEF FinishAlert, env, RoundInv, End, Sound, PassIsWitnessed,
       FailIsGrounded

LEMMA RoundStep ==
  ASSUME TypeOK, RoundInv, Sound, [Next]_vars
  PROVE  RoundInv' /\ Sound'
<1>1. CASE AlertReceived
  BY <1>1, RoundKept DEF AlertReceived, env
<1>2. CASE AlertUnavailable
  BY <1>2, FinishInconclusive DEF AlertUnavailable
<1>3. CASE BeforeFault
  BY <1>3, RoundKept DEF BeforeFault, Sleep, env
<1>4. CASE WindowTooShort
  BY <1>4, FinishInconclusive DEF WindowTooShort
<1>5. CASE AwaitWindow
  BY <1>5, RoundKept DEF AwaitWindow, Sleep, env
<1>6. CASE StartRound
  <2>1. verdict' = Undecided /\ pc' = "faultQuery" /\ queryEnd' = ThisEnd
        /\ End' = End
    BY <1>6 DEF StartRound, RoundInv, env, End
  <2>2. RoundInv'
    BY <2>1, ThisEndBounds DEF RoundInv
  <2>3. QED
    BY <2>1, <2>2, UndecidedIsSound
<1>7. CASE FaultsReceived
  BY <1>7, RoundKept DEF FaultsReceived, env
<1>8. CASE FaultQueryFailed
  BY <1>8, FinishInconclusive DEF FaultQueryFailed
<1>9. CASE HistoryFailed
  BY <1>9, FinishInconclusive DEF HistoryFailed
<1>10. CASE AlertFired
  <2>1. /\ pc = "historyReply" /\ faultCount >= 1
        /\ Firing(Fresh(history, queryEnd)) # {}
        /\ queryEnd <= End
    BY <1>10 DEF AlertFired, Received, Fired, FreshHere, RoundInv
  <2>2. history \subseteq events
    BY DEF TypeOK
  <2>3. Firing(Fresh(events, End)) # {} /\ InWindow(visible) # {}
    BY <2>1, <2>2, FreshReachesWindow DEF RoundInv
  <2>4. /\ pc' = "done" /\ verdict'.state = "PASS"
        /\ UNCHANGED <<events, visible, runEnd, queryEnd>>
    BY <1>10 DEF AlertFired, FinishAlert, env
  <2>5. PassIsWitnessed'
    BY <2>3, <2>4 DEF PassIsWitnessed, InWindow, End, Firing, Fresh
  <2>6. QED
    BY <2>1, <2>4, <2>5
    DEF Sound, FailIsGrounded, RoundInv, End
<1>11. CASE WindowOver
  <2>1. CASE faultCount < 1
    BY <1>11, <2>1, FinishInconclusive DEF WindowOver
  <2>2. CASE ~(faultCount < 1) /\ FreshHere = {} /\ StaleSoFar
    BY <1>11, <2>2, FinishInconclusive DEF WindowOver
  <2>3. CASE ~(faultCount < 1) /\ ~(FreshHere = {} /\ StaleSoFar)
    <3>1. /\ pc = "historyReply" /\ now >= End
          /\ FinishAlert("FAIL", "complete", faultCount)
      BY <1>11, <2>3 DEF WindowOver, Received
    <3>2. faultCount >= 1
      BY <2>3 DEF TypeOK
    <3>3. Firing(Fresh(history, queryEnd)) = {}
      BY <1>11, <3>2 DEF WindowOver, Fired, FreshHere
    <3>4. InWindow(visible) # {} /\ Firing(Fresh(held, queryEnd)) = {}
      BY <3>1, <3>2, <3>3 DEF RoundInv
    <3>5. /\ pc' = "done" /\ verdict'.state = "FAIL"
          /\ UNCHANGED <<now, runEnd, visible, queryEnd, held>>
      BY <3>1 DEF FinishAlert, env
    <3>6. FailIsGrounded'
      BY <3>1, <3>4, <3>5 DEF FailIsGrounded, InWindow, End, Firing, Fresh
    <3>7. RoundInv'
      BY <3>5 DEF RoundInv, End
    <3>8. QED
      BY <3>5, <3>6, <3>7 DEF Sound, PassIsWitnessed
  <2>4. QED
    BY <2>1, <2>2, <2>3
<1>12. CASE PollAgain
  BY <1>12, RoundKept DEF PollAgain, Received, Sleep, env
<1>13. CASE TimerFires
  BY <1>13, RoundKept DEF TimerFires, env
<1>14. CASE WaitCanceled
  BY <1>14, FinishInconclusive DEF WaitCanceled
<1>15. CASE FaultsAnswered
  <2>1. PICK strict \in BOOLEAN :
          faultCount' = TraceCount(ReturnedSpans(queryEnd, strict), queryEnd)
    BY <1>15 DEF FaultsAnswered
  <2>2. /\ verdict' = Undecided /\ pc' = "faultReply"
        /\ UNCHANGED <<runEnd, queryEnd, visible>>
    BY <1>15 DEF FaultsAnswered, RoundInv, env
  <2>3. faultCount' >= 1 => InWindow(visible) # {}
    BY <2>1, CountIsWitnessed DEF RoundInv
  <2>4. RoundInv'
    BY <2>2, <2>3 DEF RoundInv, InWindow, End
  <2>5. QED
    BY <2>2, <2>4, UndecidedIsSound
<1>16. CASE HistoryAnswered
  <2>1. PICK strict \in BOOLEAN :
          history' \in PagesRead(ReturnedEvents(queryEnd, strict), queryEnd)
    BY <1>16 DEF HistoryAnswered
  <2>2. /\ verdict' = Undecided /\ pc = "historyQuery"
        /\ pc' = "historyReply" /\ held' = events
        /\ UNCHANGED <<runEnd, queryEnd, visible, faultCount>>
    BY <1>16 DEF HistoryAnswered, RoundInv, env
  <2>3. Firing(Fresh(history', queryEnd)) = {}
          => Firing(Fresh(events, queryEnd)) = {}
    BY <2>1, HistoryIsHonest DEF TypeOK
  <2>4. RoundInv'
    BY <2>2, <2>3 DEF RoundInv, InWindow, End, Firing, Fresh
  <2>5. QED
    BY <2>2, <2>4, UndecidedIsSound
<1>17. CASE Tick
  BY <1>17, RoundKept DEF Tick, Blocked, env
<1>18. ASSUME NEW id \in Spans, NEW at \in SpanTimes, Ingest(id, at)
       PROVE  RoundInv' /\ Sound'
  BY <1>18, RoundKept DEF Ingest, Blocked
<1>19. ASSUME NEW id \in Events, NEW at \in EventTimes, NEW f \in BOOLEAN,
              RecordEvent(id, at, f)
       PROVE  RoundInv' /\ Sound'
  BY <1>19, RoundKept DEF RecordEvent, Blocked
<1>20. CASE Cancel
  BY <1>20, RoundKept DEF Cancel, Blocked
<1>21. CASE UNCHANGED vars
  BY <1>21
  DEF vars, env, RoundInv, Sound, PassIsWitnessed, FailIsGrounded,
      InWindow, End, Firing, Fresh
<1>22. QED
  BY <1>1, <1>2, <1>3, <1>4, <1>5, <1>6, <1>7, <1>8, <1>9, <1>10, <1>11,
     <1>12, <1>13, <1>14, <1>15, <1>16, <1>17, <1>18, <1>19, <1>20, <1>21
  DEF Next, Loop, Environment, Stopped

LEMMA RoundInit ==
  ASSUME TypeOK, Init
  PROVE  RoundInv /\ Sound
<1>1. queryEnd <= End
  BY Times DEF Init
<1>2. QED
  BY <1>1 DEF Init, RoundInv, Sound, PassIsWitnessed, FailIsGrounded,
     Undecided

LEMMA Soundness == Spec => [](RoundInv /\ Sound)
<1>1. TypeOK /\ Init => RoundInv /\ Sound
  BY RoundInit
<1>2. TypeOK /\ RoundInv /\ Sound /\ [Next]_vars => RoundInv' /\ Sound'
  BY RoundStep
<1>3. QED
  BY <1>1, <1>2, TypeCorrect, PTL DEF Spec

\* PASS needs a firing event strictly inside the window and a faulted span in
\* it, whatever pages and points the server returns (verifyAlert).
THEOREM PassSound == Spec => []PassIsWitnessed
<1>1. Sound => PassIsWitnessed
  BY DEF Sound
<1>2. QED
  BY <1>1, Soundness, PTL

\* FAIL comes after the end of the window, on fault telemetry, and on a history
\* that held no firing event of the queried window (verifyAlert, alertHistory).
THEOREM FailSound == Spec => []FailIsGrounded
<1>1. Sound => FailIsGrounded
  BY DEF Sound
<1>2. QED
  BY <1>1, Soundness, PTL

----------------------------------------------------------------------------
\* Stale history is told apart.

\* A step that reads no history and judges none keeps what the loop remembers.
LEMMA StaleKept ==
  ASSUME StaleInv, verdict'.state # "FAIL",
         UNCHANGED <<runEnd, history, sawStale, met>>,
         pc = "historyReply" => pc' \in {"historyReply", "done"},
         pc # "done" \/ pc' = "done"
  PROVE  StaleInv' /\ StaleIsNotAMiss'
<1>1. Fresh(met, End)' = Fresh(met, End)
  BY DEF Fresh, End
<1>2. StaleInv'
  BY <1>1 DEF StaleInv
<1>3. QED
  BY <1>2 DEF StaleIsNotAMiss

LEMMA StaleFinish ==
  ASSUME StaleInv, NEW state \in {"PASS", "INCONCLUSIVE"},
         NEW quality, NEW samples, FinishAlert(state, quality, samples)
  PROVE  StaleInv' /\ StaleIsNotAMiss'
BY StaleKept DEF FinishAlert, env

\* A round whose events are all of its window adds none that is not of the
\* window of the check.
LEMMA FreshRound ==
  ASSUME TypeOK, queryEnd <= End, StaleInv, pc = "historyReply", ~StaleSoFar
  PROVE  \A e \in met : e \in Fresh(met, End)
<1>1. ~sawStale /\ history = Fresh(history, queryEnd)
  BY DEF StaleSoFar, FreshHere
<1>2. ASSUME NEW e \in met, e \in history
      PROVE  e \in Fresh(met, End)
  <2>1. FaultInjectedAt < e.at /\ e.at <= queryEnd
    BY <1>1, <1>2 DEF Fresh
  <2>2. e.at \in Nat
    BY DEF TypeOK, Event
  <2>3. e.at <= End
    BY <2>1, <2>2, Times
  <2>4. QED
    BY <2>1, <2>3 DEF Fresh
<1>3. QED
  BY <1>1, <1>2 DEF StaleInv

LEMMA StaleStep ==
  ASSUME TypeOK, RoundInv, StaleInv, StaleIsNotAMiss, [Next]_vars
  PROVE  StaleInv' /\ StaleIsNotAMiss'
<1>0. pc # "done" => verdict.state # "FAIL"
  BY DEF RoundInv, Undecided
<1>1. CASE AlertReceived
  BY <1>0, <1>1, StaleKept DEF AlertReceived, env
<1>2. CASE AlertUnavailable
  BY <1>2, StaleFinish DEF AlertUnavailable
<1>3. CASE BeforeFault
  BY <1>0, <1>3, StaleKept DEF BeforeFault, Sleep, env
<1>4. CASE WindowTooShort
  BY <1>4, StaleFinish DEF WindowTooShort
<1>5. CASE AwaitWindow
  BY <1>0, <1>5, StaleKept DEF AwaitWindow, Sleep, env
<1>6. CASE StartRound
  BY <1>0, <1>6, StaleKept DEF StartRound, env
<1>7. CASE FaultsReceived
  BY <1>0, <1>7, StaleKept DEF FaultsReceived, env
<1>8. CASE FaultQueryFailed
  BY <1>8, StaleFinish DEF FaultQueryFailed
<1>9. CASE HistoryFailed
  BY <1>9, StaleFinish DEF HistoryFailed
<1>10. CASE AlertFired
  BY <1>10, StaleFinish DEF AlertFired
<1>11. CASE WindowOver
  <2>1. CASE faultCount < 1
    BY <1>11, <2>1, StaleFinish DEF WindowOver
  <2>2. CASE ~(faultCount < 1) /\ FreshHere = {} /\ StaleSoFar
    BY <1>11, <2>2, StaleFinish DEF WindowOver
  <2>3. CASE ~(faultCount < 1) /\ ~(FreshHere = {} /\ StaleSoFar)
    <3>1. /\ pc = "historyReply"
          /\ FinishAlert("FAIL", "complete", faultCount)
      BY <1>11, <2>3 DEF WindowOver, Received
    <3>2. /\ pc' = "done"
          /\ UNCHANGED <<runEnd, queryEnd, history, sawStale, met>>
      BY <3>1 DEF FinishAlert, env
    <3>3. Fresh(met, End)' = Fresh(met, End)
          /\ Fresh(history, queryEnd)' = FreshHere
      BY <3>2 DEF Fresh, End, FreshHere
    <3>4. FreshHere = {} => met = Fresh(met, End)
      BY <2>3, <3>1, FreshRound DEF RoundInv, Fresh
    <3>5. StaleInv'
      BY <3>1, <3>2, <3>3 DEF StaleInv
    <3>6. QED
      BY <3>2, <3>3, <3>4, <3>5 DEF StaleIsNotAMiss
  <2>4. QED
    BY <2>1, <2>2, <2>3
<1>12. CASE PollAgain
  <2>1. /\ pc = "historyReply" /\ pc' = "waiting" /\ sawStale' = StaleSoFar
        /\ UNCHANGED <<runEnd, verdict, met>>
    BY <1>12 DEF PollAgain, Received, Sleep, env
  <2>2. Fresh(met, End)' = Fresh(met, End)
    BY <2>1 DEF Fresh, End
  <2>3. StaleInv'
    BY <2>1, <2>2, FreshRound DEF StaleInv, RoundInv
  <2>4. QED
    BY <1>0, <2>1, <2>3 DEF StaleIsNotAMiss
<1>13. CASE TimerFires
  BY <1>0, <1>13, StaleKept DEF TimerFires, env
<1>14. CASE WaitCanceled
  BY <1>14, StaleFinish DEF WaitCanceled
<1>15. CASE FaultsAnswered
  BY <1>0, <1>15, StaleKept DEF FaultsAnswered, env
<1>16. CASE HistoryAnswered
  <2>1. /\ pc = "historyQuery" /\ pc' = "historyReply"
        /\ met' = met \cup history' /\ UNCHANGED <<runEnd, sawStale, verdict>>
    BY <1>16 DEF HistoryAnswered, env
  <2>2. Fresh(met, End) \subseteq Fresh(met, End)'
    BY <2>1 DEF Fresh, End
  <2>3. StaleInv'
    BY <2>1, <2>2 DEF StaleInv
  <2>4. QED
    BY <1>0, <2>1, <2>3 DEF StaleIsNotAMiss
<1>17. CASE Tick
  BY <1>0, <1>17, StaleKept DEF Tick, Blocked, env
<1>18. ASSUME NEW id \in Spans, NEW at \in SpanTimes, Ingest(id, at)
       PROVE  StaleInv' /\ StaleIsNotAMiss'
  BY <1>0, <1>18, StaleKept DEF Ingest, Blocked
<1>19. ASSUME NEW id \in Events, NEW at \in EventTimes, NEW f \in BOOLEAN,
              RecordEvent(id, at, f)
       PROVE  StaleInv' /\ StaleIsNotAMiss'
  BY <1>0, <1>19, StaleKept DEF RecordEvent, Blocked
<1>20. CASE Cancel
  BY <1>0, <1>20, StaleKept DEF Cancel, Blocked
<1>21. CASE UNCHANGED vars
  BY <1>21 DEF vars, env, StaleInv, StaleIsNotAMiss, End, Fresh
<1>22. QED
  BY <1>1, <1>2, <1>3, <1>4, <1>5, <1>6, <1>7, <1>8, <1>9, <1>10, <1>11,
     <1>12, <1>13, <1>14, <1>15, <1>16, <1>17, <1>18, <1>19, <1>20, <1>21
  DEF Next, Loop, Environment, Stopped

\* A missed alert is claimed without an event of the queried window only if
\* none of the events that any round was given is stale (verifyAlert).
THEOREM StaleSound == Spec => []StaleIsNotAMiss
<1>1. Init => StaleInv /\ StaleIsNotAMiss
  BY DEF Init, StaleInv, StaleIsNotAMiss, Undecided
<1>2. TypeOK /\ RoundInv /\ StaleInv /\ StaleIsNotAMiss /\ [Next]_vars
        => StaleInv' /\ StaleIsNotAMiss'
  BY StaleStep
<1>3. QED
  BY <1>1, <1>2, TypeCorrect, Soundness, PTL DEF Spec

----------------------------------------------------------------------------
\* Time.

\* A decision leaves the clock alone.
LEMMA TimeFinish ==
  ASSUME Bounded,
         NEW state, NEW quality, NEW samples,
         FinishAlert(state, quality, samples)
  PROVE  TimeInv' /\ Bounded'
BY DEF FinishAlert, env, TimeInv, Bounded, LastPoll, End

\* Every other step only has to keep to the times of its place.
LEMMA TimeOnward ==
  ASSUME TypeOK, TypeOK', UNCHANGED <<launched, runEnd>>,
         pc' # "done", TimeInv'
  PROVE  Bounded'
<1>1. LastPoll' = LastPoll
  BY DEF LastPoll, End
<1>2. /\ now' \in Nat /\ timer' \in Nat /\ launched' = launched
      /\ pc' \in {"getAlert", "poll", "faultQuery", "faultReply",
                  "historyQuery", "historyReply", "waiting"}
  BY DEF TypeOK
<1>3. now' <= LastPoll + 2 * QueryTimeout
  <2>1. /\ LastPoll \in Nat /\ QueryTimeout \in Nat /\ launched \in Nat
        /\ launched + QueryTimeout <= LastPoll
    BY Times
  <2>2. QED
    BY <1>1, <1>2, <2>1 DEF TimeInv
<1>4. QED
  BY <1>1, <1>3 DEF Bounded

LEMMA TimeSleep ==
  ASSUME TypeOK, Sleep, now < End
  PROVE  TimeInv'
<1>1. LastPoll' = LastPoll
  BY DEF Sleep, LastPoll, End, env
<1>2. /\ now + PollInterval \in Nat /\ End \in Nat /\ now \in Nat
      /\ End <= LastPoll /\ LastPoll \in Nat
  BY Times
<1>3. /\ Earlier(now + PollInterval, End) <= End
      /\ now <= Earlier(now + PollInterval, End)
      /\ Earlier(now + PollInterval, End) \in Nat
  BY <1>2 DEF Earlier
<1>4. now' <= timer' /\ timer' <= LastPoll'
  BY <1>1, <1>2, <1>3 DEF Sleep
<1>5. QED
  BY <1>4 DEF Sleep, TimeInv

LEMMA TimeStep ==
  ASSUME TypeOK, TypeOK', TimeInv, Bounded, [Next]_vars
  PROVE  TimeInv' /\ Bounded'
<1> USE Times
<1>1. CASE AlertReceived
  <2>1. TimeInv'
    BY <1>1 DEF AlertReceived, TimeInv, LastPoll, End, env
  <2>2. QED
    BY <1>1, <2>1, TimeOnward DEF AlertReceived, env
<1>2. CASE AlertUnavailable
  BY <1>2, TimeFinish DEF AlertUnavailable
<1>3. CASE BeforeFault
  <2>1. now < End
    BY <1>3 DEF BeforeFault, ThisEnd, Earlier
  <2>2. QED
    BY <1>3, <2>1, TimeSleep, TimeOnward DEF BeforeFault, Sleep, env
<1>4. CASE WindowTooShort
  BY <1>4, TimeFinish DEF WindowTooShort
<1>5. CASE AwaitWindow
  <2>1. now < End
    BY <1>5 DEF AwaitWindow, ThisEnd, Earlier
  <2>2. QED
    BY <1>5, <2>1, TimeSleep, TimeOnward DEF AwaitWindow, Sleep, env
<1>6. CASE StartRound
  <2>1. TimeInv'
    BY <1>6 DEF StartRound, TimeInv, LastPoll, End, env
  <2>2. QED
    BY <1>6, <2>1, TimeOnward DEF StartRound, env
<1>7. CASE FaultsReceived
  <2>1. TimeInv'
    BY <1>7 DEF FaultsReceived, TimeInv, LastPoll, End, env
  <2>2. QED
    BY <1>7, <2>1, TimeOnward DEF FaultsReceived, env
<1>8. CASE FaultQueryFailed
  BY <1>8, TimeFinish DEF FaultQueryFailed
<1>9. CASE HistoryFailed
  BY <1>9, TimeFinish DEF HistoryFailed
<1>10. CASE AlertFired
  BY <1>10, TimeFinish DEF AlertFired
<1>11. CASE WindowOver
  <2>1. PICK state \in {"FAIL", "INCONCLUSIVE"},
             quality \in {"complete", "insufficient", "stale"} :
          FinishAlert(state, quality, faultCount)
    BY <1>11 DEF WindowOver
  <2>2. QED
    BY <2>1, TimeFinish
<1>12. CASE PollAgain
  BY <1>12, TimeSleep, TimeOnward DEF PollAgain, Sleep, env
<1>13. CASE TimerFires
  <2>1. TimeInv'
    BY <1>13 DEF TimerFires, TimeInv, LastPoll, End, env
  <2>2. QED
    BY <1>13, <2>1, TimeOnward DEF TimerFires, env
<1>14. CASE WaitCanceled
  BY <1>14, TimeFinish DEF WaitCanceled
<1>15. CASE FaultsAnswered
  <2>1. TimeInv'
    BY <1>15 DEF FaultsAnswered, TimeInv, LastPoll, End, env
  <2>2. QED
    BY <1>15, <2>1, TimeOnward DEF FaultsAnswered, env
<1>16. CASE HistoryAnswered
  <2>1. TimeInv'
    BY <1>16 DEF HistoryAnswered, TimeInv, LastPoll, End, env
  <2>2. QED
    BY <1>16, <2>1, TimeOnward DEF HistoryAnswered, env
<1>17. CASE Tick
  <2>1. TimeInv'
    BY <1>17 DEF Tick, Blocked, TimeInv, LastPoll, End, env
  <2>2. QED
    BY <1>17, <2>1, TimeOnward DEF Tick, Blocked, env
<1>18. ASSUME NEW id \in Spans, NEW at \in SpanTimes, Ingest(id, at)
       PROVE  TimeInv' /\ Bounded'
  <2>1. TimeInv'
    BY <1>18 DEF Ingest, TimeInv, LastPoll, End
  <2>2. QED
    BY <1>18, <2>1, TimeOnward DEF Ingest, Blocked, env
<1>19. ASSUME NEW id \in Events, NEW at \in EventTimes, NEW f \in BOOLEAN,
              RecordEvent(id, at, f)
       PROVE  TimeInv' /\ Bounded'
  <2>1. TimeInv'
    BY <1>19 DEF RecordEvent, TimeInv, LastPoll, End
  <2>2. QED
    BY <1>19, <2>1, TimeOnward DEF RecordEvent, Blocked, env
<1>20. CASE Cancel
  <2>1. TimeInv'
    BY <1>20 DEF Cancel, TimeInv, LastPoll, End
  <2>2. QED
    BY <1>20, <2>1, TimeOnward DEF Cancel, Blocked, env
<1>21. CASE UNCHANGED vars
  BY <1>21 DEF vars, env, TimeInv, Bounded, LastPoll, End
<1>22. QED
  BY <1>1, <1>2, <1>3, <1>4, <1>5, <1>6, <1>7, <1>8, <1>9, <1>10, <1>11,
     <1>12, <1>13, <1>14, <1>15, <1>16, <1>17, <1>18, <1>19, <1>20, <1>21
  DEF Next, Loop, Environment, Stopped

\* The check ends at most two query timeouts after the end of its window, or
\* after the answer to its first request (verifyAlert, wait).
THEOREM RunIsBounded == Spec => []Bounded
<1>1. TypeOK /\ Init => TimeInv /\ Bounded
  <2> SUFFICES ASSUME TypeOK, Init
               PROVE  TimeInv /\ Bounded
    OBVIOUS
  <2>1. TimeInv
    BY Times DEF Init, TimeInv
  <2>2. Bounded
    BY Times DEF Init, Bounded
  <2>3. QED
    BY <2>1, <2>2
<1>2. TypeOK /\ TypeOK' /\ TimeInv /\ Bounded /\ [Next]_vars
        => TimeInv' /\ Bounded'
  BY TimeStep
<1>3. QED
  BY <1>1, <1>2, TypeCorrect, PTL DEF Spec

----------------------------------------------------------------------------
\* The refinement of the abstract check (CheckSpec).

\* What the abstract check is told.
Sampled == InWindow(visible) # {}
SatisfiedNow == Firing(Fresh(events, End)) # {}

\* Telemetry and alert events are only ever added.
LEMMA TelemetryGrows ==
  ASSUME visible \subseteq visible', events \subseteq events',
         UNCHANGED runEnd
  PROVE  (Sampled => Sampled') /\ (SatisfiedNow => SatisfiedNow')
<1>1. End' = End
  BY DEF End
<1>2. InWindow(visible) \subseteq InWindow(visible)'
  BY <1>1 DEF InWindow
<1>3. Firing(Fresh(events, End)) \subseteq Firing(Fresh(events, End))'
  BY <1>1 DEF Firing, Fresh
<1>4. QED
  BY <1>2, <1>3 DEF Sampled, SatisfiedNow

LEMMA TelemetryKept ==
  ASSUME UNCHANGED env
  PROVE  UNCHANGED <<Sampled, SatisfiedNow, canceled>>
BY DEF env, Sampled, SatisfiedNow, InWindow, End, Firing, Fresh

----------------------------------------------------------------------------
\* The step simulation.

\* A decision on counted faults under a live context, or INCONCLUSIVE.
LEMMA FinishDecides ==
  ASSUME TypeOK, RoundInv, pc # "done",
         NEW state \in {"PASS", "FAIL", "INCONCLUSIVE"},
         NEW quality, NEW samples, FinishAlert(state, quality, samples),
         state # "INCONCLUSIVE" => Received /\ faultCount >= 1,
         state = "PASS" => Firing(FreshHere) # {}
  PROVE  Check!Decide
<1>1. verdict.state = "NONE" /\ verdict'.state = state
  BY DEF RoundInv, Undecided, FinishAlert
<1>2. UNCHANGED <<Sampled, SatisfiedNow, canceled>>
  BY TelemetryKept DEF FinishAlert
<1>3. ASSUME Received, faultCount >= 1
      PROVE  ~canceled /\ Sampled
  BY <1>3 DEF Received, RoundInv, Sampled
<1>4. ASSUME Firing(FreshHere) # {}
      PROVE  SatisfiedNow
  <2>1. history \subseteq events /\ queryEnd <= End
    BY DEF TypeOK, RoundInv
  <2>2. QED
    BY <1>4, <2>1, FreshReachesWindow DEF SatisfiedNow, FreshHere
<1>5. CASE state = "PASS"
  BY <1>1, <1>2, <1>3, <1>4, <1>5
  DEF Check!Decide, Check!Pass, Sampled, SatisfiedNow
<1>6. CASE state = "FAIL"
  BY <1>1, <1>2, <1>3, <1>6
  DEF Check!Decide, Check!Fail, Sampled, SatisfiedNow
<1>7. CASE state = "INCONCLUSIVE"
  BY <1>1, <1>2, <1>7
  DEF Check!Decide, Check!Inconclusive, Sampled, SatisfiedNow
<1>8. QED
  BY <1>5, <1>6, <1>7

LEMMA StepSimulation ==
  ASSUME TypeOK, RoundInv, [Next]_vars
  PROVE  [Check!Next]_(Check!vars)
<1> DEFINE Simulated == [Check!Next]_(Check!vars)
<1>1. ASSUME UNCHANGED <<env, verdict>>
      PROVE  Simulated
  BY <1>1, TelemetryKept DEF Check!vars, Sampled, SatisfiedNow
<1>2. ASSUME Check!Decide
      PROVE  Simulated
  BY <1>2 DEF Check!Next
<1>3. ASSUME UNCHANGED <<runEnd, canceled, verdict>>,
             visible \subseteq visible', events \subseteq events'
      PROVE  Simulated
  <2>1. Check!TelemetryArrives
    BY <1>3, TelemetryGrows
    DEF Check!TelemetryArrives, Sampled, SatisfiedNow
  <2>2. QED
    BY <2>1 DEF Check!Next
<1>4. CASE AlertReceived
  BY <1>1, <1>4 DEF AlertReceived
<1>5. CASE AlertUnavailable
  BY <1>2, <1>5, FinishDecides DEF AlertUnavailable
<1>6. CASE BeforeFault
  BY <1>1, <1>6 DEF BeforeFault, Sleep
<1>7. CASE WindowTooShort
  BY <1>2, <1>7, FinishDecides DEF WindowTooShort
<1>8. CASE AwaitWindow
  BY <1>1, <1>8 DEF AwaitWindow, Sleep
<1>9. CASE StartRound
  BY <1>1, <1>9 DEF StartRound
<1>10. CASE FaultsReceived
  BY <1>1, <1>10 DEF FaultsReceived
<1>11. CASE FaultQueryFailed
  BY <1>2, <1>11, FinishDecides DEF FaultQueryFailed
<1>12. CASE HistoryFailed
  BY <1>2, <1>12, FinishDecides DEF HistoryFailed
<1>13. CASE AlertFired
  BY <1>2, <1>13, FinishDecides DEF AlertFired, Received, Fired
<1>14. CASE WindowOver
  <2>1. CASE faultCount < 1
    BY <1>2, <1>14, <2>1, FinishDecides DEF WindowOver, Received
  <2>2. CASE ~(faultCount < 1) /\ FreshHere = {} /\ StaleSoFar
    BY <1>2, <1>14, <2>2, FinishDecides DEF WindowOver, Received
  <2>3. CASE ~(faultCount < 1) /\ ~(FreshHere = {} /\ StaleSoFar)
    <3>1. faultCount >= 1
      BY <2>3 DEF TypeOK
    <3>2. QED
      BY <1>2, <1>14, <2>3, <3>1, FinishDecides DEF WindowOver, Received
  <2>4. QED
    BY <2>1, <2>2, <2>3
<1>15. CASE PollAgain
  BY <1>1, <1>15 DEF PollAgain, Sleep
<1>16. CASE TimerFires
  BY <1>1, <1>16 DEF TimerFires
<1>17. CASE WaitCanceled
  BY <1>2, <1>17, FinishDecides DEF WaitCanceled
<1>18. CASE FaultsAnswered
  BY <1>1, <1>18 DEF FaultsAnswered
<1>19. CASE HistoryAnswered
  BY <1>1, <1>19 DEF HistoryAnswered
<1>20. CASE Tick
  BY <1>1, <1>20 DEF Tick
<1>21. ASSUME NEW id \in Spans, NEW at \in SpanTimes, Ingest(id, at)
       PROVE  Simulated
  BY <1>3, <1>21 DEF Ingest
<1>22. ASSUME NEW id \in Events, NEW at \in EventTimes, NEW f \in BOOLEAN,
              RecordEvent(id, at, f)
       PROVE  Simulated
  BY <1>3, <1>22 DEF RecordEvent
<1>23. CASE Cancel
  <2>1. /\ canceled' = TRUE /\ UNCHANGED verdict
        /\ UNCHANGED <<Sampled, SatisfiedNow>>
    BY <1>23
    DEF Cancel, Sampled, SatisfiedNow, InWindow, End, Firing, Fresh
  <2>2. Check!ContextEnds
    BY <2>1 DEF Check!ContextEnds, Sampled, SatisfiedNow
  <2>3. QED
    BY <2>2 DEF Check!Next
<1>24. CASE UNCHANGED vars
  BY <1>1, <1>24 DEF vars, env
<1>25. QED
  BY <1>4, <1>5, <1>6, <1>7, <1>8, <1>9, <1>10, <1>11, <1>12, <1>13, <1>14,
     <1>15, <1>16, <1>17, <1>18, <1>19, <1>20, <1>21, <1>22, <1>23, <1>24
  DEF Next, Loop, Environment, Stopped

\* verifyAlert keeps the promises of a check: it decides once and for good;
\* PASS only with a fault span and a firing event of the window, FAIL only with
\* a fault span, both under a live context.
THEOREM AlertImplementsCheck == Spec => ImplementsCheck
<1>1. Init => Check!Init
  BY DEF Init, Check!Init, Undecided
<1>2. TypeOK /\ RoundInv /\ [Next]_vars => [Check!Next]_(Check!vars)
  BY StepSimulation
<1>3. Spec => Check!Spec
  BY <1>1, <1>2, TypeCorrect, Soundness, PTL DEF Spec, Check!Spec
<1>4. QED
  BY <1>3 DEF ImplementsCheck
=============================================================================
