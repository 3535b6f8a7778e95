------------------------ MODULE TelemetryPoll_proofs ------------------------
(***************************************************************************)
(* Proofs about TelemetryPoll, for every value of its constants: types,    *)
(* the soundness of PASS, the time bounds, the grounds of FAIL and the     *)
(* refinement of CheckSpec; and, in its last part, about Release: the      *)
(* verdict of a check is about the release it was given. Only that part    *)
(* uses ReleaseAssumption.                                                 *)
(***************************************************************************)
EXTENDS Release, FiniteSetTheorems, FunctionTheorems, TLAPS

USE SpansAssumption, WindowAssumption, ParameterAssumption

----------------------------------------------------------------------------
\* The operators the model is built from.

\* A bucket starts at most Step - 1 before the instants it holds.
LEMMA BucketBounds ==
  ASSUME NEW t \in Nat
  PROVE  Bucket(t) \in Int /\ Bucket(t) <= t /\ t < Bucket(t) + Step
BY DEF Bucket

LEMMA EarlierLater ==
  ASSUME NEW a \in Nat, NEW b \in Nat
  PROVE  /\ Earlier(a, b) \in Nat /\ Later(a, b) \in Nat
         /\ Earlier(a, b) <= a /\ Earlier(a, b) <= b
         /\ a <= Later(a, b) /\ b <= Later(a, b)
BY DEF Earlier, Later

LEMMA DeadlineType ==
  ASSUME TypeOK
  PROVE  /\ Deadline \in Nat /\ Deadline <= WindowEnd
         /\ Later(launched, Deadline) \in Nat
         /\ launched \in Nat
BY DEF TypeOK, Deadline, Earlier, Later

LEMMA DivisionBounds ==
  ASSUME NEW a \in Nat, NEW u \in Nat \ {0}
  PROVE  /\ a \div u \in Nat
         /\ u * (a \div u) <= a /\ a < u * (a \div u) + u
OBVIOUS

\* Truncation keeps the order of totals.
LEMMA DivisionMonotone ==
  ASSUME NEW a \in Nat, NEW b \in Nat, NEW u \in Nat \ {0}, a <= b
  PROVE  a \div u <= b \div u
<1> DEFINE p == a \div u
           q == b \div u
<1>1. p \in Nat /\ q \in Nat /\ u * p <= a /\ b < u * q + u
  BY DivisionBounds
<1> HIDE DEF p, q
<1>2. ASSUME q + 1 <= p
      PROVE  FALSE
  <2>1. u * (q + 1) <= u * p
    BY <1>1, <1>2
  <2>2. u * (q + 1) = u * q + u
    BY <1>1
  <2>3. QED
    BY <1>1, <2>1, <2>2
<1>3. p <= q
  BY <1>1, <1>2
<1>4. QED
  BY <1>3 DEF p, q

----------------------------------------------------------------------------
\* Counting and summing up.

LEMMA CountMonotone ==
  ASSUME NEW T, IsFiniteSet(T), NEW S, S \subseteq T
  PROVE  /\ Cardinality(S) \in Nat /\ Cardinality(T) \in Nat
         /\ Cardinality(S) <= Cardinality(T)
<1>1. IsFiniteSet(S)
  BY FS_Subset
<1>2. QED
  BY <1>1, FS_Subset, FS_CardinalityType

\* The values of finitely many spans have a total; more spans, more value.
LEMMA TotalMonotone ==
  ASSUME NEW T, IsFiniteSet(T), NEW S, S \subseteq T
  PROVE  /\ Truncated(S) \in Nat /\ Truncated(T) \in Nat
         /\ Truncated(S) <= Truncated(T)
<1> DEFINE Units(spans) ==
      {p \in spans \X (1..MaxValue) : p[2] <= p[1].value}
<1>1. IsFiniteSet(T \X (1..MaxValue))
  <2>1. 1 \in Int /\ MaxValue \in Int
    OBVIOUS
  <2>2. IsFiniteSet(1..MaxValue)
    BY ONLY <2>1, FS_Interval
  <2>3. QED
    BY ONLY IsFiniteSet(T), <2>2, FS_Product
<1>2. IsFiniteSet(Units(T))
  BY <1>1, FS_Subset
<1>3. Units(S) \subseteq Units(T)
  OBVIOUS
<1>4. /\ Total(S) \in Nat /\ Total(T) \in Nat
      /\ Total(S) <= Total(T)
  BY <1>2, <1>3, CountMonotone DEF Total
<1>5. QED
  BY <1>4, DivisionBounds, DivisionMonotone DEF Truncated

\* Subsets of what SigNoz shows are counted monotonically.
LEMMA SubsetCount ==
  ASSUME TypeOK, NEW S, NEW T, S \subseteq T, T \subseteq visible
  PROVE  /\ Cardinality(S) \in Nat /\ Cardinality(T) \in Nat
         /\ Cardinality(S) <= Cardinality(T)
BY CountMonotone, FS_Subset DEF TypeOK

LEMMA SubsetTotal ==
  ASSUME TypeOK, NEW S, NEW T, S \subseteq T, T \subseteq visible
  PROVE  /\ Truncated(S) \in Nat /\ Truncated(T) \in Nat
         /\ Truncated(S) <= Truncated(T)
BY TotalMonotone, FS_Subset DEF TypeOK

----------------------------------------------------------------------------
\* Types.

LEMMA TypeInit == Init => TypeOK
<1> SUFFICES ASSUME Init PROVE TypeOK
  OBVIOUS
<1>1. now \in Nat /\ launched \in LaunchTimes
  BY DEF Init
<1>2. visible \subseteq Span /\ IsFiniteSet(visible)
  BY FS_EmptySet DEF Init
<1>3. round \in [spans: SUBSET visible, known: BOOLEAN]
  BY DEF Init
<1>4. QED
  BY <1>1, <1>2, <1>3 DEF Init, TypeOK, Undecided, NoReply

LEMMA CountIsNatural ==
  ASSUME TypeOK, NEW end, NEW strict \in BOOLEAN
  PROVE  /\ TraceCount(Returned(end, strict), end) \in Nat
         /\ TraceSum(Returned(end, strict), end) \in Nat
<1>1. InPoints(Returned(end, strict), end) \subseteq visible
  BY DEF InPoints, Returned
<1>2. QED
  BY <1>1, SubsetCount, SubsetTotal DEF TraceCount, TraceSum

LEMMA FinishType ==
  ASSUME TypeOK,
         NEW state \in {"PASS", "FAIL", "INCONCLUSIVE"},
         NEW quality \in {"complete", "insufficient", "error"},
         NEW samples \in Nat,
         Finish(state, quality, samples)
  PROVE  TypeOK'
BY DEF TypeOK, Finish, Decided, env

LEMMA SleepType ==
  ASSUME TypeOK, Sleep
  PROVE  TypeOK'
<1>1. Earlier(now + PollInterval, Deadline) \in Nat
  <2>1. now + PollInterval \in Nat /\ Deadline \in Nat
    BY DeadlineType DEF TypeOK
  <2>2. QED
    BY <2>1, EarlierLater
<1>2. QED
  BY <1>1 DEF TypeOK, Sleep, env

LEMMA TypeStep ==
  ASSUME TypeOK, [Next]_vars
  PROVE  TypeOK'
<1>1. CASE WindowTooShort
  BY <1>1, FinishType DEF WindowTooShort
<1>2. CASE AwaitWindow
  BY <1>2, SleepType DEF AwaitWindow
<1>3. CASE StartRound
  <2>1. ThisEnd \in Nat
    BY EarlierLater DEF ThisEnd, TypeOK
  <2>2. QED
    BY <1>3, <2>1 DEF StartRound, TypeOK, env
<1>4. CASE BaseReceived
  BY <1>4 DEF BaseReceived, TypeOK, env, NoReply
<1>5. CASE BaseFailed
  BY <1>5, FinishType DEF BaseFailed
<1>6. CASE RequirementObserved
  BY <1>6, FinishType DEF RequirementObserved, TypeOK
<1>7. CASE FieldMissing
  BY <1>7, FinishType DEF FieldMissing, TypeOK
<1>8. CASE RequiredFailed
  BY <1>8, FinishType DEF RequiredFailed, TypeOK
<1>9. CASE DeadlineReached
  <2>1. baseCount \in Nat
    BY DEF TypeOK
  <2>2. CASE Sufficient
    BY <1>9, <2>1, <2>2, FinishType DEF DeadlineReached
  <2>3. CASE ~Sufficient
    BY <1>9, <2>1, <2>3, FinishType DEF DeadlineReached
  <2>4. QED
    BY <2>2, <2>3
<1>10. CASE PollAgain
  BY <1>10, SleepType DEF PollAgain
<1>11. CASE TimerFires
  BY <1>11 DEF TimerFires, TypeOK, env
<1>12. CASE WaitCanceled
  BY <1>12, FinishType DEF WaitCanceled, TypeOK
<1>13. CASE BaseAnswered
  <2>1. PICK strict \in BOOLEAN :
          baseCount' = TraceCount(Returned(queryEnd, strict), queryEnd)
    BY <1>13 DEF BaseAnswered
  <2>2. baseCount' \in Nat
    BY <2>1, CountIsNatural
  <2>3. QED
    BY <1>13, <2>2 DEF BaseAnswered, TypeOK, env
<1>14. CASE RequiredAnswered
  <2>1. reply' \in [kind: {"none", "count", "missing"}, count: Nat]
    <3>1. ASSUME NEW strict \in BOOLEAN,
                 reply' = Counted(TraceSum(Returned(queryEnd, strict),
                                           queryEnd))
          PROVE  reply' \in [kind: {"none", "count", "missing"}, count: Nat]
      BY <3>1, CountIsNatural DEF Counted
    <3>2. ASSUME reply' = MissingField
          PROVE  reply' \in [kind: {"none", "count", "missing"}, count: Nat]
      BY <3>2 DEF MissingField
    <3>3. QED
      BY <1>14, <3>1, <3>2 DEF RequiredAnswered
  <2>2. QED
    BY <1>14, <2>1 DEF RequiredAnswered, TypeOK, env
<1>15. CASE Tick
  BY <1>15 DEF Tick, TypeOK, env
<1>16. ASSUME NEW id \in Spans, NEW at \in EventTimes, NEW v \in 0..MaxValue,
              Ingest(id, at, v)
       PROVE  TypeOK'
  <2>1. IsFiniteSet(visible')
    BY <1>16, FS_AddElement DEF Ingest, TypeOK
  <2>2. visible' \subseteq Span /\ visible \subseteq visible'
    BY <1>16 DEF Ingest, TypeOK, Span
  <2>3. round' \in [spans: SUBSET visible', known: BOOLEAN]
    BY <1>16, <2>2 DEF Ingest, TypeOK
  <2>4. QED
    BY <1>16, <2>1, <2>2, <2>3 DEF Ingest, TypeOK
<1>17. CASE DiscoverField
  BY <1>17 DEF DiscoverField, TypeOK
<1>18. CASE Cancel
  BY <1>18 DEF Cancel, TypeOK
<1>19. CASE UNCHANGED vars
  BY <1>19 DEF vars, TypeOK
<1>20. QED
  BY <1>1, <1>2, <1>3, <1>4, <1>5, <1>6, <1>7, <1>8, <1>9, <1>10, <1>11,
     <1>12, <1>13, <1>14, <1>15, <1>16, <1>17, <1>18, <1>19
  DEF Next, Loop, Environment, Stopped

\* Every variable keeps its type: in particular a round's history is part of
\* what SigNoz shows, which is finite (pollTelemetry).
THEOREM TypeCorrect == Spec => []TypeOK
<1>1. TypeOK /\ [Next]_vars => TypeOK'
  BY TypeStep
<1>2. QED
  BY TypeInit, <1>1, PTL DEF Spec

----------------------------------------------------------------------------
\* Counting.

\* Whatever points the server returns, traceCount counts spans of the window.
LEMMA CountedInWindow ==
  ASSUME TypeOK, NEW end \in Nat, NEW strict \in BOOLEAN
  PROVE  /\ TraceCount(Returned(end, strict), end)
              <= Cardinality(InWindow(visible, end))
         /\ TraceSum(Returned(end, strict), end)
              <= Truncated(InWindow(visible, end))
<1>1. ASSUME NEW s \in visible, Start <= Bucket(s.at), Bucket(s.at) <= end
      PROVE  Start <= s.at /\ s.at < end + Step
  <2>1. s.at \in Nat
    BY DEF TypeOK, Span
  <2>2. QED
    BY <1>1, <2>1, BucketBounds
<1>2. InPoints(Returned(end, strict), end) \subseteq InWindow(visible, end)
  BY <1>1 DEF InPoints, Returned, InWindow
<1>3. InWindow(visible, end) \subseteq visible
  BY DEF InWindow
<1>4. QED
  BY <1>2, <1>3, SubsetCount, SubsetTotal DEF TraceCount, TraceSum

\* And it misses none that was there when the round began.
LEMMA RoundIsCounted ==
  ASSUME TypeOK, NEW end \in Nat, NEW strict \in BOOLEAN
  PROVE  Truncated(SurelyCounted(round.spans, end))
           <= TraceSum(Returned(end, strict), end)
<1>1. round.spans \subseteq visible
  BY DEF TypeOK
<1>2. ASSUME NEW s \in visible, Start <= Bucket(s.at), s.at <= end
      PROVE  Start <= s.at /\ Bucket(s.at) <= end
  <2>1. s.at \in Nat
    BY DEF TypeOK, Span
  <2>2. QED
    BY <1>2, <2>1, BucketBounds
<1>3. SurelyCounted(round.spans, end)
        \subseteq InPoints(Returned(end, strict), end)
  BY <1>1, <1>2 DEF SurelyCounted, InPoints, Returned
<1>4. InPoints(Returned(end, strict), end) \subseteq visible
  BY DEF InPoints, Returned
<1>5. QED
  BY <1>3, <1>4, SubsetTotal DEF TraceSum

\* What is held of a window only grows.
LEMMA Growth ==
  ASSUME TypeOK, TypeOK', visible \subseteq visible', NEW end \in Nat
  PROVE  /\ Cardinality(InWindow(visible, end)) \in Nat
         /\ Cardinality(InWindow(visible', end)) \in Nat
         /\ Cardinality(InWindow(visible, end))
              <= Cardinality(InWindow(visible', end))
         /\ Truncated(InWindow(visible, end)) \in Nat
         /\ Truncated(InWindow(visible', end)) \in Nat
         /\ Truncated(InWindow(visible, end))
              <= Truncated(InWindow(visible', end))
<1>1. IsFiniteSet(InWindow(visible', end))
  BY FS_Subset DEF TypeOK, InWindow
<1>2. InWindow(visible, end) \subseteq InWindow(visible', end)
  BY DEF InWindow
<1>3. QED
  BY <1>1, <1>2, CountMonotone, TotalMonotone

----------------------------------------------------------------------------
\* PASS is witnessed.

\* A step that neither decides nor touches what is counted keeps the counts.
LEMMA CountKept ==
  ASSUME TypeOK, TypeOK', CountInv, pc # "done", pc' # "done",
         verdict' = verdict, visible \subseteq visible',
         \/ UNCHANGED <<pc, queryEnd, baseCount, reply>>
         \/ pc' \in {"poll", "waiting", "baseQuery"}
  PROVE  CountInv' /\ PassIsWitnessed'
<1>1. verdict' = Undecided
  BY DEF CountInv
<1>2. PassIsWitnessed'
  BY <1>1 DEF PassIsWitnessed, Undecided
<1>3. CASE pc' \in {"poll", "waiting", "baseQuery"}
  BY <1>1, <1>2, <1>3 DEF CountInv
<1>4. CASE UNCHANGED <<pc, queryEnd, baseCount, reply>>
  <2>1. queryEnd \in Nat /\ baseCount \in Nat
        /\ reply \in [kind: {"none", "count", "missing"}, count: Nat]
    BY DEF TypeOK
  <2>2. CountInv'
    BY <1>1, <1>4, <2>1, Growth DEF CountInv
  <2>3. QED
    BY <1>2, <2>2
<1>5. QED
  BY <1>3, <1>4

\* A decision other than PASS needs no witness.
LEMMA CountFinish ==
  ASSUME NEW state \in {"FAIL", "INCONCLUSIVE"}, NEW quality, NEW samples,
         Finish(state, quality, samples)
  PROVE  CountInv' /\ PassIsWitnessed'
BY DEF Finish, Decided, CountInv, PassIsWitnessed

LEMMA CountStep ==
  ASSUME TypeOK, TypeOK', CountInv, PassIsWitnessed, [Next]_vars
  PROVE  CountInv' /\ PassIsWitnessed'
<1>1. CASE WindowTooShort
  BY <1>1, CountFinish DEF WindowTooShort
<1>2. CASE AwaitWindow
  BY <1>2, CountKept DEF AwaitWindow, Sleep, env
<1>3. CASE StartRound
  BY <1>3, CountKept DEF StartRound, env
<1>4. CASE BaseReceived
  <2>1. verdict' = Undecided /\ visible' = visible /\ queryEnd' = queryEnd
        /\ baseCount' = baseCount /\ pc' = "requiredQuery"
    BY <1>4 DEF BaseReceived, CountInv, env
  <2>2. baseCount <= Cardinality(InWindow(visible, queryEnd))
    BY <1>4 DEF BaseReceived, CountInv
  <2>3. InWindow(visible, queryEnd)' = InWindow(visible, queryEnd)
    BY <2>1 DEF InWindow
  <2>4. QED
    BY <2>1, <2>2, <2>3 DEF CountInv, PassIsWitnessed, Undecided
<1>5. CASE BaseFailed
  BY <1>5, CountFinish DEF BaseFailed
<1>6. CASE RequirementObserved
  <2>1. /\ baseCount <= Cardinality(InWindow(visible, queryEnd))
        /\ reply.count <= Truncated(InWindow(visible, queryEnd))
        /\ baseCount >= Minimum /\ reply.count >= RequiredMatches
    BY <1>6 DEF RequirementObserved, Received, Satisfied, Sufficient, CountInv
  <2>2. /\ baseCount \in Nat /\ reply.count \in Nat
        /\ Truncated(InWindow(visible, queryEnd)) \in Nat
    <3>1. queryEnd \in Nat /\ visible \subseteq visible'
      BY <1>6 DEF RequirementObserved, Finish, env, TypeOK
    <3>2. QED
      BY <3>1, Growth DEF TypeOK
  <2>3. /\ verdict' = Decided("PASS", "complete", baseCount)
        /\ visible' = visible /\ queryEnd' = queryEnd /\ pc' = "done"
    BY <1>6 DEF RequirementObserved, Finish, env
  <2>4. PassIsWitnessed'
    BY <2>1, <2>2, <2>3 DEF PassIsWitnessed, Decided, InWindow
  <2>5. QED
    BY <2>3, <2>4 DEF CountInv
<1>7. CASE FieldMissing
  BY <1>7, CountFinish DEF FieldMissing
<1>8. CASE RequiredFailed
  BY <1>8, CountFinish DEF RequiredFailed
<1>9. CASE DeadlineReached
  <2>1. CASE Sufficient
    BY <1>9, <2>1, CountFinish DEF DeadlineReached
  <2>2. CASE ~Sufficient
    BY <1>9, <2>2, CountFinish DEF DeadlineReached
  <2>3. QED
    BY <2>1, <2>2
<1>10. CASE PollAgain
  BY <1>10, CountKept DEF PollAgain, Received, Sleep, env
<1>11. CASE TimerFires
  BY <1>11, CountKept DEF TimerFires, env
<1>12. CASE WaitCanceled
  BY <1>12, CountFinish DEF WaitCanceled
<1>13. CASE BaseAnswered
  <2>1. PICK strict \in BOOLEAN :
          baseCount' = TraceCount(Returned(queryEnd, strict), queryEnd)
    BY <1>13 DEF BaseAnswered
  <2>2. baseCount' <= Cardinality(InWindow(visible, queryEnd))
    BY <2>1, CountedInWindow DEF TypeOK
  <2>3. verdict' = Undecided /\ visible' = visible /\ queryEnd' = queryEnd
        /\ pc' = "baseReply"
    BY <1>13 DEF BaseAnswered, CountInv, env
  <2>4. QED
    BY <2>2, <2>3 DEF CountInv, PassIsWitnessed, Undecided, InWindow
<1>14. CASE RequiredAnswered
  <2>1. verdict' = Undecided /\ visible' = visible /\ queryEnd' = queryEnd
        /\ baseCount' = baseCount /\ pc' = "requiredReply"
    BY <1>14 DEF RequiredAnswered, CountInv, env
  <2>2. baseCount <= Cardinality(InWindow(visible, queryEnd))
    BY <1>14 DEF RequiredAnswered, CountInv
  <2>3. /\ reply'.kind \in {"count", "missing"}
        /\ reply'.kind = "count" =>
             reply'.count <= Truncated(InWindow(visible, queryEnd))
    <3>1. ASSUME NEW strict \in BOOLEAN,
                 reply' = Counted(TraceSum(Returned(queryEnd, strict),
                                           queryEnd))
          PROVE  /\ reply'.kind = "count"
                 /\ reply'.count
                      <= Truncated(InWindow(visible, queryEnd))
      BY <3>1, CountedInWindow DEF Counted, TypeOK
    <3>2. QED
      BY <1>14, <3>1 DEF RequiredAnswered, MissingField
  <2>4. QED
    BY <2>1, <2>2, <2>3
    DEF CountInv, PassIsWitnessed, Undecided, InWindow
<1>15. CASE Tick
  BY <1>15, CountKept DEF Tick, Blocked, env
<1>16. ASSUME NEW id \in Spans, NEW at \in EventTimes, NEW v \in 0..MaxValue,
              Ingest(id, at, v)
       PROVE  CountInv' /\ PassIsWitnessed'
  BY <1>16, CountKept DEF Ingest, Blocked
<1>17. CASE DiscoverField
  BY <1>17, CountKept DEF DiscoverField, Blocked
<1>18. CASE Cancel
  BY <1>18, CountKept DEF Cancel, Blocked
<1>19. CASE UNCHANGED vars
  BY <1>19 DEF vars, CountInv, PassIsWitnessed, InWindow
<1>20. QED
  BY <1>1, <1>2, <1>3, <1>4, <1>5, <1>6, <1>7, <1>8, <1>9, <1>10, <1>11,
     <1>12, <1>13, <1>14, <1>15, <1>16, <1>17, <1>18, <1>19
  DEF Next, Loop, Environment, Stopped

\* PASS is never given on stale, future or missing telemetry, whatever the
\* constants, the schedule of ingestion and the points the server returns
\* (pollTelemetry with traceCount).
THEOREM PassSound == Spec => []PassIsWitnessed
<1>1. Init => CountInv /\ PassIsWitnessed
  BY DEF Init, CountInv, PassIsWitnessed, Undecided
<1>2. TypeOK /\ TypeOK' /\ CountInv /\ PassIsWitnessed /\ [Next]_vars
        => CountInv' /\ PassIsWitnessed'
  BY CountStep
<1>3. QED
  BY <1>1, <1>2, TypeCorrect, PTL DEF Spec

----------------------------------------------------------------------------
\* Time.

LEMMA Times ==
  ASSUME TypeOK
  PROVE  /\ Deadline \in Nat /\ Deadline <= WindowEnd
         /\ LastPoll \in Nat /\ launched <= LastPoll /\ Deadline <= LastPoll
         /\ now \in Nat /\ timer \in Nat
         /\ QueryTimeout \in Nat /\ PollInterval \in Nat
BY DeadlineType, EarlierLater DEF LastPoll, TypeOK

\* A decision leaves the clock alone; it may be an early one only when it is
\* neither for lack of samples nor the violation a count shows.
LEMMA TimeFinish ==
  ASSUME TypeOK, Bounded,
         NEW state, NEW quality, NEW samples, Finish(state, quality, samples),
         \/ quality = "insufficient"
         \/ state = "FAIL" /\ reply.kind = "count"
         => now >= Deadline
  PROVE  TimeInv' /\ Bounded' /\ NoEarlyVerdict'
<1>1. TimeInv'
  BY DEF Finish, TimeInv
<1>2. Bounded'
  BY DEF Finish, Bounded, Deadline
<1>3. NoEarlyVerdict'
  BY DEF Finish, Decided, NoEarlyVerdict, Deadline
<1>4. QED
  BY <1>1, <1>2, <1>3

\* Every other step only has to keep to the times of its place.
LEMMA TimeOnward ==
  ASSUME TypeOK, CountInv, pc # "done", verdict' = verdict,
         launched' = launched, TypeOK',
         pc' # "done", TimeInv'
  PROVE  TimeInv' /\ Bounded' /\ NoEarlyVerdict'
<1>1. verdict' = Undecided
  BY DEF CountInv
<1>2. NoEarlyVerdict'
  BY <1>1 DEF NoEarlyVerdict, Undecided
<1>3. LastPoll' = LastPoll /\ LastPoll \in Nat
  BY Times DEF LastPoll, Deadline
<1>4. now' \in Nat /\ timer' \in Nat
      /\ pc' \in {"poll", "baseQuery", "baseReply", "requiredQuery",
                  "requiredReply", "waiting"}
  BY DEF TypeOK
<1>5. now' <= LastPoll' + 2 * QueryTimeout
  <2>1. QueryTimeout \in Nat
    OBVIOUS
  <2>2. QED
    BY <1>3, <1>4, <2>1 DEF TimeInv
<1>6. Bounded'
  BY <1>5 DEF Bounded, LastPoll
<1>7. QED
  BY <1>2, <1>6

LEMMA TimeSleep ==
  ASSUME TypeOK, Sleep, now < Deadline
  PROVE  TimeInv'
<1>1. LastPoll' = LastPoll
  BY DEF Sleep, LastPoll, Deadline
<1>2. /\ now + PollInterval \in Nat /\ Deadline \in Nat
      /\ Deadline <= LastPoll /\ LastPoll \in Nat /\ now \in Nat
  BY Times
<1>3. /\ Earlier(now + PollInterval, Deadline) <= Deadline
      /\ now <= Earlier(now + PollInterval, Deadline)
      /\ Earlier(now + PollInterval, Deadline) \in Nat
  BY <1>2 DEF Earlier
<1>4. now' <= timer' /\ timer' <= LastPoll'
  BY <1>1, <1>2, <1>3 DEF Sleep
<1>5. QED
  BY <1>4 DEF Sleep, TimeInv

LEMMA TimeStep ==
  ASSUME TypeOK, TypeOK', CountInv, TimeInv, Bounded, NoEarlyVerdict,
         [Next]_vars
  PROVE  TimeInv' /\ Bounded' /\ NoEarlyVerdict'
<1> USE Times
<1>1. CASE WindowTooShort
  <2>1. now >= Deadline
    BY <1>1 DEF WindowTooShort, ThisEnd, Earlier
  <2>2. QED
    BY <1>1, <2>1, TimeFinish DEF WindowTooShort
<1>2. CASE AwaitWindow
  BY <1>2, TimeSleep, TimeOnward DEF AwaitWindow, Sleep
<1>3. CASE StartRound
  <2>1. TimeInv'
    BY <1>3 DEF StartRound, TimeInv, LastPoll, Deadline
  <2>2. QED
    BY <1>3, <2>1, TimeOnward DEF StartRound
<1>4. CASE BaseReceived
  <2>1. TimeInv'
    BY <1>4 DEF BaseReceived, TimeInv, LastPoll, Deadline
  <2>2. QED
    BY <1>4, <2>1, TimeOnward DEF BaseReceived
<1>5. CASE BaseFailed
  BY <1>5, TimeFinish DEF BaseFailed
<1>6. CASE RequirementObserved
  BY <1>6, TimeFinish DEF RequirementObserved
<1>7. CASE FieldMissing
  BY <1>7, TimeFinish DEF FieldMissing
<1>8. CASE RequiredFailed
  BY <1>8, TimeFinish DEF RequiredFailed
<1>9. CASE DeadlineReached
  <2>1. CASE Sufficient
    BY <1>9, <2>1, TimeFinish DEF DeadlineReached
  <2>2. CASE ~Sufficient
    BY <1>9, <2>2, TimeFinish DEF DeadlineReached
  <2>3. QED
    BY <2>1, <2>2
<1>10. CASE PollAgain
  BY <1>10, TimeSleep, TimeOnward DEF PollAgain, Received, Sleep
<1>11. CASE TimerFires
  <2>1. TimeInv'
    BY <1>11 DEF TimerFires, TimeInv, LastPoll, Deadline
  <2>2. QED
    BY <1>11, <2>1, TimeOnward DEF TimerFires
<1>12. CASE WaitCanceled
  BY <1>12, TimeFinish DEF WaitCanceled
<1>13. CASE BaseAnswered
  <2>1. TimeInv'
    BY <1>13 DEF BaseAnswered, TimeInv, LastPoll, Deadline
  <2>2. QED
    BY <1>13, <2>1, TimeOnward DEF BaseAnswered
<1>14. CASE RequiredAnswered
  <2>1. TimeInv'
    BY <1>14 DEF RequiredAnswered, TimeInv, LastPoll, Deadline
  <2>2. QED
    BY <1>14, <2>1, TimeOnward DEF RequiredAnswered
<1>15. CASE Tick
  <2>1. TimeInv'
    BY <1>15 DEF Tick, Blocked, TimeInv, LastPoll, Deadline
  <2>2. QED
    BY <1>15, <2>1, TimeOnward DEF Tick, Blocked
<1>16. ASSUME NEW id \in Spans, NEW at \in EventTimes, NEW v \in 0..MaxValue,
              Ingest(id, at, v)
       PROVE  TimeInv' /\ Bounded' /\ NoEarlyVerdict'
  <2>1. TimeInv'
    BY <1>16 DEF Ingest, TimeInv, LastPoll, Deadline
  <2>2. QED
    BY <1>16, <2>1, TimeOnward DEF Ingest, Blocked
<1>17. CASE DiscoverField
  <2>1. TimeInv'
    BY <1>17 DEF DiscoverField, TimeInv, LastPoll, Deadline
  <2>2. QED
    BY <1>17, <2>1, TimeOnward DEF DiscoverField, Blocked
<1>18. CASE Cancel
  <2>1. TimeInv'
    BY <1>18 DEF Cancel, TimeInv, LastPoll, Deadline
  <2>2. QED
    BY <1>18, <2>1, TimeOnward DEF Cancel, Blocked
<1>19. CASE UNCHANGED vars
  BY <1>19 DEF vars, TimeInv, Bounded, NoEarlyVerdict, LastPoll, Deadline
<1>20. QED
  BY <1>1, <1>2, <1>3, <1>4, <1>5, <1>6, <1>7, <1>8, <1>9, <1>10, <1>11,
     <1>12, <1>13, <1>14, <1>15, <1>16, <1>17, <1>18, <1>19
  DEF Next, Loop, Environment, Stopped

LEMMA Timing == Spec => [](TimeInv /\ Bounded /\ NoEarlyVerdict)
<1>1. Init => CountInv /\ PassIsWitnessed
  BY DEF Init, CountInv, PassIsWitnessed, Undecided
<1>2. TypeOK /\ TypeOK' /\ CountInv /\ PassIsWitnessed /\ [Next]_vars
        => CountInv' /\ PassIsWitnessed'
  BY CountStep
<1>3. TypeOK /\ Init => TimeInv /\ Bounded /\ NoEarlyVerdict
  <2> SUFFICES ASSUME TypeOK, Init
               PROVE  TimeInv /\ Bounded /\ NoEarlyVerdict
    OBVIOUS
  <2>1. TimeInv
    BY Times DEF Init, TimeInv
  <2>2. Bounded
    BY Times DEF Init, Bounded, LastPoll
  <2>3. NoEarlyVerdict
    BY DEF Init, NoEarlyVerdict, Undecided
  <2>4. QED
    BY <2>1, <2>2, <2>3
<1>4. TypeOK /\ TypeOK' /\ CountInv /\ TimeInv /\ Bounded /\ NoEarlyVerdict
        /\ [Next]_vars => TimeInv' /\ Bounded' /\ NoEarlyVerdict'
  BY TimeStep
<1>5. QED
  BY <1>1, <1>2, <1>3, <1>4, TypeCorrect, PTL DEF Spec

\* The check runs at most two query timeouts past its deadline or its launch
\* (pollTelemetry, traceCount, wait).
THEOREM RunIsBounded == Spec => []Bounded
BY Timing, PTL

\* Neither insufficient data nor a violation shown by a count is reported
\* before the completeness deadline (pollTelemetry).
THEOREM DecisionsWait == Spec => []NoEarlyVerdict
BY Timing, PTL

----------------------------------------------------------------------------
\* FAIL is grounded.

\* A step that neither decides nor answers the required query keeps what is
\* known of the round.
LEMMA RoundKept ==
  ASSUME CountInv, RoundInv, pc # "done", pc' # "done",
         verdict' = verdict, round' = round, fieldKnown => fieldKnown',
         \/ UNCHANGED <<pc, queryEnd, reply>>
         \/ pc' \in {"poll", "waiting"}
         \/ pc' = "baseReply" /\ pc = "baseQuery"
         \/ pc' = "requiredQuery" /\ pc = "baseReply"
  PROVE  RoundInv' /\ FailIsGrounded'
<1>1. FailIsGrounded'
  BY DEF FailIsGrounded, CountInv, Undecided
<1>2. CASE UNCHANGED <<pc, queryEnd, reply>>
  <2>1. SurelyCounted(round.spans, queryEnd)'
          = SurelyCounted(round.spans, queryEnd)
    BY <1>2 DEF SurelyCounted, InPoints
  <2>2. RoundInv'
    BY <1>2, <2>1 DEF RoundInv
  <2>3. QED
    BY <1>1, <2>2
<1>3. CASE pc' # "requiredReply"
  <2>1. RoundInv'
    BY <1>3 DEF RoundInv
  <2>2. QED
    BY <1>1, <2>1
<1>4. QED
  BY <1>2, <1>3

\* A decision other than FAIL needs no ground.
LEMMA RoundFinish ==
  ASSUME NEW state \in {"PASS", "INCONCLUSIVE"}, NEW quality, NEW samples,
         Finish(state, quality, samples)
  PROVE  RoundInv' /\ FailIsGrounded'
BY DEF Finish, Decided, RoundInv, FailIsGrounded

\* FAIL is decided on sufficient samples and on the last answers.
LEMMA RoundFail ==
  ASSUME TypeOK, TypeOK', CountInv, RoundInv, Received, Sufficient,
         reply.kind = "count" => reply.count < RequiredMatches,
         Finish("FAIL", "complete", baseCount)
  PROVE  RoundInv' /\ FailIsGrounded'
<1>1. /\ pc = "requiredReply" /\ baseCount >= Minimum
      /\ pc' = "done" /\ verdict'.state = "FAIL"
      /\ visible' = visible /\ queryEnd' = queryEnd /\ round' = round
  BY DEF Received, Sufficient, Finish, Decided, env
<1>2. /\ queryEnd \in Nat /\ baseCount \in Nat /\ reply.count \in Nat
      /\ Cardinality(InWindow(visible, queryEnd)) \in Nat
      /\ Truncated(SurelyCounted(round.spans, queryEnd)) \in Nat
  <2>1. /\ InWindow(visible, queryEnd) \subseteq visible
        /\ SurelyCounted(round.spans, queryEnd) \subseteq visible
    BY DEF InWindow, SurelyCounted, InPoints, TypeOK
  <2>2. QED
    BY <2>1, SubsetCount, SubsetTotal DEF TypeOK
<1>3. Cardinality(InWindow(visible, queryEnd)) >= Minimum
  BY <1>1, <1>2 DEF CountInv
<1>4. round.known =>
        Truncated(SurelyCounted(round.spans, queryEnd))
          < RequiredMatches
  BY <1>1, <1>2 DEF CountInv, RoundInv
<1>5. FailIsGrounded'
  BY <1>1, <1>3, <1>4
  DEF FailIsGrounded, InWindow, SurelyCounted, InPoints
<1>6. QED
  BY <1>1, <1>5 DEF RoundInv

LEMMA RoundStep ==
  ASSUME TypeOK, TypeOK', CountInv, RoundInv, FailIsGrounded, [Next]_vars
  PROVE  RoundInv' /\ FailIsGrounded'
<1>1. CASE WindowTooShort
  BY <1>1, RoundFinish DEF WindowTooShort
<1>2. CASE AwaitWindow
  BY <1>2, RoundKept DEF AwaitWindow, Sleep, env
<1>3. CASE StartRound
  <2>1. /\ pc' = "baseQuery" /\ verdict' = Undecided
        /\ round'.known = fieldKnown /\ fieldKnown' = fieldKnown
    BY <1>3 DEF StartRound, CountInv, env
  <2>2. QED
    BY <2>1 DEF RoundInv, FailIsGrounded, Undecided
<1>4. CASE BaseReceived
  BY <1>4, RoundKept DEF BaseReceived, env
<1>5. CASE BaseFailed
  BY <1>5, RoundFinish DEF BaseFailed
<1>6. CASE RequirementObserved
  BY <1>6, RoundFinish DEF RequirementObserved
<1>7. CASE FieldMissing
  BY <1>7, RoundFail DEF FieldMissing
<1>8. CASE RequiredFailed
  BY <1>8, RoundFinish DEF RequiredFailed
<1>9. CASE DeadlineReached
  <2>1. CASE Sufficient
    <3>1. reply.count < RequiredMatches
      BY <1>9, <2>1 DEF DeadlineReached, Satisfied, TypeOK
    <3>2. QED
      BY <1>9, <2>1, <3>1, RoundFail DEF DeadlineReached
  <2>2. CASE ~Sufficient
    BY <1>9, <2>2, RoundFinish DEF DeadlineReached
  <2>3. QED
    BY <2>1, <2>2
<1>10. CASE PollAgain
  BY <1>10, RoundKept DEF PollAgain, Received, Sleep, env
<1>11. CASE TimerFires
  BY <1>11, RoundKept DEF TimerFires, env
<1>12. CASE WaitCanceled
  BY <1>12, RoundFinish DEF WaitCanceled
<1>13. CASE BaseAnswered
  BY <1>13, RoundKept DEF BaseAnswered, env
<1>14. CASE RequiredAnswered
  <2>1. /\ pc = "requiredQuery" /\ pc' = "requiredReply"
        /\ verdict' = Undecided /\ round' = round /\ queryEnd' = queryEnd
        /\ fieldKnown' = fieldKnown
    BY <1>14 DEF RequiredAnswered, CountInv, env
  <2>2. round.known => fieldKnown
    BY <2>1 DEF RoundInv
  <2>3. /\ reply'.kind = "missing" => ~fieldKnown
        /\ reply'.kind = "count" =>
             Truncated(SurelyCounted(round.spans, queryEnd))
               <= reply'.count
    <3>1. ASSUME NEW strict \in BOOLEAN,
                 reply' = Counted(TraceSum(Returned(queryEnd, strict),
                                           queryEnd))
          PROVE  /\ reply'.kind = "count"
                 /\ Truncated(SurelyCounted(round.spans, queryEnd))
                      <= reply'.count
      BY <3>1, RoundIsCounted DEF Counted, TypeOK
    <3>2. ASSUME ~fieldKnown, reply' = MissingField
          PROVE  ~fieldKnown /\ reply'.kind = "missing"
      BY <3>2 DEF MissingField
    <3>3. QED
      BY <1>14, <3>1, <3>2 DEF RequiredAnswered
  <2>4. FailIsGrounded'
    BY <2>1 DEF FailIsGrounded, Undecided
  <2>5. SurelyCounted(round.spans, queryEnd)'
          = SurelyCounted(round.spans, queryEnd)
    BY <2>1 DEF SurelyCounted, InPoints
  <2>6. RoundInv'
    BY <2>1, <2>2, <2>3, <2>5 DEF RoundInv
  <2>7. QED
    BY <2>4, <2>6
<1>15. CASE Tick
  BY <1>15, RoundKept DEF Tick, Blocked, env
<1>16. ASSUME NEW id \in Spans, NEW at \in EventTimes, NEW v \in 0..MaxValue,
              Ingest(id, at, v)
       PROVE  RoundInv' /\ FailIsGrounded'
  BY <1>16, RoundKept DEF Ingest, Blocked
<1>17. CASE DiscoverField
  BY <1>17, RoundKept DEF DiscoverField, Blocked
<1>18. CASE Cancel
  BY <1>18, RoundKept DEF Cancel, Blocked
<1>19. CASE UNCHANGED vars
  BY <1>19
  DEF vars, RoundInv, FailIsGrounded, InWindow, SurelyCounted,
      InPoints
<1>20. QED
  BY <1>1, <1>2, <1>3, <1>4, <1>5, <1>6, <1>7, <1>8, <1>9, <1>10, <1>11,
     <1>12, <1>13, <1>14, <1>15, <1>16, <1>17, <1>18, <1>19
  DEF Next, Loop, Environment, Stopped

\* FAIL rests on sufficient in-window samples and on the answers of the last
\* round: matching telemetry that SigNoz could count when it began, under a key
\* it knew, excludes it (pollTelemetry).
THEOREM FailSound == Spec => []FailIsGrounded
<1>1. Init => CountInv /\ PassIsWitnessed /\ RoundInv /\ FailIsGrounded
  BY DEF Init, CountInv, PassIsWitnessed, RoundInv, FailIsGrounded, Undecided
<1>2. TypeOK /\ TypeOK' /\ CountInv /\ PassIsWitnessed /\ [Next]_vars
        => CountInv' /\ PassIsWitnessed'
  BY CountStep
<1>3. TypeOK /\ TypeOK' /\ CountInv /\ RoundInv /\ FailIsGrounded
        /\ [Next]_vars => RoundInv' /\ FailIsGrounded'
  BY RoundStep
<1>4. QED
  BY <1>1, <1>2, <1>3, TypeCorrect, PTL DEF Spec

----------------------------------------------------------------------------
\* The evidence of a verdict is fresh.

\* A round looks up to the instant it began at, as far as the window goes, and
\* no round begins after the last poll; each of its two queries takes at most a
\* timeout.
FreshInv ==
  /\ pc \in {"baseQuery", "baseReply"} =>
       /\ now <= timer /\ queryEnd <= LastPoll
       /\ queryEnd = WindowEnd \/ timer <= queryEnd + QueryTimeout
  /\ pc \in {"requiredQuery", "requiredReply"} =>
       /\ now <= timer /\ queryEnd <= LastPoll
       /\ queryEnd = WindowEnd \/ timer <= queryEnd + 2 * QueryTimeout
  /\ pc # "done" => verdict.quality # "complete"

LEMMA NotPast ==
  ASSUME NEW a \in Nat, NEW b \in Nat, NEW c \in Nat, NEW t \in Nat,
         a <= b, b <= c + 2 * t
  PROVE  a <= c + 2 * t
OBVIOUS

\* The clock is not past the timer, so neither is what a verdict may claim.
LEMMA FreshAtReply ==
  ASSUME TypeOK, FreshInv, pc = "requiredReply"
  PROVE  /\ queryEnd <= LastPoll
         /\ queryEnd = WindowEnd \/ now <= queryEnd + 2 * QueryTimeout
<1>1. now \in Nat /\ timer \in Nat /\ queryEnd \in Nat
  BY DEF TypeOK
<1>2. /\ now <= timer /\ queryEnd <= LastPoll
      /\ queryEnd = WindowEnd \/ timer <= queryEnd + 2 * QueryTimeout
  BY DEF FreshInv
<1>3. QED
  BY <1>1, <1>2

LEMMA FreshFinish ==
  ASSUME TypeOK, FreshInv,
         NEW state, NEW quality, NEW samples, Finish(state, quality, samples),
         quality = "complete" => pc = "requiredReply"
  PROVE  FreshInv' /\ LastRoundIsFresh'
<1>1. /\ pc' = "done" /\ verdict'.quality = quality
      /\ UNCHANGED <<now, queryEnd, LastPoll>>
  BY DEF Finish, Decided, LastPoll, Deadline
<1>2. FreshInv'
  BY <1>1 DEF FreshInv
<1>3. LastRoundIsFresh'
  BY <1>1, FreshAtReply DEF LastRoundIsFresh
<1>4. QED
  BY <1>2, <1>3

\* Every other step only has to keep to the times of its place.
LEMMA FreshOnward ==
  ASSUME TypeOK', pc' # "done", FreshInv'
  PROVE  FreshInv' /\ LastRoundIsFresh'
<1>1. now' \in Nat /\ timer' \in Nat /\ queryEnd' \in Nat
  BY DEF TypeOK
<1>2. ASSUME pc' = "requiredReply"
      PROVE  /\ queryEnd' <= LastPoll'
             /\ queryEnd' = WindowEnd \/ now' <= queryEnd' + 2 * QueryTimeout
  <2>1. /\ now' <= timer' /\ queryEnd' <= LastPoll'
        /\ queryEnd' = WindowEnd \/ timer' <= queryEnd' + 2 * QueryTimeout
    BY <1>2 DEF FreshInv
  <2>2. ASSUME timer' <= queryEnd' + 2 * QueryTimeout
        PROVE  now' <= queryEnd' + 2 * QueryTimeout
    <3>1. QueryTimeout \in Nat
      OBVIOUS
    <3>2. QED
      BY <1>1, <2>1, <2>2, <3>1, NotPast
  <2>3. QED
    BY <2>1, <2>2
<1>3. verdict'.quality # "complete"
  BY DEF FreshInv
<1>4. QED
  BY <1>2, <1>3 DEF LastRoundIsFresh

LEMMA FreshStep ==
  ASSUME TypeOK, TypeOK', TimeInv, FreshInv, LastRoundIsFresh, [Next]_vars
  PROVE  FreshInv' /\ LastRoundIsFresh'
<1>0. /\ now \in Nat /\ timer \in Nat /\ queryEnd \in Nat
      /\ QueryTimeout \in Nat /\ LastPoll \in Nat
  BY Times DEF TypeOK
<1>1. CASE WindowTooShort
  BY <1>1, FreshFinish DEF WindowTooShort
<1>2. CASE AwaitWindow
  BY <1>2, FreshOnward DEF AwaitWindow, Sleep, FreshInv
<1>3. CASE StartRound
  <2>1. /\ ThisEnd <= LastPoll
        /\ ThisEnd = WindowEnd \/ ThisEnd = now
    <3>1. ThisEnd \in Nat /\ ThisEnd <= now
          /\ (ThisEnd = WindowEnd \/ ThisEnd = now)
      BY <1>0 DEF ThisEnd, Earlier
    <3>2. now <= LastPoll
      BY <1>3 DEF StartRound, TimeInv
    <3>3. QED
      BY <1>0, <3>1, <3>2
  <2>2. /\ pc' = "baseQuery" /\ queryEnd' = ThisEnd
        /\ timer' = now + QueryTimeout
        /\ UNCHANGED <<now, verdict, LastPoll>>
    BY <1>3 DEF StartRound, LastPoll, Deadline
  <2>3. queryEnd' = WindowEnd \/ timer' <= queryEnd' + QueryTimeout
    BY <1>0, <2>1, <2>2
  <2>4. FreshInv'
    BY <1>0, <1>3, <2>1, <2>2, <2>3 DEF StartRound, FreshInv
  <2>5. QED
    BY <2>2, <2>4, FreshOnward
<1>4. CASE BaseReceived
  <2>1. /\ now <= timer /\ queryEnd <= LastPoll
        /\ queryEnd = WindowEnd \/ timer <= queryEnd + QueryTimeout
    BY <1>4 DEF BaseReceived, FreshInv
  <2>2. /\ pc' = "requiredQuery" /\ timer' = now + QueryTimeout
        /\ UNCHANGED <<now, queryEnd, verdict, LastPoll>>
    BY <1>4 DEF BaseReceived, LastPoll, Deadline
  <2>3. queryEnd' = WindowEnd \/ timer' <= queryEnd' + 2 * QueryTimeout
    BY <1>0, <2>1, <2>2
  <2>4. FreshInv'
    BY <1>0, <1>4, <2>1, <2>2, <2>3 DEF BaseReceived, FreshInv
  <2>5. QED
    BY <2>2, <2>4, FreshOnward
<1>5. CASE BaseFailed
  BY <1>5, FreshFinish DEF BaseFailed
<1>6. CASE RequirementObserved
  BY <1>6, FreshFinish DEF RequirementObserved, Received
<1>7. CASE FieldMissing
  BY <1>7, FreshFinish DEF FieldMissing, Received
<1>8. CASE RequiredFailed
  BY <1>8, FreshFinish DEF RequiredFailed
<1>9. CASE DeadlineReached
  <2>1. CASE Sufficient
    BY <1>9, <2>1, FreshFinish DEF DeadlineReached, Received
  <2>2. CASE ~Sufficient
    BY <1>9, <2>2, FreshFinish DEF DeadlineReached
  <2>3. QED
    BY <2>1, <2>2
<1>10. CASE PollAgain
  BY <1>10, FreshOnward DEF PollAgain, Received, Sleep, FreshInv, LastPoll, Deadline
<1>11. CASE TimerFires
  BY <1>11, FreshOnward DEF TimerFires, FreshInv, LastPoll, Deadline
<1>12. CASE WaitCanceled
  BY <1>12, FreshFinish DEF WaitCanceled
<1>13. CASE BaseAnswered
  BY <1>13, FreshOnward DEF BaseAnswered, FreshInv, LastPoll, Deadline
<1>14. CASE RequiredAnswered
  BY <1>14, FreshOnward DEF RequiredAnswered, FreshInv, LastPoll, Deadline
<1>15. CASE Tick
  BY <1>0, <1>15, FreshOnward DEF Tick, Blocked, FreshInv, LastPoll, Deadline
<1>16. ASSUME NEW id \in Spans, NEW at \in EventTimes, NEW v \in 0..MaxValue,
              Ingest(id, at, v)
       PROVE  FreshInv' /\ LastRoundIsFresh'
  BY <1>16, FreshOnward DEF Ingest, Blocked, FreshInv, LastPoll, Deadline
<1>17. CASE DiscoverField
  BY <1>17, FreshOnward DEF DiscoverField, Blocked, FreshInv, LastPoll, Deadline
<1>18. CASE Cancel
  BY <1>18, FreshOnward DEF Cancel, Blocked, FreshInv, LastPoll, Deadline
<1>19. CASE UNCHANGED vars
  BY <1>19 DEF vars, FreshInv, LastRoundIsFresh, LastPoll, Deadline
<1>20. QED
  BY <1>1, <1>2, <1>3, <1>4, <1>5, <1>6, <1>7, <1>8, <1>9, <1>10, <1>11,
     <1>12, <1>13, <1>14, <1>15, <1>16, <1>17, <1>18, <1>19
  DEF Next, Loop, Environment, Stopped

\* The last round is begun at the deadline at the latest, and the evidence of a
\* verdict reaches up to the end of the window or to two query timeouts before
\* the decision (pollTelemetry, wait).
THEOREM EvidenceIsFresh == Spec => []LastRoundIsFresh
<1>1. Init => FreshInv /\ LastRoundIsFresh
  BY DEF Init, FreshInv, LastRoundIsFresh, Undecided
<1>2. TypeOK /\ TypeOK' /\ TimeInv /\ FreshInv /\ LastRoundIsFresh
        /\ [Next]_vars => FreshInv' /\ LastRoundIsFresh'
  BY FreshStep
<1>3. QED
  BY <1>1, <1>2, TypeCorrect, Timing, PTL DEF Spec

----------------------------------------------------------------------------
\* The refinement of the abstract check (CheckSpec).

\* A query never looks past the end of the check's window.
EndInv == queryEnd <= WindowEnd

LEMMA EndStep ==
  ASSUME TypeOK, EndInv, [Next]_vars
  PROVE  EndInv'
<1>1. CASE StartRound
  <2>1. ThisEnd <= WindowEnd
    BY EarlierLater DEF ThisEnd, TypeOK
  <2>2. QED
    BY <1>1, <2>1 DEF StartRound, EndInv
<1>2. CASE queryEnd' = queryEnd
  BY <1>2 DEF EndInv
<1>3. [Next]_vars => StartRound \/ queryEnd' = queryEnd
  BY DEF Next, Loop, Environment, Stopped, vars, env, WindowTooShort,
         AwaitWindow, BaseReceived, BaseFailed, RequirementObserved,
         FieldMissing, RequiredFailed, DeadlineReached, PollAgain, TimerFires,
         WaitCanceled, BaseAnswered, RequiredAnswered, Tick, Ingest,
         DiscoverField, Cancel, Finish, Sleep
<1>4. QED
  BY <1>1, <1>2, <1>3

----------------------------------------------------------------------------
\* What the abstract check is told.

Sampled == Cardinality(InWindow(visible, WindowEnd)) >= Minimum
SatisfiedNow == Truncated(InWindow(visible, WindowEnd)) >= RequiredMatches

\* What a query counts belongs to the window of the check.
LEMMA CountsReachWindow ==
  ASSUME TypeOK, EndInv
  PROVE  /\ Cardinality(InWindow(visible, queryEnd)) \in Nat
         /\ Cardinality(InWindow(visible, WindowEnd)) \in Nat
         /\ Cardinality(InWindow(visible, queryEnd))
              <= Cardinality(InWindow(visible, WindowEnd))
         /\ Truncated(InWindow(visible, queryEnd)) \in Nat
         /\ Truncated(InWindow(visible, WindowEnd)) \in Nat
         /\ Truncated(InWindow(visible, queryEnd))
              <= Truncated(InWindow(visible, WindowEnd))
<1>1. ASSUME NEW s \in visible, s.at < queryEnd + Step
      PROVE  s.at < WindowEnd + Step
  <2>1. s.at \in Nat /\ queryEnd \in Nat
    BY DEF TypeOK, Span
  <2>2. QED
    BY <1>1, <2>1 DEF EndInv
<1>2. /\ InWindow(visible, queryEnd) \subseteq InWindow(visible, WindowEnd)
      /\ InWindow(visible, WindowEnd) \subseteq visible
  BY <1>1 DEF InWindow
<1>3. QED
  BY <1>2, SubsetCount, SubsetTotal

\* Telemetry is only ever added.
LEMMA TelemetryGrows ==
  ASSUME TypeOK, TypeOK', visible \subseteq visible'
  PROVE  (Sampled => Sampled') /\ (SatisfiedNow => SatisfiedNow')
BY Growth DEF Sampled, SatisfiedNow

----------------------------------------------------------------------------
\* The step simulation.

\* A decision on sufficient counts under a live context, or INCONCLUSIVE.
LEMMA FinishDecides ==
  ASSUME TypeOK, CountInv, EndInv, pc # "done",
         NEW state \in {"PASS", "FAIL", "INCONCLUSIVE"},
         NEW quality, NEW samples, Finish(state, quality, samples),
         state # "INCONCLUSIVE" => Received /\ Sufficient,
         state = "PASS" => reply.kind = "count" /\ Satisfied
  PROVE  Check!Decide
<1>1. verdict.state = "NONE" /\ verdict'.state = state
  BY DEF CountInv, Undecided, Finish, Decided
<1>2. UNCHANGED <<visible, canceled>>
  BY DEF Finish, env
<1>3. UNCHANGED <<Sampled, SatisfiedNow, canceled>>
  BY <1>2 DEF Sampled, SatisfiedNow, InWindow
<1>4. ASSUME Received, Sufficient
      PROVE  ~canceled /\ Sampled
  <2>1. baseCount >= Minimum /\ baseCount \in Nat /\ ~canceled
        /\ baseCount <= Cardinality(InWindow(visible, queryEnd))
    BY <1>4 DEF Received, Sufficient, CountInv, TypeOK
  <2>2. QED
    BY <2>1, CountsReachWindow DEF Sampled
<1>5. ASSUME Received, reply.kind = "count", Satisfied
      PROVE  SatisfiedNow
  <2>1. reply.count >= RequiredMatches /\ reply.count \in Nat
        /\ reply.count <= Truncated(InWindow(visible, queryEnd))
    BY <1>5 DEF Received, Satisfied, CountInv, TypeOK
  <2>2. QED
    BY <2>1, CountsReachWindow DEF SatisfiedNow
<1>6. CASE state = "PASS"
  BY <1>1, <1>3, <1>4, <1>5, <1>6
  DEF Check!Decide, Check!Pass, Sampled, SatisfiedNow
<1>7. CASE state = "FAIL"
  BY <1>1, <1>3, <1>4, <1>7
  DEF Check!Decide, Check!Fail, Sampled, SatisfiedNow
<1>8. CASE state = "INCONCLUSIVE"
  BY <1>1, <1>3, <1>8
  DEF Check!Decide, Check!Inconclusive, Sampled, SatisfiedNow
<1>9. QED
  BY <1>6, <1>7, <1>8

LEMMA StepSimulation ==
  ASSUME TypeOK, TypeOK', CountInv, EndInv, [Next]_vars
  PROVE  [Check!Next]_(Check!vars)
<1> DEFINE Simulated == [Check!Next]_(Check!vars)
<1>1. ASSUME UNCHANGED <<visible, canceled, verdict>>
      PROVE  Simulated
  BY <1>1 DEF Check!vars, InWindow
<1>2. ASSUME Check!Decide
      PROVE  Simulated
  BY <1>2 DEF Check!Next
<1>3. CASE WindowTooShort
  BY <1>2, <1>3, FinishDecides DEF WindowTooShort
<1>4. CASE AwaitWindow
  BY <1>1, <1>4 DEF AwaitWindow, Sleep, env
<1>5. CASE StartRound
  BY <1>1, <1>5 DEF StartRound, env
<1>6. CASE BaseReceived
  BY <1>1, <1>6 DEF BaseReceived, env
<1>7. CASE BaseFailed
  BY <1>2, <1>7, FinishDecides DEF BaseFailed
<1>8. CASE RequirementObserved
  BY <1>2, <1>8, FinishDecides DEF RequirementObserved, Received, Satisfied
<1>9. CASE FieldMissing
  BY <1>2, <1>9, FinishDecides DEF FieldMissing, Received
<1>10. CASE RequiredFailed
  BY <1>2, <1>10, FinishDecides DEF RequiredFailed
<1>11. CASE DeadlineReached
  <2>1. CASE Sufficient
    BY <1>2, <1>11, <2>1, FinishDecides DEF DeadlineReached, Received
  <2>2. CASE ~Sufficient
    BY <1>2, <1>11, <2>2, FinishDecides DEF DeadlineReached, Received
  <2>3. QED
    BY <2>1, <2>2
<1>12. CASE PollAgain
  BY <1>1, <1>12 DEF PollAgain, Sleep, env
<1>13. CASE TimerFires
  BY <1>1, <1>13 DEF TimerFires, env
<1>14. CASE WaitCanceled
  BY <1>2, <1>14, FinishDecides DEF WaitCanceled
<1>15. CASE BaseAnswered
  BY <1>1, <1>15 DEF BaseAnswered, env
<1>16. CASE RequiredAnswered
  BY <1>1, <1>16 DEF RequiredAnswered, env
<1>17. CASE Tick
  BY <1>1, <1>17 DEF Tick, env
<1>18. ASSUME NEW id \in Spans, NEW at \in EventTimes, NEW v \in 0..MaxValue,
              Ingest(id, at, v)
       PROVE  Simulated
  <2>1. visible \subseteq visible' /\ UNCHANGED <<canceled, verdict>>
    BY <1>18 DEF Ingest
  <2>2. Check!TelemetryArrives
    BY <2>1, TelemetryGrows
    DEF Check!TelemetryArrives, Sampled, SatisfiedNow
  <2>3. QED
    BY <2>2 DEF Check!Next
<1>19. CASE DiscoverField
  BY <1>1, <1>19 DEF DiscoverField
<1>20. CASE Cancel
  <2>1. canceled' = TRUE /\ UNCHANGED <<visible, verdict>>
    BY <1>20 DEF Cancel
  <2>2. Check!ContextEnds
    BY <2>1 DEF Check!ContextEnds, InWindow
  <2>3. QED
    BY <2>2 DEF Check!Next
<1>21. CASE UNCHANGED vars
  BY <1>1, <1>21 DEF vars, env
<1>22. QED
  BY <1>3, <1>4, <1>5, <1>6, <1>7, <1>8, <1>9, <1>10, <1>11, <1>12, <1>13,
     <1>14, <1>15, <1>16, <1>17, <1>18, <1>19, <1>20, <1>21
  DEF Next, Loop, Environment, Stopped

\* pollTelemetry keeps the promises of a check: it decides once and for good;
\* PASS and FAIL only on telemetry that is really there and under a live
\* context.
THEOREM PollImplementsCheck == Spec => ImplementsCheck
<1>1. Init => Check!Init
  BY DEF Init, Check!Init, Undecided
<1>2. Init => CountInv /\ PassIsWitnessed /\ EndInv
  BY DEF Init, CountInv, PassIsWitnessed, EndInv, Undecided
<1>3. TypeOK /\ TypeOK' /\ CountInv /\ PassIsWitnessed /\ [Next]_vars
        => CountInv' /\ PassIsWitnessed'
  BY CountStep
<1>4. TypeOK /\ EndInv /\ [Next]_vars => EndInv'
  BY EndStep
<1>5. TypeOK /\ TypeOK' /\ CountInv /\ EndInv /\ [Next]_vars
        => [Check!Next]_(Check!vars)
  BY StepSimulation
<1>6. Spec => Check!Spec
  BY <1>1, <1>2, <1>3, <1>4, <1>5, TypeCorrect, PTL DEF Spec, Check!Spec
<1>7. QED
  BY <1>6 DEF ImplementsCheck

USE ReleaseAssumption

----------------------------------------------------------------------------
\* The service, and what SigNoz shows of it.

Places == {"none", "traces", "metrics", "logs", "answered"}

\* The collector holds spans of requests that were accepted.
ServiceInv ==
  /\ variant \in {"healthy", "broken"}
  /\ check \in {"payment.authorize", "cart.value"}
  /\ handler \in [Spans -> [place: Places, started: EventTimes \cup {0}]]
  /\ traces \subseteq Spans
  /\ \A r \in Spans : handler[r].place # "none" =>
                        handler[r].started \in EventTimes
  /\ \A r \in traces : handler[r].place # "none"

\* SigNoz shows what the collector holds, as the service exported it.
ShownInv ==
  \A s \in visible : /\ s.id \in traces
                     /\ s.at = handler[s.id].started
                     /\ s.value = Value(s.id)

LEMMA ValueType ==
  ASSUME NEW r
  PROVE  Value(r) \in 0..MaxValue
BY DEF Value

\* A step of the service loses no span and keeps the times of those it has.
LEMMA ServeKeeps ==
  ASSUME ServiceInv, Serve
  PROVE  /\ ServiceInv' /\ traces \subseteq traces' /\ variant' = variant
         /\ \A r \in traces : handler'[r].started = handler[r].started
<1>1. PICK r \in Spans : \/ \E at \in EventTimes :
                              at <= now /\ Service!Accept(r, at)
                         \/ Service!Posted(r) \/ Service!PostFails(r)
  BY DEF Serve
<1>2. UNCHANGED <<vars, check>>
  BY DEF Serve
<1>3. CASE \E at \in EventTimes : at <= now /\ Service!Accept(r, at)
  <2>1. PICK at \in EventTimes : Service!Accept(r, at)
    BY <1>3
  <2>2. /\ handler[r].place = "none"
        /\ handler' = [handler EXCEPT ![r] = [place |-> "traces",
                                              started |-> at]]
        /\ UNCHANGED <<variant, traces>>
    BY <2>1 DEF Service!Accept
  <2>3. r \notin traces
    BY <2>2 DEF ServiceInv
  <2>4. QED
    BY <1>2, <2>2, <2>3 DEF ServiceInv, Places
<1>4. CASE Service!Posted(r) \/ Service!PostFails(r)
  <2>1. /\ handler[r].place # "none"
        /\ traces' \in {traces, traces \cup {r}} /\ variant' = variant
        /\ \E place \in Places \ {"none"} :
             handler' = [handler EXCEPT ![r].place = place]
    <3>1. CASE Service!Posted(r)
      BY <3>1
      DEF Service!Posted, Service!Exporting, Service!Stored, Service!After,
          Places
    <3>2. CASE Service!PostFails(r)
      BY <3>2
      DEF Service!PostFails, Service!Exporting, Service!Stored, Places
    <3>3. QED
      BY <1>4, <3>1, <3>2
  <2>2. PICK place \in Places \ {"none"} :
          handler' = [handler EXCEPT ![r].place = place]
    BY <2>1
  <2>3. \A q \in Spans : /\ handler'[q].started = handler[q].started
                         /\ handler'[q].place \in {place, handler[q].place}
    BY <2>2 DEF ServiceInv
  <2>4. handler' \in [Spans -> [place: Places, started: EventTimes \cup {0}]]
    BY <2>2 DEF ServiceInv
  <2>5. /\ handler'[r].place # "none"
    BY <2>2 DEF ServiceInv
  <2>6. QED
    BY <1>2, <2>1, <2>2, <2>3, <2>4, <2>5 DEF ServiceInv
<1>5. QED
  BY <1>1, <1>3, <1>4

\* What the service and SigNoz do, the check may expect.
LEMMA StepIsPolled ==
  ASSUME ServiceInv, [ReleaseNext]_releaseVars
  PROVE  [Next]_vars
<1>1. CASE Loop \/ Answer \/ Tick \/ DiscoverField \/ Cancel \/ Stopped
  BY <1>1 DEF Answer, Next, Environment
<1>2. CASE Serve
  BY <1>2 DEF Serve
<1>3. CASE Show
  <2>1. PICK r \in traces : Ingest(r, handler[r].started, Value(r))
    BY <1>3 DEF Show
  <2>2. r \in Spans /\ handler[r].started \in EventTimes
    BY <2>1 DEF ServiceInv
  <2>3. QED
    BY <2>1, <2>2, ValueType DEF Next, Environment
<1>4. CASE UNCHANGED releaseVars
  BY <1>4 DEF releaseVars
<1>5. QED
  BY <1>1, <1>2, <1>3, <1>4 DEF ReleaseNext

LEMMA ShownStep ==
  ASSUME ServiceInv, ShownInv, [ReleaseNext]_releaseVars
  PROVE  ServiceInv' /\ ShownInv'
<1>1. CASE Serve
  <2>1. /\ ServiceInv' /\ traces \subseteq traces' /\ variant' = variant
        /\ \A r \in traces : handler'[r].started = handler[r].started
    BY <1>1, ServeKeeps
  <2>2. visible' = visible /\ check' = check
    BY <1>1 DEF Serve, vars
  <2>3. \A r : Value(r)' = Value(r)
    BY <2>1, <2>2 DEF Value, Service!TelemetryAttributes
  <2>4. QED
    BY <2>1, <2>2, <2>3 DEF ShownInv
<1>2. CASE Apart /\ ~Serve
  <2>1. ServiceInv'
    BY <1>2 DEF Apart, ServiceInv
  <2>2. \A r : Value(r)' = Value(r)
    BY <1>2 DEF Apart, Value, Service!TelemetryAttributes
  <2>3. CASE visible' = visible
    BY <1>2, <2>1, <2>2, <2>3 DEF Apart, ShownInv
  <2>4. CASE Show
    <3>1. PICK r \in traces :
            visible' = visible \cup {[id |-> r, at |-> handler[r].started,
                                      value |-> Value(r)]}
      BY <2>4 DEF Show, Ingest
    <3>2. QED
      BY <1>2, <2>1, <2>2, <3>1 DEF Apart, ShownInv
  <2>5. CASE (Loop \/ Answer \/ Tick \/ DiscoverField \/ Cancel \/ Stopped)
    <3>1. visible' = visible
      BY <2>5
      DEF Loop, Answer, Tick, DiscoverField, Cancel, Stopped, vars, env,
          WindowTooShort, AwaitWindow, StartRound, BaseReceived, BaseFailed,
          RequirementObserved, FieldMissing, RequiredFailed, DeadlineReached,
          PollAgain, TimerFires, WaitCanceled, Finish, Sleep,
          BaseAnswered, RequiredAnswered
    <3>2. QED
      BY <2>3, <3>1
  <2>6. CASE UNCHANGED releaseVars
    BY <2>3, <2>6 DEF releaseVars, vars
  <2>7. QED
    BY <1>2, <2>4, <2>5, <2>6 DEF ReleaseNext
<1>3. QED
  BY <1>1, <1>2 DEF ReleaseNext, Show, releaseVars, Apart

----------------------------------------------------------------------------
\* The answers of a round.

\* What a server that keeps to the window has to count.
Asked == InPoints(Returned(queryEnd, TRUE), queryEnd)

\* The base count is one of spans that are still shown; the second query was
\* answered from no fewer spans, each of which counts what its request was.
AnswerInv ==
  /\ pc \in {"baseReply", "requiredQuery", "requiredReply"} =>
       baseCount <= Cardinality(Asked)
  /\ pc = "requiredReply" /\ reply.kind = "count" =>
       IF check = "cart.value" /\ variant = "broken"
       THEN reply.count = 0
       ELSE baseCount >= Minimum => reply.count >= RequiredMatches

LEMMA AskedIsFinite ==
  ASSUME TypeOK
  PROVE  /\ IsFiniteSet(Asked) /\ Asked \subseteq visible
         /\ Cardinality(Asked) \in Nat
<1>1. Asked \subseteq visible
  BY DEF Asked, InPoints, Returned
<1>2. QED
  BY <1>1, FS_Subset, FS_CardinalityType DEF TypeOK

LEMMA UndividedTotal ==
  ASSUME NEW spans, Total(spans) \in Nat
  PROVE  Truncated(spans) = Total(spans)
BY DEF Truncated

\* Nothing is summed up where no span has the attribute.
LEMMA NothingToSum ==
  ASSUME NEW spans, \A s \in spans : s.value = 0
  PROVE  Truncated(spans) = 0
<1>1. {p \in spans \X (1..MaxValue) : p[2] <= p[1].value} = {}
  OBVIOUS
<1>2. Total(spans) = 0
  BY <1>1, FS_EmptySet DEF Total
<1>3. QED
  BY <1>2, UndividedTotal

\* Spans that count at least one each sum up to their number or more.
LEMMA SumOfOnes ==
  ASSUME NEW spans, IsFiniteSet(spans),
         \A s \in spans : s.value \in Nat /\ s.value >= 1
  PROVE  Cardinality(spans) <= Truncated(spans)
<1> DEFINE Units == {p \in spans \X (1..MaxValue) : p[2] <= p[1].value}
           First == [s \in spans |-> <<s, 1>>]
<1>1. IsFiniteSet(Units)
  <2>1. IsFiniteSet(1..MaxValue)
    <3>1. 1 \in Int /\ MaxValue \in Int
      OBVIOUS
    <3>2. QED
      BY ONLY <3>1, FS_Interval
  <2>2. IsFiniteSet(spans \X (1..MaxValue))
    BY ONLY IsFiniteSet(spans), <2>1, FS_Product
  <2>3. QED
    BY <2>2, FS_Subset
<1>2. First \in Injection(spans, Units)
  <2>1. \A s \in spans : <<s, 1>> \in Units
    OBVIOUS
  <2>2. First \in [spans -> Units]
    BY <2>1
  <2>3. \A s, t \in spans : First[s] = First[t] => s = t
    OBVIOUS
  <2>4. QED
    BY <2>2, <2>3, Fun_IsInj
<1>3. Cardinality(spans) <= Cardinality(Units)
  BY <1>1, <1>2, FS_Injection
<1>4. Total(spans) = Cardinality(Units) /\ Total(spans) \in Nat
  BY <1>1, FS_CardinalityType DEF Total
<1>5. QED
  BY <1>3, <1>4, UndividedTotal

\* One span of a full value sums up to that value.
LEMMA SumOfOne ==
  ASSUME NEW spans, IsFiniteSet(spans), NEW s \in spans, s.value = MaxValue
  PROVE  MaxValue <= Truncated(spans)
<1> DEFINE Units == {p \in spans \X (1..MaxValue) : p[2] <= p[1].value}
           Own == {s} \X (1..MaxValue)
<1>1. /\ IsFiniteSet(1..MaxValue) /\ Cardinality(1..MaxValue) = MaxValue
  <2>1. 1 \in Int /\ MaxValue \in Int
    OBVIOUS
  <2>2. /\ IsFiniteSet(1..MaxValue)
        /\ Cardinality(1..MaxValue) =
             IF 1 > MaxValue THEN 0 ELSE MaxValue - 1 + 1
    BY ONLY <2>1, FS_Interval
  <2>3. QED
    BY <2>2
<1>2. /\ IsFiniteSet({s}) /\ Cardinality({s}) = 1
  BY FS_Singleton
<1>3. Cardinality(Own) = 1 * MaxValue
  BY ONLY <1>1, <1>2, FS_Product
<1>4. IsFiniteSet(Units)
  <2>1. IsFiniteSet(spans \X (1..MaxValue))
    BY ONLY IsFiniteSet(spans), <1>1, FS_Product
  <2>2. QED
    BY <2>1, FS_Subset
<1>5. Own \subseteq Units
  OBVIOUS
<1>6. /\ Cardinality(Own) <= Cardinality(Units)
      /\ Total(spans) = Cardinality(Units) /\ Total(spans) \in Nat
  BY <1>4, <1>5, CountMonotone DEF Total
<1>7. QED
  BY <1>3, <1>6, UndividedTotal

\* The sum over what was asked for tells the releases apart.
LEMMA SumTells ==
  ASSUME TypeOK, ServiceInv, ShownInv
  PROVE  /\ Truncated(Asked) \in Nat
         /\ IF check = "cart.value" /\ variant = "broken"
            THEN Truncated(Asked) = 0
            ELSE Cardinality(Asked) >= Minimum =>
                   Truncated(Asked) >= RequiredMatches
<1>1. /\ IsFiniteSet(Asked) /\ Asked \subseteq visible
      /\ Cardinality(Asked) \in Nat
  BY AskedIsFinite
<1>2. Truncated(Asked) \in Nat
  BY <1>1, SubsetTotal
<1>3. CASE check = "cart.value" /\ variant = "broken"
  <2>1. \A r : Value(r) = 0
    BY <1>3 DEF Value, Service!TelemetryAttributes
  <2>2. \A s \in Asked : s.value = 0
    BY <1>1, <2>1 DEF ShownInv
  <2>3. QED
    BY <1>2, <1>3, <2>2, NothingToSum
<1>4. CASE check = "cart.value" /\ variant = "healthy"
  <2> SUFFICES ASSUME Cardinality(Asked) >= Minimum
               PROVE  Truncated(Asked) >= RequiredMatches
    BY <1>2, <1>4
  <2>1. \A r : Value(r) = MaxValue
    BY <1>4 DEF Value, Service!TelemetryAttributes
  <2>2. PICK s \in Asked : TRUE
    BY <1>1, FS_EmptySet
  <2>3. s.value = MaxValue
    BY <1>1, <2>1, <2>2 DEF ShownInv
  <2>4. MaxValue <= Truncated(Asked)
    BY <1>1, <2>3, SumOfOne
  <2>5. QED
    BY <1>2, <2>4
<1>5. CASE check = "payment.authorize"
  <2>1. \A r : Value(r) = 1
    BY <1>5 DEF Value
  <2>2. \A s \in Asked : s.value \in Nat /\ s.value >= 1
    BY <1>1, <2>1 DEF ShownInv
  <2>3. Cardinality(Asked) <= Truncated(Asked)
    BY <1>1, <2>2, SumOfOnes
  <2>4. QED
    BY <1>1, <1>2, <1>5, <2>3
<1>6. QED
  BY <1>3, <1>4, <1>5 DEF ServiceInv

----------------------------------------------------------------------------
\* The verdict is about the release.

\* The requests that were accepted in the window of the round.
Served == {r \in traces : /\ handler[r].started >= Start
                          /\ handler[r].started <= queryEnd}

LEMMA CountedAreServed ==
  ASSUME TypeOK, ServiceInv, ShownInv
  PROVE  /\ Cardinality(Asked) <= Cardinality(Served)
         /\ Cardinality(Served) \in Nat
<1> DEFINE Request == [s \in Asked |-> s.id]
<1>1. IsFiniteSet(Served) /\ Cardinality(Served) \in Nat
  BY FS_Subset, FS_CardinalityType DEF Served, ServiceInv
<1>2. \A s \in Asked : /\ s \in Span /\ s.id \in traces
                       /\ s.at = handler[s.id].started
                       /\ s.value = Value(s.id)
                       /\ Start <= s.at /\ s.at <= queryEnd
  BY DEF Asked, InPoints, Returned, ShownInv, TypeOK
<1>3. Request \in Injection(Asked, Served)
  <2>1. Request \in [Asked -> Served]
    BY <1>2 DEF Served
  <2>2. \A s, t \in Asked : Request[s] = Request[t] => s = t
    BY <1>2 DEF Span
  <2>3. QED
    BY <2>1, <2>2, Fun_IsInj
<1>4. QED
  BY <1>1, <1>3, FS_Injection

\* More spans are shown, the window stays the same: the counts still hold.
LEMMA AskedGrows ==
  ASSUME TypeOK, TypeOK', visible \subseteq visible', queryEnd' = queryEnd
  PROVE  Cardinality(Asked) <= Cardinality(Asked')
<1>1. Asked \subseteq Asked'
  BY DEF Asked, InPoints, Returned
<1>2. IsFiniteSet(Asked')
  <2>1. Asked' \subseteq visible'
    BY DEF Asked, InPoints, Returned
  <2>2. QED
    BY <2>1, FS_Subset DEF TypeOK
<1>3. QED
  BY <1>1, <1>2, CountMonotone

LEMMA AnswerKept ==
  ASSUME TypeOK, TypeOK', AnswerInv, visible \subseteq visible',
         check' = check, variant' = variant,
         pc' = pc \/ pc' \in {"poll", "waiting"},
         queryEnd' = queryEnd, baseCount' = baseCount, reply' = reply
  PROVE  AnswerInv'
<1>1. /\ Cardinality(Asked) <= Cardinality(Asked')
      /\ Cardinality(Asked) \in Nat /\ Cardinality(Asked') \in Nat
  <2>1. Cardinality(Asked)' \in Nat
    <3>1. Asked' \subseteq visible'
      BY DEF Asked, InPoints, Returned
    <3>2. QED
      BY <3>1, FS_Subset, FS_CardinalityType DEF TypeOK
  <2>2. QED
    BY <2>1, AskedGrows, AskedIsFinite
<1>2. QED
  BY <1>1 DEF AnswerInv, TypeOK

LEMMA AnswerStep ==
  ASSUME TypeOK, TypeOK', ServiceInv, ShownInv, AnswerInv,
         [ReleaseNext]_releaseVars
  PROVE  AnswerInv'
<1>1. CASE Serve
  <2>1. UNCHANGED <<vars, check>> /\ variant' = variant
    BY <1>1, ServeKeeps DEF Serve
  <2>2. QED
    BY <2>1, AnswerKept DEF vars
<1>2. CASE Show
  BY <1>2, AnswerKept DEF Show, Apart, Ingest
<1>3. CASE UNCHANGED releaseVars
  BY <1>3, AnswerKept DEF releaseVars, vars
<1>4. CASE BaseAnswered /\ Answer /\ Apart
  <2>1. /\ baseCount' = Cardinality(Asked) /\ pc' = "baseReply"
        /\ visible' = visible /\ queryEnd' = queryEnd
    BY <1>4
    DEF Answer, BaseAnswered, RequiredAnswered, env, TraceCount, Asked
  <2>2. Asked' = Asked
    BY <2>1 DEF Asked, InPoints, Returned
  <2>3. Cardinality(Asked) \in Nat
    BY AskedIsFinite
  <2>4. QED
    BY <2>1, <2>2, <2>3 DEF AnswerInv
<1>5. CASE RequiredAnswered /\ Answer /\ Apart
  <2>1. /\ pc = "requiredQuery" /\ pc' = "requiredReply"
        /\ UNCHANGED <<visible, queryEnd, baseCount, check, variant>>
        /\ reply' = MissingField \/ reply' = Counted(Truncated(Asked))
    BY <1>5
    DEF Answer, BaseAnswered, RequiredAnswered, Apart, env, TraceSum, Asked
  <2>2. Asked' = Asked
    BY <2>1 DEF Asked, InPoints, Returned
  <2>3. baseCount <= Cardinality(Asked)
    BY <2>1 DEF AnswerInv
  <2>4. /\ baseCount \in Nat /\ Cardinality(Asked) \in Nat
    BY AskedIsFinite DEF TypeOK
  <2>5. CASE reply' = MissingField
    BY <2>1, <2>2, <2>3, <2>5 DEF AnswerInv, MissingField
  <2>6. CASE reply' = Counted(Truncated(Asked))
    <3>1. reply'.count = Truncated(Asked)
      BY <2>6 DEF Counted
    <3>2. IF check = "cart.value" /\ variant = "broken"
          THEN reply'.count = 0
          ELSE baseCount >= Minimum => reply'.count >= RequiredMatches
      BY <2>3, <2>4, <3>1, SumTells
    <3>3. QED
      BY <2>1, <2>2, <2>3, <3>2 DEF AnswerInv
  <2>7. QED
    BY <2>1, <2>5, <2>6
<1>6. CASE (Loop \/ Tick \/ DiscoverField \/ Cancel \/ Stopped) /\ Apart
  <2>1. CASE StartRound
    BY <2>1 DEF StartRound, AnswerInv
  <2>2. CASE BaseReceived
    <3>1. /\ pc = "baseReply" /\ pc' = "requiredQuery"
          /\ UNCHANGED <<visible, queryEnd, baseCount>>
      BY <2>2 DEF BaseReceived, env
    <3>2. Asked' = Asked
      BY <3>1 DEF Asked, InPoints, Returned
    <3>3. QED
      BY <3>1, <3>2 DEF AnswerInv
  <2>3. CASE \/ Tick \/ DiscoverField \/ Cancel \/ Stopped
             \/ AwaitWindow \/ PollAgain \/ TimerFires
    BY <1>6, <2>3, AnswerKept
    DEF Tick, DiscoverField, Cancel, Stopped, AwaitWindow, PollAgain,
        TimerFires, Sleep, Apart, env, vars
  <2>4. CASE \/ WindowTooShort \/ BaseFailed \/ RequirementObserved
             \/ FieldMissing \/ RequiredFailed \/ DeadlineReached
             \/ WaitCanceled
    <3>1. pc' = "done"
      BY <2>4
      DEF WindowTooShort, BaseFailed, RequirementObserved, FieldMissing,
          RequiredFailed, DeadlineReached, WaitCanceled, Finish
    <3>2. QED
      BY <3>1 DEF AnswerInv
  <2>5. QED
    BY <1>6, <2>1, <2>2, <2>3, <2>4 DEF Loop
<1>7. QED
  BY <1>1, <1>2, <1>3, <1>4, <1>5, <1>6 DEF ReleaseNext, Answer

\* Once decided, nothing moves.
LEMMA DecidedStays ==
  ASSUME pc = "done", [ReleaseNext]_releaseVars
  PROVE  UNCHANGED <<pc, verdict, round, check, variant, traces, handler,
                     queryEnd>>
BY DEF ReleaseNext, releaseVars, Loop, Answer, Tick, DiscoverField, Cancel,
       Stopped, Serve, Show, Apart, vars, Ingest, Blocked,
       WindowTooShort, AwaitWindow, StartRound, BaseReceived, BaseFailed,
       RequirementObserved, FieldMissing, RequiredFailed, Received,
       DeadlineReached, PollAgain, TimerFires, WaitCanceled,
       BaseAnswered, RequiredAnswered

LEMMA JudgedStep ==
  ASSUME TypeOK, TypeOK', CountInv, CountInv', RoundInv,
         ServiceInv, ShownInv, AnswerInv, ReleaseIsJudged,
         [ReleaseNext]_releaseVars
  PROVE  ReleaseIsJudged'
<1>1. CASE pc' # "done"
  BY <1>1 DEF CountInv, Undecided, ReleaseIsJudged
<1>2. CASE pc = "done"
  BY <1>2, DecidedStays DEF ReleaseIsJudged
<1>3. CASE pc # "done" /\ pc' = "done"
  <2>1. Loop /\ Apart
    BY <1>3
    DEF ReleaseNext, releaseVars, Answer, BaseAnswered, RequiredAnswered,
        Tick, DiscoverField, Cancel, Stopped, Serve, Show, Ingest, vars, env
  <2>2. CASE RequirementObserved
    <3>1. /\ verdict'.state = "PASS"
          /\ pc = "requiredReply" /\ reply.kind = "count"
          /\ baseCount >= Minimum /\ reply.count >= RequiredMatches
          /\ UNCHANGED <<check, variant, traces, handler, queryEnd, round>>
      BY <2>1, <2>2
      DEF RequirementObserved, Received, Satisfied, Sufficient, Finish,
          Decided, Apart
    <3>2. baseCount <= Cardinality(Asked) /\ baseCount \in Nat
      BY <3>1 DEF AnswerInv, TypeOK
    <3>3. Cardinality(Served) >= Minimum
      BY <3>1, <3>2, CountedAreServed, AskedIsFinite
    <3>4. check = "cart.value" => variant = "healthy"
      BY <3>1 DEF AnswerInv, ServiceInv
    <3>5. QED
      BY <3>1, <3>3, <3>4 DEF ReleaseIsJudged, Served
  <2>3. CASE FieldMissing
    <3>1. /\ verdict'.state = "FAIL" /\ pc = "requiredReply"
          /\ reply.kind = "missing" /\ round' = round
      BY <2>3 DEF FieldMissing, Received, Finish, Decided
    <3>2. QED
      BY <3>1 DEF RoundInv, ReleaseIsJudged
  <2>4. CASE DeadlineReached /\ Sufficient
    <3>1. /\ verdict'.state = "FAIL"
          /\ pc = "requiredReply" /\ reply.kind = "count"
          /\ baseCount >= Minimum /\ ~(reply.count >= RequiredMatches)
          /\ UNCHANGED <<check, variant>>
      BY <2>1, <2>4
      DEF DeadlineReached, Received, Satisfied, Sufficient, Finish, Decided,
          Apart
    <3>2. check = "cart.value" /\ variant = "broken"
      BY <3>1 DEF AnswerInv
    <3>3. QED
      BY <3>1, <3>2 DEF ReleaseIsJudged
  <2>5. CASE \/ WindowTooShort \/ BaseFailed \/ RequiredFailed
             \/ DeadlineReached /\ ~Sufficient
             \/ WaitCanceled
    <3>1. verdict'.state = "INCONCLUSIVE"
      BY <2>5
      DEF WindowTooShort, BaseFailed, RequiredFailed, DeadlineReached,
          WaitCanceled, Finish, Decided
    <3>2. QED
      BY <3>1 DEF ReleaseIsJudged
  <2>6. QED
    BY <1>3, <2>1, <2>2, <2>3, <2>4, <2>5
    DEF Loop, AwaitWindow, StartRound, BaseReceived, PollAgain, TimerFires,
        Sleep
<1>4. QED
  BY <1>1, <1>2, <1>3

\* The verdict of a check is about its release, whatever the export of its
\* telemetry leaves out or delays (checkout, emit, pollTelemetry).
THEOREM VerdictIsAboutRelease == ReleaseSpec => []ReleaseIsJudged
<1>1. ReleaseInit => /\ Init /\ ServiceInv /\ ShownInv /\ AnswerInv
                     /\ ReleaseIsJudged /\ TypeOK /\ CountInv
                     /\ PassIsWitnessed /\ RoundInv /\ FailIsGrounded
  <2> SUFFICES ASSUME ReleaseInit
               PROVE  /\ Init /\ ServiceInv /\ ShownInv /\ AnswerInv
                      /\ ReleaseIsJudged /\ TypeOK /\ CountInv
                      /\ PassIsWitnessed /\ RoundInv /\ FailIsGrounded
    OBVIOUS
  <2>1. Init /\ TypeOK
    BY TypeInit DEF ReleaseInit
  <2>2. ServiceInv
    BY DEF ReleaseInit, Service!Init, ServiceInv, Places
  <2>3. QED
    BY <2>1, <2>2
    DEF Init, Undecided, ShownInv, AnswerInv, ReleaseIsJudged, CountInv,
        PassIsWitnessed, RoundInv, FailIsGrounded
<1>2. TypeOK /\ CountInv /\ PassIsWitnessed /\ RoundInv /\ FailIsGrounded
        /\ [Next]_vars
      => TypeOK' /\ CountInv' /\ PassIsWitnessed' /\ RoundInv'
         /\ FailIsGrounded'
  BY TypeStep, CountStep, RoundStep
<1>3. ServiceInv /\ [ReleaseNext]_releaseVars => [Next]_vars
  BY StepIsPolled
<1>4. ServiceInv /\ ShownInv /\ [ReleaseNext]_releaseVars
        => ServiceInv' /\ ShownInv'
  BY ShownStep
<1>5. TypeOK /\ TypeOK' /\ ServiceInv /\ ShownInv /\ AnswerInv
        /\ [ReleaseNext]_releaseVars => AnswerInv'
  BY AnswerStep
<1>6. TypeOK /\ TypeOK' /\ CountInv /\ CountInv' /\ RoundInv /\ ServiceInv
        /\ ShownInv /\ AnswerInv /\ ReleaseIsJudged
        /\ [ReleaseNext]_releaseVars => ReleaseIsJudged'
  BY JudgedStep
<1>7. QED
  BY <1>1, <1>2, <1>3, <1>4, <1>5, <1>6, PTL DEF ReleaseSpec
=============================================================================
