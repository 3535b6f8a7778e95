SPECIFICATION Spec
CONSTANTS
  Spans = {s1, s2, s3}
  EventTimes = {1, 3, 4, 6}
  LaunchTimes = {1, 2, 5, 9}
  Start = 3
  WindowEnd = 8
  Minimum = 2
  RequiredMatches = 1
  MaxValue = 1
  Unit = 2
  PollInterval = 2
  CompletenessTimeout = 3
  QueryTimeout = 1
  MinimumQueryWindow = 2
  Step = 2
SYMMETRY SpanSymmetry
INVARIANTS TypeOK PassIsWitnessed FailIsGrounded NoEarlyVerdict Bounded LastRoundIsFresh
PROPERTY ImplementsCheck
