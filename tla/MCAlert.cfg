SPECIFICATION FairSpec
CONSTANTS
  Spans = {s1}
  Events = {e1, e2}
  SpanTimes = {1, 3}
  EventTimes = {0, 2, 4, 6}
  LaunchTimes = {1, 8}
  FaultInjectedAt = 2
  AlertTimeout = 5
  RunEnds = {3, 6, 8}
  PollInterval = 2
  QueryTimeout = 1
  MinimumQueryWindow = 2
  Step = 2
INVARIANTS TypeOK PassIsWitnessed FailIsGrounded StaleIsNotAMiss Bounded
PROPERTIES ImplementsCheck Terminates
