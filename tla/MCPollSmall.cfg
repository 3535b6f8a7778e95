SPECIFICATION Spec
CONSTANTS
  Spans = {s1, s2}
  EventTimes = {1, 4}
  LaunchTimes = {4, 8}
  Start = 3
  WindowEnd = 7
  Minimum = 2
  RequiredMatches = 1
  MaxValue = 1
  Unit = 2
  PollInterval = 2
  CompletenessTimeout = 3
  QueryTimeout = 1
  MinimumQueryWindow = 2
  Step = 2
INVARIANT FailMeansAbsent
