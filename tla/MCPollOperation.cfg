SPECIFICATION ReleaseSpec
CONSTANTS
  Spans = {s1, s2}
  Faults = {s2}
  EventTimes = {1, 4, 7}
  LaunchTimes = {1, 4, 8}
  Start = 3
  WindowEnd = 7
  Minimum = 2
  RequiredMatches = 2
  MaxValue = 2
  Unit = 1
  PollInterval = 2
  CompletenessTimeout = 3
  QueryTimeout = 1
  MinimumQueryWindow = 2
  Step = 2
INVARIANT ReleaseIsJudged
PROPERTY Terminates
