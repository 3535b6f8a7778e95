SPECIFICATION Spec
CONSTANTS
  Spans = {s1}
  Events = {e1}
  SpanTimes = {1, 3}
  EventTimes = {0, 4, 6}
  LaunchTimes = {1, 8}
  FaultInjectedAt = 2
  AlertTimeout = 5
  RunEnds = {3, 8}
  PollInterval = 2
  QueryTimeout = 2
  MinimumQueryWindow = 2
  Step = 2
INVARIANT FailCoversWindow
