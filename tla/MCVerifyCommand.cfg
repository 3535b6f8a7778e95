SPECIFICATION Spec
CONSTANTS
  NumChecks = 4
  MaxRuns = 2
INVARIANTS TypeOK ExitCodeIsProven ReportAcceptsVerdict PublishedIsWhole
PROPERTY OutputChangesByPublication
