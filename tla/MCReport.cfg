SPECIFICATION Spec
CONSTANTS
  Contracts <- MCContracts
  Dashboard <- MCDashboard
  Ids <- MCIds
  Affected <- MCAffected
  MaxChecks = 2
INVARIANTS TypeOK ImpactIsComplete OrderIndependent VerifiedIsReported OutputsFollowExitCode
