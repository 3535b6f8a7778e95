SPECIFICATION Spec
CONSTANTS
  Service = 1
  Panels = {2, 3}
  Names = {"quoted"}
  MaxWidgets = 2
  Dashboards <- MCDashboards
  Rules <- MCRules
INVARIANTS TypeOK ContractIsCanonical CollectedIsValid LoadedIsMined VerifiedIsAboutService NothingIsDropped
