SPECIFICATION Spec
CONSTANTS
  Service = 1
  Panels = {2}
  Names = {"plain", "null", "padded"}
  MaxWidgets = 1
  Dashboards <- MCDashboards
  Rules <- MCRules
INVARIANT LoadedIsMined
