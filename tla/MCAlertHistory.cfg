SPECIFICATION Spec
CONSTANTS
  MaxPages = 3
  PageSize = 2
  MaxEvents = 7
  Statuses = {200, 404, 500}
  WildCursors = {0, 2, 3, 5}
  Events <- MCEvents
INVARIANTS TypeOK QuietMeansWholeHistory GuardsSpareHonestServers RunawayIsBounded
