SPECIFICATION Spec
CONSTANTS
  Registry <- OneAction
  Replacement <- Defaults
  Names = {"a", "b"}
  Weights = {0, 2}
  MaxReconnects = 1
  ConnectorQueries = TRUE
  Edits = TRUE
  Outages = TRUE
  StartTwice = TRUE
  MaxActions = 2
  MaxStatements = 1
  MaxLosses = 2
  MaxEdits = 1
  MaxRuns = 2
INVARIANTS
  TypeOK
  StatsComplete
  UtilityUntagged
  EndsHaveCause
  WeightsRespected
PROPERTIES RunEnds
CHECK_DEADLOCK FALSE
