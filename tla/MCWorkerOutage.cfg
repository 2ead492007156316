SPECIFICATION Spec
CONSTANTS
  Registry <- OneAction
  Replacement <- Defaults
  Names = {"a", "b"}
  Weights = {0, 2}
  MaxReconnects = 1
  ConnectorQueries = TRUE
  Edits = FALSE
  Outages = TRUE
  StartTwice = FALSE
  MaxActions = 3
  MaxStatements = 2
  MaxLosses = 2
  MaxEdits = 1
  MaxRuns = 2
INVARIANTS Survives
CHECK_DEADLOCK FALSE
