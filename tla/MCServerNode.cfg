SPECIFICATION Spec
CONSTANTS
  Configs <- AllConfigs
  MaxSessions = 3
  MaxCalls = 4
INVARIANTS TypeOK SessionsAccounted OutcomesTruthful NoServerLeftBehind AnsweredByOurs
PROPERTIES CallsReturn
CHECK_DEADLOCK FALSE
