SPECIFICATION Spec
CONSTANTS
  NumWorkers = 2
  Repeat = 2
  NoOne = NoOne
  MaxCycles = 2
  MaxActions = 1
  MaxInterrupts = 1
  MaxCollections = 1
  MaxRestarts = 1
INVARIANTS
  TypeOK
  NothingLeftRunning
  ReportsTruthful
  NamesUnique
  FailuresHaveCause
PROPERTY
  CallsReturn
CHECK_DEADLOCK FALSE
