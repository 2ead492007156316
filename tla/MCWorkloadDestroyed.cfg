SPECIFICATION Spec
CONSTANTS
  NumWorkers = 2
  Repeat = 1
  NoOne = NoOne
  MaxCycles = 1
  MaxActions = 1
  MaxInterrupts = 0
  MaxCollections = 1
  MaxRestarts = 0
INVARIANTS NoDeadlock
CHECK_DEADLOCK FALSE
