SPECIFICATION Spec
CONSTANTS
  Configs <- PgNode
  MaxSessions = 3
  MaxCalls = 3
INVARIANTS PollStartRelaunches
CHECK_DEADLOCK FALSE
