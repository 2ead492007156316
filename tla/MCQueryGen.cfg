SPECIFICATION Spec
CONSTANTS
  Schema <- FourTables
  Configs <- EachPart
INVARIANTS
  RefsResolve
  NestingBounded
  OperandsFit
  ClausesAgree
  TargetNotRead
CHECK_DEADLOCK FALSE
