SPECIFICATION DiscoverySpec
CONSTANTS Configs <- AllConfigs
INVARIANTS
  Faithful
  VerdictTruthful
CHECK_DEADLOCK FALSE
