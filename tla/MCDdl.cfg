CONSTANTS
  Worker = {w1, w2}
  Configs <- AllConfigs
SYMMETRY Symmetry
SPECIFICATION Spec
INVARIANTS
  NoDriftWithoutClash
  NoDanglingRefs
  LimitsHold
