CONSTANTS
  Actor = {a1, a2}
  Name = {n1, n2}
  MaxId = 3
SPECIFICATION Spec
SYMMETRY Symmetry
INVARIANTS
  TypeOK
  SamplingExact
  NamesTruthful
  NoLostUpdate
  NeverResurrected
PROPERTY LastPublishWins
