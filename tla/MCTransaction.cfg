CONSTANT Setups <- AllSetups
SPECIFICATION Spec
INVARIANTS
  CatalogIsDurable
  BufferMirrorsServer
  OutcomesTruthful
  PartialCommitsUnderWay
