SPECIFICATION Spec
CONSTANTS
  g1 = g1
  g2 = g2
  Caller <- MCCaller
  EcuOrder <- MCEcuOrder
  Supports <- MCSupports
  Known <- MCKnown
  Queries <- MCQueries
  MaxBatch = 2
  Vehicles = {"can", "legacy"}
  Combines = TRUE
  Foreign <- MCForeign
  MaxQueries = 3
  MaxQuirks = 2
SYMMETRY Symmetry
INVARIANTS
  NothingForgotten
  InOrder
  SilenceOnly
  LegalRequests
CHECK_DEADLOCK FALSE
