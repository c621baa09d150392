SPECIFICATION Spec
CONSTANTS
  Ecu = {1, 2}
  EcuOrder <- MCEcuOrder
  Width = 3
  Ranges = 3
  Rogue = TRUE
  MayFail = TRUE
  SeqNumbers = 3
  BlockSize = 0
  Tasks = {"open", "info", "dtc", "vin", "did"}
  Vehicles = {"can", "legacy"}
  Profiles <- MCProfiles
  VinParts = 3
  CountMod = 4
  MaxQuirks = 2
INVARIANTS
  CodesReported
  ConfirmedOnce
  ValueWhole
  AnswerWins
  UnionReturned
  OpenedAsConfigured
PROPERTY
  Ends
CHECK_DEADLOCK FALSE
