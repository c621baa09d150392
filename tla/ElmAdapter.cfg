SPECIFICATION FairSpec
CONSTANTS
  Protocols <- MCProtocols
  ChanCap = 2
  ResyncMayFail = FALSE
  MayBreak = TRUE
  Kinds = {"obd", "set"}
  MaxCommands = 4
  MaxAlerts = 1
INVARIANTS
  OwnAnswer
  OneCommandAtATime
  ParsedWithItsProtocol
PROPERTY
  CallReturns
CHECK_DEADLOCK FALSE
