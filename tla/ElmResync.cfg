SPECIFICATION Spec
CONSTANTS
  Protocols <- OneProtocol
  ChanCap = 2
  ResyncMayFail = TRUE
  MayBreak = FALSE
  Kinds = {"set"}
  MaxCommands = 3
  MaxAlerts = 0
INVARIANT
  OwnAnswer
CHECK_DEADLOCK FALSE
