SPECIFICATION FairSpec
CONSTANTS
  e1 = e1
  e2 = e2
  Ecu <- MCEcu
  Everyone = Everyone
  Worlds <- MCWorlds
  SeqNumbers = 16
  BlockSize = 0
  Window = 2
  NCr = 2
  PendingTimeout = 3
INVARIANTS
  NobodyMissed
  NoIdleWait
  AnswersAreOwn
PROPERTIES
  ModeSettledByAnswer
  RoundTripReturns
