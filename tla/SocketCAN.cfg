SPECIFICATION FairSpec
CONSTANTS
  Dir = {"read", "write"}
  Deadlines = {"none", "caller"}
  MaxCalls = 2
  MaxFrames = 2
INVARIANTS
  OwnInterruption
  FramesKept
PROPERTY
  CallEnds
CHECK_DEADLOCK FALSE
