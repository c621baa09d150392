SPECIFICATION FairSpec
CONSTANTS
  Port = {p1, p2}
  None = None
  MaxFrames = 2
PROPERTIES
  ReceiveReturns
  SendReturns
