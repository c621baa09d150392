SPECIFICATION FairSpec
CONSTANTS
  a = a
  b = b
  Node <- MCNode
  Senders = {a}
  Lengths = {7, 8, 27, 41, 48}
  BlockSize = 2
  SeqNumbers = 4
  Calm = {TRUE, FALSE}
  MaxWait = 1
  Strays <- MCStrays
  MaxMessages = 1
  MaxCalm = 3
  MaxStrays = 0
  MaxFaults = 3
INVARIANTS
  Integrity
  BlockSizeRespected
PROPERTIES
  CallsEnd
  AllDelivered
CHECK_DEADLOCK FALSE
