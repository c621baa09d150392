SPECIFICATION Spec
CONSTANTS
  a = a
  b = b
  Node <- MCNode
  Senders = {a, b}
  Lengths = {7, 27}
  BlockSize = 2
  SeqNumbers = 3
  Calm = {FALSE}
  MaxWait = 1
  Strays <- MCStrays
  MaxMessages = 2
  MaxCalm = 0
  MaxStrays = 2
  MaxFaults = 0
SYMMETRY Symmetry
INVARIANTS
  TypeOK
PROPERTY
  ImplementsMessageChannel
