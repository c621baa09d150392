SPECIFICATION Spec
CONSTANTS
  Port = {p1, p2, p3}
  None = None
  MaxFrames = 2
SYMMETRY Symmetry
INVARIANTS
  TypeOK
  NoLostWakeup
  SameOrder
  NothingLost
  ClosedIsSilent
PROPERTY
  ImplementsOrderedBroadcast
