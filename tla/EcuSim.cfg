SPECIFICATION Spec
CONSTANTS
  e1 = e1
  e2 = e2
  t1 = t1
  t2 = t2
  Ecu = {e1, e2}
  Tester = {t1, t2}
  Everyone = Everyone
  Worlds <- MCWorlds
  SeqNumbers = 16
  BlockSize = 1
INVARIANTS
  CallsAnswered
  NothingMixed
PROPERTY
  KeepsServing
CHECK_DEADLOCK FALSE
