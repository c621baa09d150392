SPECIFICATION Spec
CONSTANTS
  Dir = {"read"}
  Deadlines = {"none", "caller", "protocol"}
  MaxCalls = 1
  MaxFrames = 0
INVARIANT
  CallersDeadlineKept
CHECK_DEADLOCK FALSE
