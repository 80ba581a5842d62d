SPECIFICATION Spec
CONSTANTS
  Slots = 3
  MaxPid = 3
INVARIANT JobsShown
CHECK_DEADLOCK FALSE
