SPECIFICATION FairSpec
CONSTANTS
  Slots = 4
  MaxPid = 5
INVARIANTS
  TypeOK
  ForegroundReaped
  ListOrdered
  RunningListed
PROPERTIES
  WaitReturns
CHECK_DEADLOCK FALSE
