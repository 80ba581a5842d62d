SPECIFICATION ThreadsSpec
CONSTANTS
  ALIGN = 2
  HDR = 2
  PAGE = 12
  SizeMod = 256
  IntMax = 127
  Bases = {12, 24}
  AddrLimit = 36
  Requests = {2}
  Members = {}
  Algorithms = {"first_fit"}
  MaxAllocations = 4
  Threads = {t1, t2}
INVARIANT ThreadsShareNothing
CHECK_DEADLOCK FALSE
