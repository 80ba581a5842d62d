SPECIFICATION Spec
CONSTANTS
  ALIGN = 2
  HDR = 2
  PAGE = 12
  SizeMod = 256
  IntMax = 127
  Bases <- PageBases
  AddrLimit = 48
  Requests = {0, 3, 12}
  Members = {1, 4}
  Algorithms <- AllAlgorithms
  MaxAllocations = 4
INVARIANTS
  TypeOK
  RegionsTiled
  RegionsPrintedOnce
  BlocksFit
  NoIdleRegion
  UniqueIds

  
CHECK_DEADLOCK FALSE
