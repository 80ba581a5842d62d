SPECIFICATION FairSpec
CONSTANTS
  c1 = c1
  c2 = c2
  Clients = {c1, c2}
  Requests <- ClientRequests
  Names <- SomeNames
  Directories <- SomeDirectories
  Index <- SomeIndex
  MaxProcs = 2
  MaxSize = 1
  MaxChanges = 1
CHECK_DEADLOCK FALSE
INVARIANTS
  TypeOK
  OneServer
PROPERTIES
  AnswersWhole
  ConnectionsEnd
