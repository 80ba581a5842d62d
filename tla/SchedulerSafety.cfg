SPECIFICATION Spec
CONSTANTS
  NumProcesses = 3
  Specs <- DenseSpecs
  Algorithms <- AllAlgorithms
  Slices = 2
  MaxCreation = 2
  MaxWork = 2
INVARIANTS
  TypeOK
  RunningIsCurrent
  ArrivalsOnTime
  InterruptPending
  NoFault
  ResumableContexts
  WorkDone
  ArrivalOrder
PROPERTIES
  NoResurrection
  NextIsBest
  RoundRobinProgress
