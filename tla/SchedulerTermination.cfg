SPECIFICATION FairSpec
CONSTANTS
  NumProcesses = 3
  Specs <- EitherSpecs
  Algorithms <- AllAlgorithms
  Slices = 1
  MaxCreation = 1
  MaxWork = 2
INVARIANT LateStartStalls
PROPERTY Termination
CHECK_DEADLOCK FALSE
