SPECIFICATION Spec
CONSTANTS
  NumProcesses = 2
  Specs <- DenseSpecs
  Algorithms <- AllAlgorithms
  Slices = 1
  MaxCreation = 1
  MaxWork = 2
PROPERTY DispatchesAsDocumented
