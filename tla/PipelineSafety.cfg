SPECIFICATION FairSpec
CONSTANTS
  Lines <- SomeLines
  MaxStages = 3
  Capacity = 2
CHECK_DEADLOCK FALSE
INVARIANTS
  TypeOK
  Plumbed
  OneShell
PROPERTIES
  PipelineEnds
