CONSTANTS
  NThreads = 3
  Plans <- MCPlans
  ChunksPerThread = 2
  GraphIds = 4
  MaxGraphs = 2
  MaxPauses = 1
SPECIFICATION Spec
INVARIANTS
  PartsInOrder
  ResultIsWholeNodes
  QuietBetweenGraphs
PROPERTY
  CallsReturn
CHECK_DEADLOCK FALSE
