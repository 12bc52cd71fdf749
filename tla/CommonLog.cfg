CONSTANTS
  Loggers = {l1, l2}
  Capacity = 3
  MaxMessages = 2
  MaxCalls = 2
SPECIFICATION Spec
INVARIANTS
  TypeOK
  PrintedAsAdded
  PausedMeansPrinted
PROPERTY
  DeliversAndReturns
CHECK_DEADLOCK FALSE
