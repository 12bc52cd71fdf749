CONSTANTS
  NSeqs = 2
  Size = 4
  NUbatch = 3
  Windows = {0,2}
  Lengths = {2, 3}
  Ranges <- MCRanges
  Deltas <- MCDeltas
  Divisors = {2}
  MaxCalls = 2
  MaxDecodes = 2
SPECIFICATION Spec

  
PROPERTIES
  DecodeMakesNoHole
  WindowPresent
  ImplementsSeqMemory
CHECK_DEADLOCK FALSE
