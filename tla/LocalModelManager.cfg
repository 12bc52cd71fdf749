SPECIFICATION ModelFairSpec
CONSTANTS
  gpu = gpu
  cpu = cpu
  cpuLarge = cpuLarge
  Models <- MCModels
  LengthOf <- MCLengthOf
  MinSize = 2
  MaxPushes = 2
  MaxFaults = 2
  Null = Null
INVARIANTS
  ModelTypeOK
  LoadedAsStaged
PROPERTIES
  Heals
  StartEnds
CHECK_DEADLOCK FALSE
