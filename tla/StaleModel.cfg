SPECIFICATION ModelSpec
CONSTANTS
  gpu = gpu
  cpu = cpu
  cpuLarge = cpuLarge
  Models <- MCModels
  LengthOf <- MCLengthOf
  MinSize = 2
  MaxPushes = 2
  MaxFaults = 2
  Null = Null
INVARIANT DevelopmentRule
CHECK_DEADLOCK FALSE
