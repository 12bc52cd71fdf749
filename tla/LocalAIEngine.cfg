SPECIFICATION EngineFairSpec
CONSTANT Jobs = {j1, j2, j3}
INVARIANTS
  EngineTypeOK
  StateExactWhenAlone
  NeverMisreported
PROPERTIES
  ImplementsService
  RestsAfterRelease
CHECK_DEADLOCK FALSE
