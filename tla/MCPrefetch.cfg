CONSTANTS
  K = 2
  NumNodes = 4
  Ef <- MCEf
  Bounds <- MCBounds
  PublishEvery = 2
  Window = 2
  Chunk = 2
  Faults = {"decoder", "spawn", "read"}
SPECIFICATION Spec
INVARIANTS
  TypeOK
  AheadBounded
  ReturnsWholeScan
PROPERTY HydrateReturns
