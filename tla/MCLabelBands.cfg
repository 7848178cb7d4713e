CONSTANTS
  NumNodes = 4
  Offsets <- MCOffsets
  KArgs = {0, 1, 2, 3, 4, 5}
SPECIFICATION Spec
INVARIANTS
  TypeOK
  SearchExact
  BandsPartition
  BandsBalanced
PROPERTIES
  RepairIsNoOp
  BandsComputed
