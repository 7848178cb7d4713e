CONSTANTS
  FileBatches <- MCFileBatches
  SeedRows = {3, 4, 5}
  Bins = {"a", "b", "c"}
  BinOf <- MCBinOf
  OutputBatch = 2
  MaxRuns = 2
  Leaf <- MCLeaf
  NoLeaf = "none"
  PathOrder <- MCPathOrder
  ReadSize = 2
  SampleSizes = {1, 3, 9}
SPECIFICATION VerifySpec
INVARIANTS
  VerifyTypeOK
  InBounds
  RowsAccounted
  OkMeansComplete
  SampleExact
  ShortPassCovers
  NoFalseAlarm
