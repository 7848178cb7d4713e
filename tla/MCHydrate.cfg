CONSTANTS
  NumNodes = 6
  NodeType <- MCNodeType
  Succ <- MCSucc
  Labels <- MCLabels
  Fid = {0, 1, 2}
  K = 3
  SeqThreshold = 1
  MaxDirs = 2
  BitsetSizes = {5, 6}
SPECIFICATION Spec
INVARIANTS
  TypeOK
  StreamSorted
  CsrWellFormed
PROPERTY ImplementsDirMapSpec
