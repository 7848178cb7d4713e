CONSTANTS
  NumNodes = 6
  NodeType <- MCNodeType
  Succ <- MCSucc
  Labels <- MCLabels
  Fid = {0, 1, 2, 3, 4}
  Files <- MCFiles
  ColumnSets <- MCColumnSets
  NodeOfRev <- MCNodeOfRev
  NormalizeRevId <- MCNormalizeRevId
  BatchRows = 2
  Threads = 2
  NLabels = 5
  Chunk = 2
  Name <- MCName
  LabelName <- MCLabelName
SPECIFICATION Spec
INVARIANTS
  TypeOK
  RequestedMatchesMap
  NamesExact
  SeedsAligned
PROPERTY
  ImplementsResolverSpec
