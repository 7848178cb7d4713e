CONSTANTS
  NumNodes = 6
  NodeType <- MCNodeType
  Succ <- MCSucc
  Labels <- MCLabels
  Fid = {0, 1}
SPECIFICATION MCSpec
INVARIANTS
  TypeOK
  WalksHydrated
  OkIffDirect
  StatusFaithful
