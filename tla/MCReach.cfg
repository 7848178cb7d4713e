CONSTANTS
  NumNodes = 8
  NodeType <- MCNodeType
  Succ <- MCSucc
  Roots <- MCRoots
  WordBits = 3
SPECIFICATION Spec
INVARIANTS
  TypeOK
  ExploredOnce
  NoLostSubtree
  ReachedExact
PROPERTY ImplementsReachSpec
