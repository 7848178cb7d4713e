CONSTANTS
  NumNodes = 14
  NodeType <- MCNodeType
  Succ <- MCSucc
  Hash <- MCHash
  HashLen = 2
  PrefixNibbles = 1
  Rows = {1, 2}
  Repos <- MCRepos
  OriginOf <- MCOriginOf
  CommitIds <- MCMixedIds
  Shards = {0, 1}
  ShardOf <- MCShardOf
  Cuts <- MCCuts
SPECIFICATION Spec
INVARIANT WinnerBelongsToRepo
