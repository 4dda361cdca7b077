SPECIFICATION Spec
CONSTANTS
  Root = "root"
  None = "none"
  TrashId = {"t", "u"}
  Process = {"trasher", "keeper", "cleaner"}
  Dir <- MCDir
  File <- MCFile
  Name <- MCName
  ShardOf <- MCShardOf
  Tree <- MCTree
  Request <- MCRequest
CHECK_DEADLOCK FALSE
PROPERTY ClaimBlocksRestore
