SPECIFICATION ApartSpec
CONSTANTS
  Root = "root"
  None = "none"
  TrashId = {"t", "u"}
  Process = {"writer", "mover", "trasher", "keeper", "cleaner"}
  Dir <- MCDir
  File <- MCFile
  Name <- MCName
  ShardOf <- MCShardOf
  Tree <- MCTree
  Request <- MCRequest
CHECK_DEADLOCK FALSE
INVARIANT NamespaceInv
INVARIANT NoOrphan
INVARIANT LiveIntact
PROPERTY AddedToLive
PROPERTY NothingOverwritten
