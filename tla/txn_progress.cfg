SPECIFICATION FairSpec
CONSTANTS
  Tx = {"a", "c"}
  NoTx = "nobody"
  Faults = {"stall"}
  Key <- MCKey
  Resource <- MCKey
  Rename <- MCRename
  Fenced <- MCFenced
  Parts <- MCParts
  Needs <- MCNeeds
CHECK_DEADLOCK FALSE
PROPERTY LeaseWaitEnds
PROPERTY ManifestsDrain
