SPECIFICATION Spec
CONSTANTS
  Tx = {"a", "b"}
  NoTx = "nobody"
  Faults = {}
  Key <- MCKey
  Resource <- MCKey
  Rename <- MCRename
  Fenced <- MCFenced
  Parts <- MCParts
  Needs <- MCNeeds
CHECK_DEADLOCK FALSE
INVARIANT TypeOK
PROPERTY AtomicPublication
PROPERTY NoLostUpdate
