SPECIFICATION Spec
CONSTANTS
  Tx = {"f", "r", "s"}
  NoTx = "nobody"
  Faults = {"lost_reply"}
  Key <- MCKey
  Resource <- MCKey
  Rename <- MCRename
  Fenced <- MCFenced
  Parts <- MCParts
  Needs <- MCNeeds
CHECK_DEADLOCK FALSE
INVARIANT TxnInv
PROPERTY AtomicPublication
PROPERTY NoLostUpdate
