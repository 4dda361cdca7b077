SPECIFICATION MCSpec
CONSTANTS
  Keys = 2
  Path = {"p", "q"}
  Empty = {2}
  Slots = 1
  Lingering <- MCLingering
  MaxRetries = 1
  MaxTrouble = 1
CHECK_DEADLOCK FALSE
INVARIANT QueueInv
INVARIANT NoIdleSlot
INVARIANT BatchesWait
INVARIANT NoForgottenSession
PROPERTY NoBlindReplace
PROPERTY RowsSettle
