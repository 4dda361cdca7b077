SPECIFICATION FairSpec
CONSTANTS
  Slot = {"r1", "r2"}
  Worker = {"w1"}
  None = "none"
  MaxTrouble = 1
CHECK_DEADLOCK FALSE
INVARIANT PageInv
PROPERTY ShownIsFresh
PROPERTY StepsForward
PROPERTY OutcomeKept
PROPERTY StartingEnds
PROPERTY BusyIsWatched
