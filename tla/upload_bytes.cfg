SPECIFICATION FairSpec
CONSTANTS
  Id = {"u"}
  Process = {"client", "other", "janitor"}
  Size = 2
  None = "none"
  Old = "old"
  Gone = "gone"
  Drivers = {"local", "gcs"}
  Faults = {"oversize"}
  MaxTrouble = 1
  Serves <- BytesServes
CHECK_DEADLOCK FALSE
INVARIANT TypeOK
INVARIANT LosersLeaveNothing
PROPERTY CompletionSettles
