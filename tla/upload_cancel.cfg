SPECIFICATION Spec
CONSTANTS
  Id = {"u", "v"}
  Process = {"client", "janitor"}
  Size = 1
  None = "none"
  Old = "old"
  Gone = "gone"
  Drivers = {"local", "gcs"}
  Faults = {"lost_reply"}
  MaxTrouble = 0
  Serves <- SagaServes
CHECK_DEADLOCK FALSE
INVARIANT CancelledHidden
