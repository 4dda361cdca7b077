SPECIFICATION Spec
CONSTANTS
  Id = {"u", "v"}
  Process = {"client", "janitor"}
  Size = 1
  None = "none"
  Old = "old"
  Gone = "gone"
  Drivers = {"local", "gcs"}
  Faults = {}
  MaxTrouble = 2
  Serves <- SagaServes
CHECK_DEADLOCK FALSE
INVARIANT VisibleStored
INVARIANT CancelledHidden
INVARIANT OutcomeTrue
PROPERTY PublishedOnce
