SPECIFICATION PagesSpec
CONSTANTS
  Plans = 2
  Starts = 1
  MaxTrouble = 1
  MaxEdits = 2
  MaxScans = 2
  ListTrouble = 1
CHECK_DEADLOCK FALSE
INVARIANT DriftInv
INVARIANT ListInv
PROPERTY MovesEnd
PROPERTY ScanShown
