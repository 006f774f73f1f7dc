SPECIFICATION Spec
CONSTANTS
  Readers <- GridAndExport
  Offsets <- PageStarts
  Limit <- PageSizes
  NotifyEvery = 2
  MaxRows = 5
CHECK_DEADLOCK FALSE
INVARIANT WaitsForMissingRows
