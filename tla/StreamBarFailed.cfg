SPECIFICATION BarSpec
CONSTANTS
  Tails = {"a"}
  NoTail = NoTail
  Keeps = 1
  Records <- MCRecords
  MaxBrowse = 0
CHECK_DEADLOCK FALSE
PROPERTY FailureIsSaid
