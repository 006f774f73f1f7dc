SPECIFICATION BarSpec
CONSTANTS
  Tails = {"a", "b"}
  NoTail = NoTail
  Keeps = 2
  Records <- MCRecords
  MaxBrowse = 1
CHECK_DEADLOCK FALSE
INVARIANTS
  LastRecords
PROPERTIES
  RecordsAreDrawn
  TailsAreReleased
