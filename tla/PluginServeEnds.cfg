\* Two requests and a pipe that holds one line.
SPECIFICATION Spec
CONSTANTS
  Requests = {r1, r2}
  Sleepers = {r1}
  MaxRows = 1
  PipeCap = 1
  None = None
CHECK_DEADLOCK FALSE
INVARIANTS
  OneEnding
  AnsweredBeforeReturn
PROPERTIES
  Ends
  CancelEnds
