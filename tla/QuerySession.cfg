SPECIFICATION FairSpec
CONSTANTS
  Lengths <- TwoThenOne
  MaxAsks = 2
  Again = Again
  Tx = Tx
  None = None
CHECK_DEADLOCK FALSE
PROPERTIES StopEnds ClosedIsReleased
INVARIANTS ShownIsCurrent CutByOthers
