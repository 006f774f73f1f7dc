\* Statements the code does not keep (README, section 6), one at a time.
SPECIFICATION FairSpec
CONSTANTS
  Buffers = {b1}
  MaxEdits = 3
  MaxSaves = 2
  MaxStarts = 1
  None = None
CHECK_DEADLOCK FALSE
INVARIANT SavesInTurn
\* PROPERTY ReopensAsLeft
