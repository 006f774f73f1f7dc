\* One buffer: nothing of one depends on another but its turn with the writer.
SPECIFICATION FairSpec
CONSTANTS
  Buffers = {b1}
  MaxEdits = 3
  MaxSaves = 1
  MaxStarts = 1
  None = None
CHECK_DEADLOCK FALSE
INVARIANTS DiskIsUpToDate CleanIsStored
PROPERTY KeptInTime
