SPECIFICATION Spec
CONSTANTS
  k1 = k1
  k2 = k2
  Table <- TwoRows
  Unkeyed = Unkeyed
  MaxEdits = 3
  MaxReviews = 2
  None = None
CHECK_DEADLOCK FALSE
INVARIANTS Kept InsertedOnce ReviewedIsWritten FillsWhatItRead
