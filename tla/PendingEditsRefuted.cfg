\* Statements the code does not keep (README, section 6), one at a time.
SPECIFICATION Spec
CONSTANTS
  k1 = k1
  k2 = k2
  Table <- TwoRows
  Unkeyed = Unkeyed
  MaxEdits = 3
  MaxReviews = 2
  None = None
CHECK_DEADLOCK FALSE
INVARIANT NothingForgotten
\* PROPERTY FillsTheSelected
