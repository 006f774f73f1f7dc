\* Statements the code does not keep (README, section 6), one at a time.
SPECIFICATION FairSpec
CONSTANTS
  Lengths <- TwoThenOne
  MaxAsks = 2
  Again = Again
  Tx = Tx
  None = None
CHECK_DEADLOCK FALSE
PROPERTY WindowComesBack
\* INVARIANT ShortMeansEnd
