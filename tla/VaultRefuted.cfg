\* Statements the code does not keep (README, section 6), one at a time.
SPECIFICATION Spec
CONSTANTS
  Jobs = {j1, j2}
  Conns = {c1}
  Keys = {1}
  MaxSaves = 3
  MaxLocks = 2
CHECK_DEADLOCK FALSE
INVARIANT PassphraseOutlived
\* INVARIANT SessionOverwritesNothing
\* INVARIANT UnreadIsPutBack
\* INVARIANT DroppedLock
\* INVARIANT SealedMeansSealed
