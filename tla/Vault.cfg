SPECIFICATION Spec
CONSTANTS
  Jobs = {j1, j2}
  Conns = {c1, c2}
  Keys = {1, 2}
  MaxSaves = 2
  MaxLocks = 1
SYMMETRY Symmetry
CONSTRAINT OneSecretEach
CHECK_DEADLOCK FALSE
INVARIANTS
  StillReads
  LastSaved
  SealedOnceLocked
