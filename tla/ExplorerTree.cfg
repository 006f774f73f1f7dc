SPECIFICATION Spec
CONSTANTS
  folder = folder
  conn = conn
  table = table
  l1 = l1
  l2 = l2
  f1 = f1
  f2 = f2
  Nodes = {folder, conn, table}
  Root = Root
  Parent <- InAFolder
  Branches = {folder, conn}
  Eager = {folder}
  Badged = {table}
  Loads = {l1, l2}
  Fetches = {f1, f2}
  MaxRefreshes = 2
  None = None
INVARIANTS CurrentAnswers FilterFindsTheTree NothingUndrawn CurrentBadges
CHECK_DEADLOCK FALSE
SYMMETRY Symmetry
