SPECIFICATION Spec
CONSTANTS
  PageSize = 2
  MaxResident = 1
  MaxPage = 1
  Sources = {"table", "pipeline"}
  SizeAt <- SourceSizes
  MaxVersion = 1
  MaxGen = 2
  Fetches = {f1, f2}
  Absent = Absent
SYMMETRY FetchSymmetry
CHECK_DEADLOCK FALSE
INVARIANT KeptUntilCounted
