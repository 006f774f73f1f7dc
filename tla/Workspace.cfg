SPECIFICATION WorkspaceSpec
CONSTANTS
  Tabs = {t1, t2}
  MaxDials = 2
  MaxEdits = 1
CHECK_DEADLOCK FALSE
INVARIANTS
  NoneLeaked
PROPERTIES
  ConnectReturns
  DisconnectEndsIfLanded
  LostIsDrawn
