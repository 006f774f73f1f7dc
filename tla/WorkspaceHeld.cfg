SPECIFICATION WorkspaceSpec
CONSTANTS
  Tabs = {t1}
  MaxDials = 1
  MaxEdits = 0
CHECK_DEADLOCK FALSE
PROPERTIES
  DisconnectEnds
