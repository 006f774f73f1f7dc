SPECIFICATION WorkspaceSpec
CONSTANTS
  Tabs = {t1}
  MaxDials = 1
  MaxEdits = 1
CHECK_DEADLOCK FALSE
INVARIANTS
  SettingsInForce
