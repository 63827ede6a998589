SPECIFICATION FairSpec
CONSTANTS
  None = None
  Files = {1}
  Acts = {"open", "save", "example"}
  MaxEdits = 1
  MaxActs = 2
  MaxAll = 3
  MaxCalls = 2
PROPERTY OldSaveNotAttached
CHECK_DEADLOCK FALSE
