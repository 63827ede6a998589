SPECIFICATION Spec
CONSTANTS
  None = None
  Kinds = {"new", "open"}
  MaxEdits = 1
  MaxActions = 2
  MaxRefreshes = 0
  MaxOps = 3
  AnswersUnread = FALSE
PROPERTY StaleMeansChanged
CHECK_DEADLOCK FALSE
