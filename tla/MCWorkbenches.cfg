\* Two edits and two actions of every kind in each workbench, three operations in all;
\* four operations of the design exchange over two changes of the identity; three changes
\* of the props and three steps of the user in the brand workbench.
SPECIFICATION Spec
CONSTANTS
  None = None
  Kinds = {"new", "open", "import", "savePlan", "saveApply", "exportPlan", "exportApply", "bind", "verify", "adopt"}
  MaxActions = 2
  MaxRefreshes = 2
  MaxOps = 3
  AnswersUnread = TRUE
  Files = {1}
  Acts = {"new", "invalid", "compile", "example", "open", "save", "adopt", "candidate", "preview", "packet"}
  MaxActs = 2
  MaxAll = 3
  MaxCalls = 2
  MaxEdits = 2
  Packets = {1, 2}
  MaxExchanges = 4
  MaxSwitches = 2
  MaxChanges = 3
  MaxVisits = 3
INVARIANTS
  EditsInStep
  ShownIsLive
  EditsAreNotOverwritten
  HostInStep
PROPERTIES
  PreviewNeverGoesBack
  EverythingSettles
CHECK_DEADLOCK FALSE
