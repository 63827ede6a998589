CONSTANTS
  Ids = {1, 2, 3, 4}
  HistoryBound = 3
  NoId = NoId
  ChannelBound = 2
  MaxId = 4
  Modes = {"host", "plan"}
  Children = {"healthy"}
  Parts = {"session"}
  BareIds = {}
  None = None
  MaxCalls = 1
  MaxStops = 0
SPECIFICATION Spec
INVARIANT LateTrafficIsHarmless
CHECK_DEADLOCK FALSE
