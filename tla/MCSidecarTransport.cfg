CONSTANTS
  Ids = {1, 2, 3}
  HistoryBound = 2
  NoId = NoId
  ChannelBound = 1
  MaxId = 3
  Modes = {"host", "plan"}
  Children = {"healthy", "faulty"}
  Parts = {"session", "bookkeeping", "runner"}
  BareIds = {0, 1, 2, 3, 4, 5}
  None = None
  MaxCalls = 3
  MaxStops = 1
SPECIFICATION Spec
INVARIANTS
  HistoriesAgree
  KeptSessionCanBegin
  AnswersItsOwnRequest
  HealthyChildNeverRejected
  ClosedMeansNoChild
  CancelledExactly
PROPERTIES
  NoHostAnswerAfterOverflow
  RequestsReturn
  CallsReturn
CHECK_DEADLOCK FALSE
