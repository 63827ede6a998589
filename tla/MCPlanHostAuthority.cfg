CONSTANTS
  Tokens = {t1}
  Projects = {p}
  Sources = {}
  Contexts <- MCContexts
  TTL = 1
  Idle = 1
  Lag = 0
  MaxClock = 1
  MaxOperation = 3
  NoProject = NoProject
  NoToken = NoToken
  NoPlan = NoPlan
  NoOperation = NoOperation
  Callers = {c1, c2}
  NoCaller = NoCaller
  NoContext = NoContext
  MaxSession = 1
  MalformedReads = FALSE
SPECIFICATION HostSpec
INVARIANT AppliedOnce
PROPERTIES
  HostUsesCoordinator
  NothingIsHeldForever
CHECK_DEADLOCK FALSE
