CONSTANTS
  Tokens = {t1, t2}
  Projects = {p}
  Sources = {s}
  Contexts <- MCContexts
  TTL = 1
  Idle = 1
  Lag = 0
  MaxClock = 0
  MaxOperation = 2
  NoProject = NoProject
  NoToken = NoToken
  NoPlan = NoPlan
  NoOperation = NoOperation
  Callers = {c1, c2}
  NoCaller = NoCaller
  NoContext = NoContext
  MaxSession = 2
  MalformedReads = TRUE
SPECIFICATION HostSpec
INVARIANT EveryChildIsOwned
CHECK_DEADLOCK FALSE
