CONSTANTS
  Tokens = {t1, t2}
  Projects = {p}
  Sources = {s}
  Contexts <- MCContexts
  p = p
  s = s
  TTL = 2
  Idle = 3
  Lag = 1
  MaxClock = 3
  MaxOperation = 3
  NoProject = NoProject
  NoToken = NoToken
  NoPlan = NoPlan
  NoOperation = NoOperation
  None = None
  MaxStarts = 3
  MaxLeaves = 1
  MaxPosition = 2
SPECIFICATION Spec
INVARIANTS
  IdentityExclusive
  AuthorityInOnePlace
  PageInStep
PROPERTIES
  TakenBeforeExpiry
  ImplementsPlanAuthority
  ExpiredPlanIsErased
  PageSettles
CHECK_DEADLOCK FALSE
