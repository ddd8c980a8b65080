CONSTANTS
  builder = builder
  security = security
  compatibility = compatibility
  None = None
  Roles = {builder, security, compatibility}
  Reviewers = {security, compatibility}
  Parallel = 2
  Retries = 1
  Fallbacks = 1
  Cost <- UnequalCost
  MaxAttempts = 3
  MaxTokens = 4
  MaxWall = 1
  RoleTimeout = 2
  Second = 2
  MaxClock = 2
  Mishaps = {"crash", "lapse", "damage", "ledger", "context", "usage", "health"}
  MaxMishaps = 1
CHECK_DEADLOCK FALSE
SPECIFICATION FairSpec
INVARIANTS
  CallsKept
  OwnReservation
PROPERTIES
  NeverRefilled
  RefusalEnds
  VerdictIsHeard
  InvocationEnds
