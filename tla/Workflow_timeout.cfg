\* CI stays pending beyond the timeout.
CONSTANTS
  plain = plain
  better = better
  risky = risky
  secret = secret
  t1 = t1
  None = None
  NoDiff = NoDiff
  Requirements <- OneRequirement
  Verified = {}
  TaskKinds <- PlainTasks
  Contents = {plain}
  Tests = {t1}
  Risky = {}
  Secret = {}
  MaxRepairs = 1
  MaxReplans = 1
  MaxReviewRetries = 1
  MaxIterations = 1
  HasGitHub = TRUE
  AutoMerge = TRUE
  FlakyRetries = 0
  MutatingGates = FALSE
  PlannerFaults = {}
  ReviewTransport = FALSE
  StrayAnswers = {}
  Limits <- Late
SPECIFICATION Spec
PROPERTIES
  TimeoutEndsWaiting
