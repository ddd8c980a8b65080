\* Two requirements, one of them verified, through GitHub with flaky checks and a review that may be out of reach; nobody to answer.
CONSTANTS
  plain = plain
  better = better
  risky = risky
  secret = secret
  t1 = t1
  None = None
  NoDiff = NoDiff
  Requirements <- TwoRequirements
  Verified = {"R1"}
  TaskKinds <- PlainTasks
  Contents = {plain, better}
  Tests = {t1}
  Risky = {}
  Secret = {}
  MaxRepairs = 1
  MaxReplans = 1
  MaxReviewRetries = 1
  MaxIterations = 2
  HasGitHub = TRUE
  AutoMerge = TRUE
  FlakyRetries = 1
  MutatingGates = FALSE
  PlannerFaults = {}
  ReviewTransport = TRUE
  StrayAnswers = {}
  Limits <- Unattended
SPECIFICATION Spec
INVARIANTS
  CleanStart
  PassIsEarned
  MergeAccounted
  ConvergedHonestly
PROPERTIES
  PassIsKept
  MergedIsGreen
