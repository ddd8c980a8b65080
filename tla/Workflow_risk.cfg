\* Test-driven and risky tasks, candidates that policy flags or blocks, gates that rewrite files, planner and reviewers that fail, operators who answer anything; safety and liveness.
CONSTANTS
  plain = plain
  better = better
  risky = risky
  secret = secret
  t1 = t1
  None = None
  NoDiff = NoDiff
  Requirements <- OneRequirement
  Verified = {}
  TaskKinds <- RiskyOrTdd
  Contents = {plain, risky, secret}
  Tests = {t1}
  Risky = {risky}
  Secret = {secret}
  MaxRepairs = 1
  MaxReplans = 1
  MaxReviewRetries = 2
  MaxIterations = 2
  HasGitHub = TRUE
  AutoMerge = TRUE
  FlakyRetries = 0
  MutatingGates = TRUE
  PlannerFaults = {"contract", "execution", "transport"}
  ReviewTransport = TRUE
  StrayAnswers = {"approve", "retry"}
  Limits <- Attended
SPECIFICATION FairSpec
INVARIANTS
  TypeOK
  AnswersRecorded
  HumanIsLastResort
  OutageIsNoVerdict
PROPERTIES
  PushedIsReviewed
  PushedIsGated
  Settles
