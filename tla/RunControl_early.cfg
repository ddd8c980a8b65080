\* One run, one crash.
CONSTANTS
  r1 = r1
  r2 = r2
  k1 = k1
  k2 = k2
  Runs = {r1}
  Clients = {k1}
  Answers = {}
  Kinds <- OneKinds
  MaxNodes <- OneNode
  MaxRequests = 1
  MaxCrashes = 1
  MaxTails = 1
SPECIFICATION Spec
INVARIANTS
  EarlyDeathIsRecovered
\* Everything ends.
CHECK_DEADLOCK FALSE
