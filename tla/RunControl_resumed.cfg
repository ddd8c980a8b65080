\* One run that waits for CI and then reaches a safe point, and a pause; no crash.
CONSTANTS
  r1 = r1
  r2 = r2
  k1 = k1
  k2 = k2
  Runs = {r1}
  Clients = {k1}
  Answers = {}
  Kinds <- WaitKinds
  MaxNodes <- WaitNodes
  MaxRequests = 3
  MaxCrashes = 0
  MaxTails = 1
SPECIFICATION Spec
PROPERTIES
  NeverAutoResumed
\* Everything ends.
CHECK_DEADLOCK FALSE
