\* Three requests, two at a time; one run that waits for anything and another one; a crash.
CONSTANTS
  r1 = r1
  r2 = r2
  k1 = k1
  k2 = k2
  Runs = {r1, r2}
  Clients = {k1, k2}
  Answers = {"approve"}
  Kinds <- SomeKinds
  MaxNodes <- SomeNodes
  MaxRequests = 3
  MaxCrashes = 1
  MaxTails = 2
SPECIFICATION Spec
INVARIANTS
  Attended
  OneRun
  PauseKept
\* Everything ends.
CHECK_DEADLOCK FALSE
