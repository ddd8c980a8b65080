\* Two runs one after the other, three task ids with two branches, and the collector; the last run may end.
CONSTANTS
  r1 = r1
  r2 = r2
  b1 = b1
  b2 = b2
  t1 = t1
  t2 = t2
  t3 = t3
  collector = collector
  None = None
  Runs = {r1, r2}
  Tasks = {t1, t2, t3}
  Branches = {b1, b2}
  BranchOf <- Folded
  Collector = collector
  AtomicStarts = TRUE
  LateCollector = FALSE
CHECK_DEADLOCK FALSE
SPECIFICATION Spec
INVARIANTS
  OneCandidate
  WorkspaceKept
PROPERTIES
  RemovedOnRequest
