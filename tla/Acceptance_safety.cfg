CONSTANTS
  r1 = r1
  r2 = r2
  p1 = p1
  p2 = p2
  p3 = p3
  t1 = t1
  t2 = t2
  f1 = f1
  f2 = f2
  c1 = c1
  c2 = c2
  None = None
  Runs = {r1}
  Pids = {p1, p2, p3}
  Tasks = {t1, t2}
  Flags = {f1}
  Contents = {c1, c2}
  Retries = 1
  MaxAttempts = 2
  MaxMishaps = 1
CHECK_DEADLOCK FALSE
SPECIFICATION Spec
INVARIANTS
  TypeOK
  NoFalseAlarm
  ReadyIsEarned
PROPERTIES
  ApprovedAsShown
  EvidenceKept
