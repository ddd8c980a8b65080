\* Two projects, a run in one of them, three events anywhere between the steps.
CONSTANTS
  p1 = p1
  p2 = p2
  r1 = r1
  Projects = {p1, p2}
  Runs = {r1}
  ProjectOf <- Owner
  None = None
  MaxEvents = 3
SPECIFICATION Spec
INVARIANTS
  Consistent
\* The command ends.
CHECK_DEADLOCK FALSE
