CONSTANTS
  p1 = p1  p2 = p2  p3 = p3
  Procs = {p1, p2, p3}
  None = None
SPECIFICATION Spec
INVARIANTS OneHolder
CHECK_DEADLOCK FALSE
