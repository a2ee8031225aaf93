CONSTANTS
  p1 = p1  p2 = p2
  Proc = {p1, p2}
  MaxUp = 1
  Files = 1
  Covered = {1}
  MaxForeign = 0
  NoProc = NoProc
SPECIFICATION Spec
SYMMETRY Servers
INVARIANTS CancelledIsClean
CHECK_DEADLOCK FALSE
