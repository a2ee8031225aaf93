CONSTANTS
  p1 = p1  p2 = p2
  Proc = {p1, p2}
  MaxUp = 2
  Files = 2
  Covered = {1}
  MaxForeign = 1
  NoProc = NoProc
SPECIFICATION Spec
SYMMETRY Servers
INVARIANTS TypeOK SingleDriver TestFenced  SuccessIsReal
  TerminalIsTrue
  
CHECK_DEADLOCK FALSE
