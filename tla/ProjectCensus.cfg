CONSTANTS
  p1 = p1  p2 = p2
  Proc = {p1, p2}
  MaxUp = 1
  Files = 1
  Covered = {1}
  MaxForeign = 1
  NoProc = NoProc
SPECIFICATION FairSpec
PROPERTIES ResultSettles
CHECK_DEADLOCK FALSE
