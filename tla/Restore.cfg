CONSTANTS
  p1 = p1  p2 = p2  p3 = p3
  t1 = t1  t2 = t2
  Procs = {p1, p2, p3}
  Tx = {t1, t2}
  Backup = {"b"}
  MaxRestores = 2
SPECIFICATION Spec
INVARIANTS TypeOK RestoreExclusive LiveLockKept NoStaleReplay NothingLost
SYMMETRY Symmetry
