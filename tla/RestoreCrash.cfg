CONSTANTS
  p1 = p1  p2 = p2
  t1 = t1
  Procs = {p1, p2}
  Tx = {t1}
  Backup = {"b"}
  MaxRestores = 1
SPECIFICATION Spec
INVARIANTS ExchangeAtomic
SYMMETRY Symmetry
