CONSTANTS
  s1 = s1  s2 = s2
  Sessions = {s1, s2}
  n1 = n1  n2 = n2
  Nonces = {n1, n2}
  o1 = o1  o2 = o2
  Ops = {o1, o2}
  b1 = b1
  Bodies = {b1}
  c1 = c1  c2 = c2
  Calls = {c1, c2}
  Filters = {{"unknown", "pending"}}
  PageSize = 1
  MaxCounter = 2
  MaxGeneration = 2
  None = None
SPECIFICATION Spec
SYMMETRY Interchangeable
INVARIANTS TypeOK AtMostOnce AnswersAgree  AbandonInformed
  ChallengeOnce RevokedIsOver PagesAreSnapshot
PROPERTIES SessionForward 
CHECK_DEADLOCK FALSE
