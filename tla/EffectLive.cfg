CONSTANTS
  p1 = p1  s = s
  Procs = {p1, s}
  Crashing = {p1}
  Stable = {s}
  Opaque = {s}
  Effects = {"w"}
  Paths = {"f"}
  Contents = {"written", "old"}
  Edits = {"old"}
  Nil = "nil"
  NoProc = NoProc
  NoEffect = NoEffect
  Kind <- MCKind
  Target <- MCTarget
  Payload <- MCPayload
  TTL = 1
  MaxTime = 1
SPECIFICATION FairSpec
INVARIANTS AuthorityExclusive NoSilentEffect
PROPERTIES ClosedByOwnerOrHeir ExecutionEnds OrphanRecovered
CHECK_DEADLOCK FALSE
