CONSTANTS
  p1 = p1  s = s
  Procs = {p1, s}
  Crashing = {p1}
  Stable = {s}
  Opaque = {}
  Effects = {"w"}
  Paths = {"f"}
  Contents = {"written", "old"}
  Edits = {}
  Nil = "nil"
  NoProc = NoProc
  NoEffect = NoEffect
  Kind <- MCKind
  Target <- MCTarget
  Payload <- MCPayload
  TTL = 1
  MaxTime = 1
SPECIFICATION Spec
INVARIANTS RetryReproducesRequest
CHECK_DEADLOCK FALSE
