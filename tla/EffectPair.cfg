CONSTANTS
  p1 = p1  p2 = p2
  Procs = {p1, p2}
  Crashing = {p1, p2}
  Stable = {}
  Opaque = {}
  Effects = {"r", "c"}
  Paths = {"f"}
  Contents = {"written", "created"}
  Edits = {}
  Nil = "nil"
  NoProc = NoProc
  NoEffect = NoEffect
  Kind <- MCKind
  Target <- MCTarget
  Payload <- MCPayload
  TTL = 1
  MaxTime = 0
SPECIFICATION Spec
SYMMETRY Incarnations
INVARIANTS NoSilentEffect SuccessIsReal DischargeNeedsEvidence
PROPERTIES ImplementsLedger
CHECK_DEADLOCK FALSE
