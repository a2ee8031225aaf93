CONSTANTS
  p1 = p1  p2 = p2  p3 = p3
  Procs = {p1, p2, p3}
  Crashing = {p1, p2, p3}
  Stable = {}
  Opaque = {}
  Effects = {"w"}
  Paths = {"f"}
  Contents = {"written", "old"}
  Edits = {"old"}
  Nil = "nil"
  NoProc = NoProc
  NoEffect = NoEffect
  Kind <- MCKind
  Target <- MCTarget
  Payload <- MCPayload
  TTL = 1
  MaxTime = 0
SPECIFICATION Spec
SYMMETRY Incarnations
INVARIANTS TypeOK LiveOwnerKeepsAuthority NoSilentEffect
  SuccessIsReal PendingRecoverable DischargeNeedsEvidence
PROPERTIES LedgerAppendOnly ImplementsLedger
CHECK_DEADLOCK FALSE
