CONSTANTS
  Calls = {"c1", "c2"}
  FailureThreshold = 2
  SuccessThreshold = 2
  FailureWindow = 3
  ResetTimeout = 2
  Durable = FALSE
  MaxTime = 4
SPECIFICATION Spec
INVARIANTS BlockedOnlyUntilReset
