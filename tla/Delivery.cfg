SPECIFICATION Spec
CONSTANTS
  MaxEvents = 2
  Publishers = {p1, p2}
  Consumers = {c1, c2}
  BatchSize = 2
  MaxFaults = 2
  StoreMayFail = TRUE
SYMMETRY WorkerSymmetry
INVARIANTS TypeOK NoEventLost ClaimsAreFenced AckedOnlyWhenCompleted
PROPERTIES RowsFollowClaims ImplementsSafeTransfer
CHECK_DEADLOCK FALSE
