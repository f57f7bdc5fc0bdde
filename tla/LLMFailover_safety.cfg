CONSTANTS
  p1 = p1
  p2 = p2
  FailureThreshold = 1
  ErrorPercent = 60
  MinRequests = 2
  HistorySize = 2
  RecoverySuccesses = 2
  Provider = {p1}
  Request = {r1, r2}
  Streamed = {}
  Cancellable = {r1}
  Candidates <- OneProvider
  MaxRetries = 1
  WritesFail = TRUE
  MaxAdmin = 2
SPECIFICATION Spec
SYMMETRY Symmetry
INVARIANTS TypeOK ClosedBelowThreshold
PROPERTIES TrustIsEarned
CHECK_DEADLOCK FALSE
