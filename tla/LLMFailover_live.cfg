CONSTANTS
  p1 = p1
  p2 = p2
  FailureThreshold = 1
  ErrorPercent = 60
  MinRequests = 1
  HistorySize = 1
  RecoverySuccesses = 1
  Provider = {p1, p2}
  Request = {r1, r2}
  Streamed = {r2}
  Cancellable = {r1}
  Candidates <- StreamsFailOver
  MaxRetries = 0
  WritesFail = FALSE
  MaxAdmin = 0
SPECIFICATION FairSpec
INVARIANTS OneAttemptEmits
PROPERTIES EveryRequestEnds
CHECK_DEADLOCK FALSE
