CONSTANTS
  p1 = p1
  p2 = p2
  FailureThreshold = 1
  ErrorPercent = 60
  MinRequests = 2
  HistorySize = 2
  RecoverySuccesses = 2
  Provider = {p1}
  Request = {r1, r2}
  Streamed = {}
  Cancellable = {}
  Candidates <- OneProvider
  MaxRetries = 0
  WritesFail = FALSE
  MaxAdmin = 0
SPECIFICATION FairSpec
PROPERTIES ProbeReturns
CHECK_DEADLOCK FALSE
