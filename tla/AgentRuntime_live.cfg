CONSTANTS
  Proc = {p1, p2}
  NoProc = NoProc
  Agent = {main, mate}
  Dispatched = {main}
  Principal = {owner, guest}
  Owner = owner
  MaxToolIterations = 1
  MaxCalls = 1
  TeammateDepth = 1
  MaxTurns = 2
  MaxConfirmations = 1
  MaxRepeats = 1
  MaxEdits = 1
  MaxFaults = 1
SPECIFICATION FairSpec
INVARIANTS ConfirmedOnce ModelCallsBounded ShownOnce HistoryClosed
PROPERTIES SettledIsFinal EveryTurnEnds
CHECK_DEADLOCK FALSE
