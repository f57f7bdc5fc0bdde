CONSTANTS
  Task = {t1, t2}
  NoTask = NoTask
  Kind = {"telegram", "qqbot", "wecom"}
  MaxRows = 2
  MaxAttempts = 2
  MaxFaults = 1
  MaxCrashes = 1
SPECIFICATION FairSpec
INVARIANTS NoDuplicateSend NoHoles NothingStranded
PROPERTIES DeliverEnds
CHECK_DEADLOCK FALSE
