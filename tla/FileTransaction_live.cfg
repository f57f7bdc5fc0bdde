CONSTANTS
  File = {f1, f2}
  MaxTx = 2
  MaxFaults <- Faults
  MaxCrashes = 2
SPECIFICATION FairSpec
PROPERTIES AllOrNothing NothingResurrected StartEnds
CHECK_DEADLOCK FALSE
