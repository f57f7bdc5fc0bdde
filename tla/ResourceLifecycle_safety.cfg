CONSTANTS
  MaxVersion = 2
  MaxArchives = 2
  Permission = {"read", "write"}
  MaxFaults = 1
  MaxCrashes = 1
SPECIFICATION Spec
INVARIANTS Recoverable ConfirmedPermissions NoOrphans
CHECK_DEADLOCK FALSE
