CONSTANTS
  n1 = n1
  c1 = c1
  FirstLists <- OneProvider
  Name = {n1, n2}
  Conf = {c1, c2}
  Nil = Nil
  Manual = Manual
  Broken = Broken
  Scheduler = {s1}
  Applier = {a1}
  MaxEdits = 2
  MaxRuns = 2
  MaxBadLoads = 1
  MaxBadWrites = 1
SPECIFICATION ConfigFairSpec
INVARIANTS Registered MemoryIsFile
PROPERTIES FreshCatalogue StaysLoaded DetectionsEnd
CHECK_DEADLOCK FALSE
