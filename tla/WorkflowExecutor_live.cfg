CONSTANTS
  b1 = b1
  b2 = b2
  b3 = b3
  Block = {b1, b2, b3}
  NoBlock = NoBlock
  Shapes <- MCShapes
  Limits = {TRUE, FALSE}
  MayCancel = TRUE
  MaxWires = 2
SPECIFICATION FairSpec
INVARIANTS OnceAfterSources NothingSkipped
PROPERTIES RunEnds
CHECK_DEADLOCK FALSE
