CONSTANTS
  b1 = b1
  b2 = b2
  b3 = b3
  Block = {b1, b2}
  NoBlock = NoBlock
  Shapes <- MCToolShapes
  Limits = {TRUE}
  MayCancel = FALSE
  MaxWires = 1
SPECIFICATION FairSpec
PROPERTIES RunEnds
CHECK_DEADLOCK FALSE
