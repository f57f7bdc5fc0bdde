CONSTANTS
  e1 = e1
  e2 = e2
  i1 = i1
  i2 = i2
  Nil = Nil
  Event = {e1, e2}
  Keyed = {e1}
  Instance = {i1, i2}
  InstanceOf <- TwoInstances
  Kinds <- EachChannel
  Handler = {h1, h2}
  MaxDeliveries <- TwiceIfKeyed
  MaxCrashes = 1
  MaxLost = 1
  MaxStops = 1
SPECIFICATION FairSpec
INVARIANTS OneHandler NotAbandoned AnsweredOnce
PROPERTIES CompletedIsFinal EventuallyUnblocked Replayed
CHECK_DEADLOCK FALSE
