CONSTANTS
  d1 = d1
  d2 = d2
  d3 = d3
  r1 = r1
  r2 = r2
  Nil = Nil
  Delivery = {d1, d2, d3}
  Recipient = {r1, r2}
  RecipientOf <- TwoRecipients
  Service = {s1}
  Worker = {w1, w2}
  LockState = {l1, l2}
  MaxAttempts = 2
  MaxFaults = 1
  StoreMayFail = {d1}
SPECIFICATION FairSpec
INVARIANTS TypeOK OneActivePerRecipient NoDuplicateSend
PROPERTIES InOrder EventuallySettled
CHECK_DEADLOCK FALSE
