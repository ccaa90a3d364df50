SPECIFICATION FairSpec
CONSTANTS
  w1 = w1
  w2 = w2
  None = None
  Event = {1, 2}
  Poison = {1}
  Worker = {w1, w2}
  Limit = 2
  LeaseTime = 2
  MaxDelay = 1
  Skew = 1
INVARIANTS
  TypeOK
  OneHolderWithinLease
PROPERTIES
  DeliveryPromise
  EveryEventSettles
CHECK_DEADLOCK FALSE
