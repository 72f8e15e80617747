CONSTANTS
  P1 = P1
  P2 = P2
  Bindings <- OnePeer
  MaxRequests = 2
  CounterModulus = 4
  MaxPending = 2
  MaxRetries = 1
  AckWait = 2
  RetryDelay = 1
  MaxDeferrals = 1
  BlockCounts = {0, 2}
  DuplicateSlots = 1
  MaxDelay = 1
  MaxFaults = 2
  Secured = FALSE
SPECIFICATION Spec
INVARIANTS
  TypeInvariant
  SuccessMeansDelivered
  IndicatedOnce
