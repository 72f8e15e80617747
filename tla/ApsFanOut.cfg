CONSTANTS
  P1 = P1
  P2 = P2
  Bindings <- TwoPeers
  MaxRequests = 1
  CounterModulus = 4
  MaxPending = 2
  MaxRetries = 1
  AckWait = 2
  RetryDelay = 1
  MaxDeferrals = 1
  BlockCounts = {0}
  DuplicateSlots = 2
  MaxDelay = 1
  MaxFaults = 2
  Secured = TRUE
SPECIFICATION FairSpec
INVARIANTS
  ConfirmedOnce
PROPERTIES
  RequestsEnd
