CONSTANTS
  Window = 2
  Margin = 1
  MaxCounter = 4
  ResetThreshold = 0
  MaxKeys = 2
  QueueCapacity = 4
SPECIFICATION Spec
INVARIANTS
  FreshLinkNonce
