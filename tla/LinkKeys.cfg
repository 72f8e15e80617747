CONSTANTS
  Window = 2
  Margin = 1
  MaxCounter = 3
  ResetThreshold = 0
  MaxKeys = 2
  QueueCapacity = 4
SPECIFICATION Spec
INVARIANTS
  TypeInvariant
  FreshUntilDisturbed
  RestoredUntilDisturbed
  InFlightUntilDisturbed
