CONSTANTS
  Window = 2
  Margin = 1
  MaxCounter = 3
  ResetThreshold = 2
  Seqs = {0, 1}
  QueueCapacity = 3
  MaxWaiting = 1
SPECIFICATION FairSpec
INVARIANTS
  TypeInvariant
  FreshUntilReset
  DurableUntilReset
  InFlightIsQueued
PROPERTIES
  ParkedFramesLeave
  BoundMonotone
