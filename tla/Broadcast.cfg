CONSTANTS
  R1 = R1
  R2 = R2
  R3 = R3
  Nodes = {R1, R2, R3}
  Topologies <- LineAndTriangle
  NeighborTables <- EveryoneOrFewer
  Broadcasts = {R1, R2}
  Source <- Itself
  Radius = 3
  MaxRetries = 1
  Timeout = 2
  MaxJitter = 1
  RetryDelay = 1
  DeliveryTime = 11
  TableSize = 1
  Buffers = 1
  MaxFaults = 2
SPECIFICATION FairSpec
INVARIANTS
  TypeInvariant
  SeenOnce
  StopsWhenHeard
  TransmissionsBounded
PROPERTIES
  FallsSilent
CHECK_DEADLOCK FALSE
