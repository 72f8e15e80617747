\* An end device and its parent: two requests, one association, one fault.
SPECIFICATION FairSpec
CONSTANTS
    Child = Child
    Parent = Parent
    MaxIds = 2
    MaxAttempts = 1
    SeqModulus = 16
    QueueCapacity = 1
    IndirectCapacity = 1
    MaxRetries = 1
    MaxFaults = 1
INVARIANTS
    TypeInvariant
    ConfirmedOnce
    SuccessMeansReceived
PROPERTIES
    RequestsEnd
    AssociationsEnd
CHECK_DEADLOCK FALSE
