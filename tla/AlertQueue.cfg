CONSTANTS
  Capacity = 2
  MaxEvents = 3
  MaxBoots = 3
  WritesFail = TRUE
SPECIFICATION Spec
INVARIANTS
  TypeInvariant
  NothingLost
  DeliveredNotResent
  RepeatsMarked
  LossesReported
  ScheduledWhilePending
