CONSTANTS
  Window = 2
  Margin = 1
  MaxCounter = 8
  ResetThreshold = 3
  Seqs = {0, 1}
  QueueCapacity = 3
  MaxWaiting = 1
SPECIFICATION ForwardSpec
INVARIANTS
  ResumeIsFresh
