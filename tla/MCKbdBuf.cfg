SPECIFICATION FairSpec
CONSTANTS
  Strings <- Texts
  QUEUE_SIZE = 3
  buffer_size = 2
  MAX_FEEDS = 3
  MAX_RESETS = 1
CHECK_DEADLOCK FALSE
INVARIANTS DelayedReturn KernalFits
PROPERTIES RefinesFifo FedArrives
