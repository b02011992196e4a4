SPECIFICATION FairSpec
CONSTANTS
  IrqSources = {s1}
  NmiSources = {n1}
  Requests = {"RESET", "DMA"}
  MAX_BACK = 0
  MAX_LEFT = 1
  MAX_SUB = 0
  MAX_STOLEN = 1
  MAX_CYCLES = 2
  MAX_DMA = 1
  AGE_MAX = 3
PROPERTIES NmiEventuallyServed 
