SPECIFICATION Spec
CONSTANTS
  IrqSources = {s1}
  NmiSources = {n1, n2}
  Requests = {"RESET", "MONITOR"}
  MAX_BACK = 1
  MAX_LEFT = 2
  MAX_SUB = 1
  MAX_STOLEN = 1
  MAX_CYCLES = 2
  MAX_DMA = 1
  AGE_MAX = 4
SYMMETRY Symmetry
INVARIANTS TypeOK CountsMatchLines NmiEntryReachesNmi NoStaleIrq
