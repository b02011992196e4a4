SPECIFICATION Spec
CONSTANTS
  IrqSources = {s1, s2}
  NmiSources = {}
  Requests = {"RESET", "TRAP"}
  MAX_BACK = 0
  MAX_LEFT = 0
  MAX_SUB = 0
  MAX_STOLEN = 0
  MAX_CYCLES = 2
  MAX_DMA = 0
  AGE_MAX = 3
INVARIANTS  IrqFlagMatchesLine
SYMMETRY Symmetry
