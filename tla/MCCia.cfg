SPECIFICATION Spec
CONSTANTS
  Models = {"6526", "6526A"}
  BYTE = 2
  CIA_MAX_IDLE_CYCLES = 3
  MAX_LATE = 1
  Written = {"TAL"}
  Masks = {{"TA", "SET"}}
  Cra = {{"START"}, {"CR_ONESHOT", "FLOAD", "START"}}
  Crb = {{"START", "INMODE_TA"}, {}}
  Latches = {1, 2}
  Enabled = {{"TA"}, {"TB"}}
  StopInStep = FALSE
  MaxAccesses = 3
INVARIANTS  IrqExact OncePerCycle
CHECK_DEADLOCK FALSE
