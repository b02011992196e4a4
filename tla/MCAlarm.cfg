SPECIFICATION FairSpec
CONSTANTS
  Alarms = {a1, a2, a3, a4}
  NoAlarm = NoAlarm
  MAX_PENDING = 3
  CLOCK_MAX = 3
  CLK_BOUND = 2
  MAX_CYCLES = 2
INVARIANTS SlotsConsistent NextIsEarliest NothingDueAtFetch
PROPERTIES RefinesAlarmSpec 
