SPECIFICATION FairTrapSpec
CONSTANTS
  Traps = {t1, t2}
  Garbage = Garbage
  NestingAt = {0}
  MAX_QUEUED = 3
  MAX_SLOTS = 6
INVARIANTS TrapsRunInOrder NoTrapForgotten
PROPERTIES TrapCycleEnds
