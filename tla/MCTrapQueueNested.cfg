SPECIFICATION TrapSpec
CONSTANTS
  Traps = {t1, t2}
  Garbage = Garbage
  NestingAt = {0, 1}
  MAX_QUEUED = 3
  MAX_SLOTS = 6
INVARIANT TrapsRunInOrder
