SPECIFICATION TimerFairSpec
CONSTANTS
  Kthreads = {k1}
  Uthreads = {u1, u2, u3}
  idle = idle
  Repaired = TRUE
  WORD = 16
  HZ = 2
  NsPerTick = 4
  Seconds = {0, 1, 7, 8}
  Nanoseconds = {1, 9, 14}
  MaxTicks = 5
INVARIANTS
  TimerInv
  SleptEnough
PROPERTIES
  UsesScheduler
  SleepersWakeIfIdle
