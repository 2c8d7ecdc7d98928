SPECIFICATION SyscallFairSpec
CONSTANTS
  Kthreads = {k1, k2}
  Uthreads = {u1, u2}
  idle = idle
  Repaired = TRUE
INVARIANTS
  SchedulerConsistent
  InterruptDiscipline
  UserContext
  OwnCall
  IretSafe
PROPERTIES
  NoOvertaking
  ExitIsFinal
  SwitchIsVoluntary
  ReadyRuns
\* A walk along a cyclic list does not end, and a thread that thread_exit comes
\* back to takes no known step.
CHECK_DEADLOCK FALSE
