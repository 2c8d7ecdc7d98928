SPECIFICATION CooperativeSpec
CONSTANTS
  Kthreads = {}
  Uthreads = {u1, u2, u3}
  idle = idle
  Repaired = FALSE
PROPERTIES
  UserThreadsStart
CHECK_DEADLOCK FALSE
