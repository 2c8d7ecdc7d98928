SPECIFICATION SchedFairSpec
CONSTANTS
  Kthreads = {}
  Uthreads = {u1, u2, u3}
  idle = idle
  Repaired = TRUE
PROPERTIES
  Preemptive
\* A thread added twice and exited is switched to again, and takes no known step.
CHECK_DEADLOCK FALSE
