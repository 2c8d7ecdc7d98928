SPECIFICATION ElfSpec
CONSTANTS
  Kthreads = {k1, k2}
  Uthreads = {u1, u2}
  idle = idle
  NULL = NULL
INVARIANTS
  ListInv
PROPERTIES
  ImplementsQueue
\* A walk along a cyclic list does not end, and the CPU stops.
CHECK_DEADLOCK FALSE
