SPECIFICATION ElfSpec
CONSTANTS
  Kthreads = {k1, k2}
  Uthreads = {u1, u2}
  idle = idle
  NULL = NULL
PROPERTIES
  ExitDoesNotReturn
