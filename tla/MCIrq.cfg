SPECIFICATION IrqSpec
CONSTANTS
  Kthreads = {k1, k2, k3}
  Uthreads = {u1}
  idle = idle
  Repaired = TRUE
  MAX_PORTS = 1
  IPC_MSG_MAX = 2
  Lengths = {3}
  MaxSends = 1
  Irqs = {0}
  Chars = {a, b}
  BUF_SIZE = 3
SYMMETRY Symmetry
INVARIANTS
  IrqInv
  ExactlyOnce
  Synchronous
PROPERTIES
  ImplementsFifo
