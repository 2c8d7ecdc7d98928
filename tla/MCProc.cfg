SPECIFICATION ProcSpec
CONSTANTS
  ENTRIES = 4
  HALF = 2
  PAGE_SIZE = 2
  USER_CODE_VADDR = 3
  USER_STACK_VADDR = 128
  HEAP_START_VIRT = 194
  Procs = {p1, p2, p3}
  Images <- TheImages
  ExecSizes = {0, 1}
  UserAddrs = {7}
  Char = 9
  Frames <- TheFrames
  OldTables <- TheOldTables
  OldByte = 7
  Memories = {13, 16, 19, 24}
  MaxHeapPages = 3
SYMMETRY Symmetry
INVARIANTS
  VmmInv
  KernelHalfShared
  UserCopyExact
PROPERTIES
  ForkCopies
  UserHalfPrivate
  LoadedComplete
CHECK_DEADLOCK FALSE
