SPECIFICATION HeapSpec
CONSTANTS
  PAGE_SIZE = 12
  HDR = 4
  ALIGN = 2
  HEAP_INITIAL_PAGES = 1
  PT_ENTRIES = 3
  Frames = 7
  Sizes = {0, 5, 17}
INVARIANTS
  HeapInv
  InUseIsLive
\* A thread that faults inside kmalloc leaves heap_lock held for good.
CHECK_DEADLOCK FALSE
