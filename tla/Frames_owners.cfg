SPECIFICATION Spec
CONSTANTS
  total_pages = 18
  RESERVED_PAGES = 1
  PROCESS_BOUND = 2
  HEAP_GROW_PAGES = 2
  PAGES_PER_TABLE = 16
  BOOT_HEAP_PAGES = 1
  KERNEL_PROCESSES = 1
  USER_PAGES = 3
  Commands = {"alloc", "free", "ring3", "exec", "elfinfo"}
INVARIANTS TypeOK CountExact NothingDangles NoPageHasTwoOwners
PROPERTY AllocFresh
