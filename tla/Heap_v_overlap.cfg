SPECIFICATION Spec
CONSTANTS
  total_pages = 6
  RESERVED_PAGES = 1
  HEAP_GROW_PAGES = 2
  PAGE_WORDS = 24
  Sizes = {2, 9, 30}
  LIVE_BOUND = 4
INVARIANT NoOverlap
