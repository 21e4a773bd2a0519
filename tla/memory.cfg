SPECIFICATION Spec
CONSTANTS
    ELEM_BITS = 32
    Threads = {t1, t2}
    NULL = NULL
    FreePages = 6
    user_page_limit = 3
    Offsets = {0, 12, 1036, 2060}
    FirstBlockSize = 1024
    SIZE_BITS = 16
    Sizes = {1000, 5000}
    CallocArgs = {2, 300}
    PageCounts = {2}
    MaxOwned = 1
INVARIANTS
  OwnersKeepData
  HeapSound
PROPERTIES
  RefinesHeap
