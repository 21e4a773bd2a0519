SPECIFICATION Spec
CONSTANTS
    NULL = NULL
    UserFrames = {1, 2, 3}
    KernelFrames = {11, 12, 13, 14, 15, 16}
    PGSIZE = 4
    PHYS_BASE = 16
    PT_ENTRIES = 4
    ADDR_MAX = 32
    main = main
    p1 = p1
    p2 = p2
    Threads = {main, p1, p2}
    Files <- MCFiles
    Commands <- MCCommands
    UserNames = {"echo"}
    MaxExecs = 2
INVARIANTS
  CpuServesThread
  ResourcesAccounted
  ImageRight

  
CHECK_DEADLOCK FALSE
