SPECIFICATION Spec
CONSTANTS
    t1 = t1
    t2 = t2
    Threads = {t1, t2}
    Main = t1
    NULL = NULL
    CHANNEL_CNT = 1
    capacity <- MCCapacity
    MAX_CAPACITY = 8
    SECTOR_BITS = 3
    MaxTables = 3
    Registers <- MCRegisters
    Tables <- MCTables
    bdev_name <- MCNames
INVARIANTS
  ChannelQuiet
PROPERTIES
  RefinesAtomicDisk
  AccessesStayInBlock
  
CHECK_DEADLOCK FALSE
