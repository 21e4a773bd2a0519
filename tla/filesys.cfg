SPECIFICATION Spec
CONSTANTS
    NULL = NULL
    ELEM_BITS = 8
    BLOCK_SECTOR_SIZE = 2
    Sectors = 8
    RootEntries = 2
    LongName = "long"
    Names = {"a", "b"}
    Sizes = {1, 3}
    WriteSizes = {3}
    Positions = {1}
    h1 = h1
    h2 = h2
    Handles = {h1, h2}
    Failing = {"none", "bounce", "dir", "inode", "disk_inode", "file"}
    ScratchArchive <- MCArchive
    MaxCalls = 6
    MaxCrashes = 1
    MaxUtil = 1
SYMMETRY MCSymmetry
INVARIANTS
  
  FilesKeepData
  
PROPERTIES
  ArchiveHoldsFile
CHECK_DEADLOCK FALSE
