SPECIFICATION Spec
CONSTANTS
    Benches = {"list", "hash", "sort", "division", "string", "bitmap", "keyboard", "display", "paging", "mlfqs"}
    Keys <- MCKeys
    HashElems = {1, 2, 3, 4, 5}
    HashKeys <- MCHashKeys
    Hashes <- MCHashes
    MaxLen = 6
    WordBits = 4
    Bytes = {0, 1, 2}
    MemSize = 7
    MaxRows = 3
    MlfqsThreads = {"a", "b", "c"}
    Priorities = {31}
    Nices = {0, 3}
    MaxTicks = 17
    MaxCalls = 3
INVARIANTS
  ListsAgree
  HashIsMap
  
  TerminalRight
  TlbCoherent
  
CHECK_DEADLOCK FALSE
