SPECIFICATION Spec
CONSTANTS
    w1 = w1
    w2 = w2
    r1 = r1
    Threads = {w1, w2, r1}
    Readers = {r1}
    NULL = NULL
    INTQ_BUFSIZE = 2
    LineLength = 2
    MaxHandler = 1
    Scancodes = {30}
    MaxKeys = 2
INVARIANTS
  NoPanic
  
  
  LinesNotMixed
PROPERTIES
  CallsFinish
CHECK_DEADLOCK FALSE
