SPECIFICATION Spec
CONSTANTS
  main = main
  t2 = t2
  t3 = t3
  t4 = t4
  l1 = l1
  l2 = l2
  s1 = s1
  c1 = c1
  Threads = {main, t2, t3}
  Main = main
  Idle = idle_thread
  Locks = {l1, l2}
  Semas = {}
  Conds = {}
  MonitorLock <- NoMonitor
  NULL = NULL
  PRI_MAX = 2
  PRI_DEFAULT = 1
  TIME_SLICE = 1
  STORED_MAX = 30
  MaxValue = 2
  MaxTicks = 0
  Api = {"thread_create", "thread_exit", "thread_set_priority", "lock_acquire", "lock_try_acquire", "lock_release", "timer"}
SYMMETRY Workers
INVARIANTS
  DonationsBacked
  BasePriorityKept
PROPERTIES
  SwitchesToHighest
  LockIsMutex
CHECK_DEADLOCK FALSE
