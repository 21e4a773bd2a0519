SPECIFICATION FairSpec
CONSTANTS
  main = main
  t2 = t2
  t3 = t3
  t4 = t4
  l1 = l1
  l2 = l2
  s1 = s1
  c1 = c1
  Threads = {main, t2, t3}
  Main = main
  Idle = idle_thread
  Locks = {}
  Semas = {}
  Conds = {}
  MonitorLock <- NoMonitor
  NULL = NULL
  PRI_MAX = 1
  PRI_DEFAULT = 1
  TIME_SLICE = 2
  STORED_MAX = 30
  MaxValue = 2
  MaxTicks = 2
  Api = {"thread_create", "thread_exit", "thread_yield", "timer_sleep", "timer"}
PROPERTIES
  WakesOnTime
  AlarmRings
  TopPriorityRuns
