CONSTANTS
  a = a
  b = b
  c = c
  timer = timer
  idle = idle
  m1 = m1
  m2 = m2
  AppTask = {a, b, c}
  tn_timer_task = timer
  tn_idle_task = idle
  TN_NUM_PRIORITY = 6
  BasePriority <- Priorities
  WaitQueue = {m1, m2}
  Mutex = {m1, m2}
  Protocols <- BothProtocols
  tn_locked_mutexes_list = locked_list
  tn_blocked_tasks_list = blocked_list
  Timeouts = {1}
  TSliceArgs = {0}
  NULL = NULL
SPECIFICATION CallsSpec
INVARIANTS MxSound SchedulerSound BoostEnds NoMissedLock
PROPERTIES InheritanceLasts ImplementsLock
SYMMETRY SameMutexes
