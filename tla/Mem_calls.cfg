CONSTANTS
  a = a
  b = b
  c = c
  timer = timer
  idle = idle
  memQueue = memQueue
  AppTask = {a, b, c}
  tn_timer_task = timer
  tn_idle_task = idle
  TN_NUM_PRIORITY = 4
  BasePriority <- Priorities
  WaitQueue = {memQueue}
  WaitLists <- OneList
  Timeouts = {1}
  TSliceArgs = {0}
  Memory <- AllAreas
  Addr <- Cells
  NULL = NULL
SPECIFICATION CallsSpec
INVARIANTS SchedulerSound MemSound BlocksFit
PROPERTY ImplementsPool
