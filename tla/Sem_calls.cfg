CONSTANTS
  a = a
  b = b
  c = c
  timer = timer
  idle = idle
  semQueue = semQueue
  AppTask = {a, b, c}
  tn_timer_task = timer
  tn_idle_task = idle
  TN_NUM_PRIORITY = 4
  BasePriority <- Priorities
  WaitQueue = {semQueue}
  WaitLists <- OneList
  Timeouts = {1}
  TSliceArgs = {0}
  StartCount = 1
  MaxCount = 2
  NULL = NULL
SPECIFICATION CallsSpec
INVARIANTS SemSound SchedulerSound
PROPERTY ImplementsSemaphore
SYMMETRY Interchangeable
