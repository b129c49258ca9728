CONSTANTS
  a = a
  b = b
  c = c
  timer = timer
  idle = idle
  semQueue = semQueue
  AppTask = {a, b}
  tn_timer_task = timer
  tn_idle_task = idle
  TN_NUM_PRIORITY = 4
  BasePriority <- TwoTasks
  WaitQueue = {semQueue}
  WaitLists <- OneList
  Timeouts = {1}
  TSliceArgs = {0}
  StartCount = 1
  MaxCount = 1
  NULL = NULL
SPECIFICATION TimedSpec
INVARIANT ReadyListsSound
