CONSTANTS
  a = a
  b = b
  c = c
  timer = timer
  idle = idle
  AppTask = {a, b}
  tn_timer_task = timer
  tn_idle_task = idle
  TN_NUM_PRIORITY = 4
  BasePriority <- TwoTasks
  WaitQueue = {}
  Timeouts = {1, 2}
  TSliceArgs = {1}
  NULL = NULL
SPECIFICATION WaitingLive
PROPERTIES TimedWaitEnds TopmostRuns
