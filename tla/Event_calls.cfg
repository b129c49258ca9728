CONSTANTS
  a = a
  b = b
  c = c
  timer = timer
  idle = idle
  eventQueue = eventQueue
  f1 = f1
  f2 = f2
  AppTask = {a, b, c}
  tn_timer_task = timer
  tn_idle_task = idle
  TN_NUM_PRIORITY = 4
  BasePriority <- Priorities
  WaitQueue = {eventQueue}
  WaitLists <- OneList
  Timeouts = {1}
  TSliceArgs = {0}
  Flags = {f1, f2}
  Attrs = {{"SINGLE"}, {"MULTI"}, {"SINGLE", "CLR"}, {"MULTI", "CLR"}}
  NULL = NULL
SPECIFICATION CallsSpec
INVARIANTS EvSound SchedulerSound
PROPERTY ImplementsFlags
SYMMETRY SameFlags
