CONSTANTS
  a = a
  b = b
  c = c
  timer = timer
  idle = idle
  AppTask = {a, b}
  tn_timer_task = timer
  tn_idle_task = idle
  TN_NUM_PRIORITY = 4
  BasePriority <- TwoTasks
  WaitQueue = {}
  Timeouts = {1}
  TSliceArgs = {0}
  NULL = NULL
SPECIFICATION DisciplinedSpec
INVARIANTS TypeOK ReadyListsSound NextIsHighest NoLostPreemption TimeoutListExact
PROPERTY SuspensionLasts
SYMMETRY Interchangeable
