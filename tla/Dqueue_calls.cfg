CONSTANTS
  a = a
  b = b
  c = c
  timer = timer
  idle = idle
  sendQueue = sendQueue
  receiveQueue = receiveQueue
  d1 = d1
  d2 = d2
  AppTask = {a, b, c}
  tn_timer_task = timer
  tn_idle_task = idle
  TN_NUM_PRIORITY = 4
  BasePriority <- Priorities
  WaitQueue = {sendQueue, receiveQueue}
  WaitLists <- TwoLists
  Timeouts = {1}
  TSliceArgs = {0}
  Data = {d1, d2}
  MaxEntries = 2
  NULL = NULL
SPECIFICATION CallsSpec
INVARIANTS DqSound SchedulerSound
PROPERTY ImplementsChannel
SYMMETRY SameData
