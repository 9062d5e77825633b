CONSTANTS
  MIN_THR = 1
  MAX_THR = 1
  QUEUE_MAX = 1
  MIN_WAIT_TASK_NUM = 1
  DEFAULT_THREAD_VARY = 2
  Tasks = {t1, t2, t3}
  Clients = {c1, c2}
  NULL = NULL
  Junk = Junk
  NoOne = NoOne
  Destroyer = Destroyer
  ArgInit = {NULL, Junk}
  WaitExitInit = {0}
  KillOutcomes = {TRUE}
  SpuriousWakeups = FALSE
SPECIFICATION FairSpec
CHECK_DEADLOCK FALSE
INVARIANTS
  ClientsSleepOnlyWhenFull
  SizeWithinCapacity
PROPERTY
  OfferedTasksRun
