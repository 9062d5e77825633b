CONSTANTS
  MIN_THR = 1
  MAX_THR = 1
  MIN_WAIT_TASK_NUM = 2
  DEFAULT_THREAD_VARY = 1
  Tasks = {t1}
  Clients = {c1}
  NULL = NULL
  NoOne = NoOne
  WaitExitInit = {0}
  KillOutcomes = {TRUE}
  SpuriousWakeups = TRUE
SPECIFICATION FairSpec
CHECK_DEADLOCK FALSE
PROPERTY
  QueueDrains
