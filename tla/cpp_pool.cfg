CONSTANTS
  MIN_THR = 1
  MAX_THR = 3
  MIN_WAIT_TASK_NUM = 1
  DEFAULT_THREAD_VARY = 2
  Tasks = {t1, t2, t3}
  Clients = {c1}
  NULL = NULL
  NoOne = NoOne
  WaitExitInit = {0, 1}
  KillOutcomes = {TRUE, FALSE}
  SpuriousWakeups = TRUE
SPECIFICATION Spec
SYMMETRY Symmetry
CHECK_DEADLOCK FALSE
INVARIANTS
  CountsRight
PROPERTY
  ImplementsTaskPool
