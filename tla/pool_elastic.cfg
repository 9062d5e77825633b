CONSTANTS
  MIN_THR = 1
  MAX_THR = 3
  QUEUE_MAX = 2
  MIN_WAIT_TASK_NUM = 1
  DEFAULT_THREAD_VARY = 2
  Tasks = {t1, t2, t3}
  Clients = {c1, c2}
  NULL = NULL
  Junk = Junk
  NoOne = NoOne
  Destroyer = Destroyer
  ArgInit = {NULL}
  WaitExitInit = {0, 1}
  KillOutcomes = {TRUE, FALSE}
  SpuriousWakeups = TRUE
SPECIFICATION Spec
SYMMETRY Symmetry
CHECK_DEADLOCK FALSE
INVARIANTS
  TypeOK
  LiveCounted
  NoIdleWhileQueued
  FreedLastUnlessShrunk
  JoinsRealThreads
  JoinedStayDead
PROPERTY
  ImplementsTaskPool
