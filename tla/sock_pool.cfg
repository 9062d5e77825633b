CONSTANTS
  Capacity = 2
  Callers = {c1, c2, c3}
  Objects = {o1, o2, o3}
  NULL = NULL
  Main = Main
  NoOne = NoOne
  FdLimit = 4
  Calls = 5
  MaxRefusals = 2
SPECIFICATION FairSpec
CHECK_DEADLOCK FALSE
INVARIANTS
  NoneLost
PROPERTIES
  ImplementsConnectionPool
  CallersReturn
