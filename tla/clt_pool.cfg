CONSTANTS
  Bounds = 2
  Callers = {c1, c2, c3}
  MaxFd = 6
  NoFd = NoFd
  NoOne = NoOne
  Rounds = 2
  Flags = {0, 1}
  TerminatedInit = {0, 1}
  MaxRefused = 1
SPECIFICATION FairSpec
CHECK_DEADLOCK FALSE
INVARIANTS
  PutNeverRefused
  DescriptorsBounded
  NoForeignAnswer
PROPERTIES
  DestroyLeavesOnlyLost
  ImplementsConnectionPool
  MainReturns
