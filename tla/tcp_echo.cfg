CONSTANTS
  MaxConn = 3
  Tasks = 2
  Exchanges = 2
  Caps = {2, 4}
  HeaderLen = 2
  BodyLen = 2
  MaxFd = 2
  MaxDeaths = 1
SPECIFICATION FairSpec
CHECK_DEADLOCK FALSE
INVARIANTS
  DeliveredInOrder
  LockStep
  NeverSigpipe
PROPERTY
  ExchangesEnd
