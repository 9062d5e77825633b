CONSTANTS
  Conns = {k1, k2}
  Requests = 3
  MaxReplies = 1
  MaxFd = 2
  Errno = 1
  Slots = 2
  NoConn = NoConn
SPECIFICATION FairSpec
CHECK_DEADLOCK FALSE
INVARIANTS
  OneThreadPerConnection
  LeakedOnlyOnReset
  SigpipeOnlyAfterTwo
PROPERTY
  RequestsHandled
