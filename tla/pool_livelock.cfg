\* A timeout that is not zero, on a pool whose producer spins.
CONSTANTS
  Threads = {t1, t2}
  Conn = {c1, c2}
  NULL = NULL
  MaxDepth = 2
  InitSize = 2
  MaxSize = 2
  ConnectionTimeout = 100
  Spurious = FALSE
  IdleLimit = 1
  MaxClock = 0
SPECIFICATION FairSpec
PROPERTY GetReturns
CHECK_DEADLOCK FALSE
