\* The timeout the server reads from the shipped file, on a pool that demand can exhaust.
CONSTANTS
  Threads = {t1, t2}
  Conn = {c1, c2, c3}
  NULL = NULL
  MaxDepth = 2
  InitSize = 1
  MaxSize = 3
  ConnectionTimeout <- ShippedTimeout
  Spurious = TRUE
  IdleLimit = 1
  MaxClock = 1
SPECIFICATION FairSpec
PROPERTIES GetReturns ProducerSupplies
CHECK_DEADLOCK FALSE
