\* Three handlers of depth two on a pool that can grow from two to four.
CONSTANTS
  Threads = {t1, t2, t3}
  Conn = {c1, c2, c3, c4}
  NULL = NULL
  MaxDepth = 2
  InitSize = 2
  MaxSize = 4
  ConnectionTimeout = 100
  Spurious = TRUE
  IdleLimit = 1
  MaxClock = 2
SYMMETRY Symmetry
SPECIFICATION Spec
INVARIANTS TypeOK Exclusive CountExact OnlyUnderLoad PoolInv
PROPERTIES ReapComplete ReapOnlyIdle Refines
\* The model ends where the program's behaviour becomes undefined.
CHECK_DEADLOCK FALSE
