\* A patient and a hasty client on one loop, a third on another.
CONSTANTS
  a = a
  b = b
  d = d
  l1 = l1
  l2 = l2
  Client = {a, b, d}
  Loop = {l1, l2}
  LoopOf <- SharedLoop
  Asks <- Requests
  Patient = {a}
  Whole = {a, d}
SPECIFICATION FairSpec
INVARIANTS TypeOK LostOnlyIfHasty ThrowsOnlyAtFault WireInv
PROPERTIES Implements PatientServed
\* The clients may have closed and all be gone.
CHECK_DEADLOCK FALSE
