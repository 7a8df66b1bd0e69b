\* A teacher and an administrator, two loops, statements that succeed.
CONSTANTS
  c1 = c1
  c2 = c2
  c3 = c3
  l1 = l1
  l2 = l2
  stu = stu
  tea = tea
  adm = adm
  nobody = nobody
  NONE = NONE
  Account = {tea, adm}
  Blank = {}
  RoleOf <- TwoStaff
  Client = {c1, c2, c3}
  Loop = {l1, l2}
  LoopOf <- SharedLoop
  DbFails = FALSE
  Crashes = TRUE
SPECIFICATION FairSpec
INVARIANTS TypeOK OnePerLoop ResetClears LoopInv
PROPERTIES InterruptFrees KeepsAccounts
