\* A teacher and students without id and password, two loops, statements that fail.
CONSTANTS
  c1 = c1
  c2 = c2
  c3 = c3
  l1 = l1
  l2 = l2
  stu = stu
  tea = tea
  adm = adm
  nobody = nobody
  NONE = NONE
  Account = {tea, nobody}
  Blank = {nobody}
  RoleOf <- OneTeacherAndNobody
  Client = {c1, c2, c3}
  Loop = {l1, l2}
  LoopOf <- SharedLoop
  DbFails = TRUE
  Crashes = TRUE
SYMMETRY Symmetry
SPECIFICATION Spec
INVARIANTS RegisteredSessions MapInv
