\* Two logins of one student on one loop.
CONSTANTS
  c1 = c1
  c2 = c2
  c3 = c3
  l1 = l1
  l2 = l2
  stu = stu
  tea = tea
  adm = adm
  nobody = nobody
  NONE = NONE
  Account = {stu}
  Blank = {}
  RoleOf <- OneStudent
  Client = {c1, c2}
  Loop = {l1}
  LoopOf <- OneLoop
  DbFails = FALSE
  Crashes = FALSE
SPECIFICATION Spec
INVARIANT OneStudentSession
