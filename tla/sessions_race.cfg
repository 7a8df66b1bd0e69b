\* Two logins of one teacher on two loops.
CONSTANTS
  c1 = c1
  c2 = c2
  c3 = c3
  l1 = l1
  l2 = l2
  stu = stu
  tea = tea
  adm = adm
  nobody = nobody
  NONE = NONE
  Account = {tea}
  Blank = {}
  RoleOf <- OneTeacher
  Client = {c1, c2}
  Loop = {l1, l2}
  LoopOf <- OneLoopEach
  DbFails = FALSE
  Crashes = FALSE
SPECIFICATION Spec
INVARIANT OneSession
