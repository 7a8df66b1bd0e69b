\* Class reports while courses and choices come and go; a pool that is never empty.
CONSTANTS
  algebra = algebra
  botany = botany
  classA = classA
  Loop = {l1, l2}
  Conn = {k1, k2, k3, k4, k5}
  NULL = NULL
  NoName = NoName
  InitSize = 5
  MaxSize = 5
  Content <- Contents
  Id = {1, 2}
  Score = {0, 1}
  Asked <- Reports
  StoredRow <- School
  StoredChoosing <- TwoChoices
  MaxRows = 2
  DbFails = FALSE
SYMMETRY Symmetry
SPECIFICATION Spec
INVARIANTS TypeOK NamesTrue
