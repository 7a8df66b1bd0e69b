\* More demand than connections, held while another is asked for, and statements that fail.
CONSTANTS
  algebra = algebra
  botany = botany
  classA = classA
  Loop = {l1, l2}
  Conn = {k1, k2}
  NULL = NULL
  NoName = NoName
  InitSize = 1
  MaxSize = 2
  Content <- Contents
  Id = {1, 2}
  Score = {0, 1}
  Asked <- Additions
  StoredRow <- School
  StoredChoosing <- TwoChoices
  MaxRows = 3
  DbFails = TRUE
SPECIFICATION FairSpec
INVARIANTS AnswerMatchesInsert RecordsInv NeverMisnamed
PROPERTIES Answered Implements
