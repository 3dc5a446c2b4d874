CONSTANTS
  r1 = r1
  r2 = r2
  ls = ls
  k1 = k1
  Requests = {r1, r2}
  Commands = {ls}
  NoCommand = NoCommand
  CommandOf <- SameCommand
  Codes = {k1}
  Remarks <- SomeRemarks
  MaxComments = 3
  MaxTurns = 2
SPECIFICATION FairSpec
INVARIANTS
  ApprovedByPerson
  OneUseOfAComment
  OneOpenQuestion
PROPERTY RequestsEnd
CHECK_DEADLOCK FALSE
