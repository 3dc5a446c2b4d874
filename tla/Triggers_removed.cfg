CONSTANTS
  People = {"ann", "eve"}
  TrustedUsers = {"ann"}
  Words = {"w1", "w2"}
  MaxChanges = 4
SPECIFICATION Spec
INVARIANT OnlyTrustedEdited
CHECK_DEADLOCK FALSE
