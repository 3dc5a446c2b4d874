CONSTANTS
  Mentions <- SomeMentions
  Answers = {}
  MaxComments = 3
  MaxIds = 4
  MaxResets = 2
  MaxCrashes = 1
SPECIFICATION Spec
PROPERTY ResetKept
CHECK_DEADLOCK FALSE
