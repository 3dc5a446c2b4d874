CONSTANTS
  c1 = c1
  c2 = c2
  a = a
  b = b
  m = m
  j = j
  k = k
  Cards = {c1, c2}
  Items = {a, k}
  CardOf <- OnCard
  People = {a}
  Workers = {w1, w2}
  MaxConcurrent = 1
  MaxQueueLength = 2
  MaxAgentHops = 1
  ParallelTools = FALSE
  MaxStops = 1
SPECIFICATION FairSpec
INVARIANTS
  TypeOK
  TurnsWithinLimit
PROPERTIES
  MentionsServed
  AnswersPosted
  StopEnds
CHECK_DEADLOCK FALSE
