CONSTANTS
  c1 = c1
  c2 = c2
  a = a
  b = b
  m = m
  j = j
  k = k
  Cards = {c1, c2}
  Items = {a, b, k}
  CardOf <- OnCard
  People = {a, b, k}
  Workers = {w1, w2, w3}
  MaxConcurrent = 1
  MaxQueueLength = 2
  MaxAgentHops = 1
  ParallelTools = TRUE
  MaxStops = 0
SPECIFICATION Spec
SYMMETRY WorkerSymmetry
INVARIANT EveryMentionAnswered
CHECK_DEADLOCK FALSE
