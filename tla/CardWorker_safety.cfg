CONSTANTS
  c1 = c1
  c2 = c2
  a = a
  b = b
  m = m
  j = j
  k = k
  Cards = {c1, c2}
  Items = {a, b, m, j, k}
  CardOf <- OnCard
  People = {a, b, k}
  Workers = {w1, w2, w3}
  MaxConcurrent = 2
  MaxQueueLength = 2
  MaxAgentHops = 1
  ParallelTools = FALSE
  MaxStops = 1
SPECIFICATION WorkersSpec
SYMMETRY WorkerSymmetry
CONSTRAINT OneOfBoth
INVARIANTS
  OneWorkerPerCard
  WorkHasWorker
  TurnOwnsFrontOfQueue
  EveryMentionAnswered
  ChainsBounded
PROPERTY KeepsPromise
CHECK_DEADLOCK FALSE
