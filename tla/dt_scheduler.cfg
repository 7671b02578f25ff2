SPECIFICATION MCSpec
CONSTANTS
  NumThreads = 2
  Faces = {1, 2}
  Flows = {a, b}
  a = a
  b = b
  NextHops <- MCNextHops
  Discovered <- MCDiscovered
  Entries = {e1}
  None = None
  Rates = {1, 2}
  InitRate = 2
  Elapsed = {10}
  Scale = 20
  BurstCap = 2
  QuotaCap = 3
  MaxSend = 2
  ForcedPerRound = 2
  ForcedMax = 2
  MaxInterests = 3
INVARIANTS QueuesAccounted FailedFaceIsVacated
PROPERTIES NoOverGrant SharedQueuesDrain
CHECK_DEADLOCK FALSE
