SPECIFICATION FairSpec
CONSTANTS
  None = None
  d1 = d1
  d2 = d2
  o1 = o1
  t1 = t1
  c1 = c1
  c2 = c2
  Tasks = {t1}
  Candidates = {c1, c2}
  Dispatchers = {d1, d2}
  Operators = {o1}
  CohortIndices = {}
  Stamps = {1}
  MaxRetryEpochs = 1
  MaxAttempts = 2
  Receipts = {"absent"}
  Faults = {}
PROPERTY EveryRouteEnds
CHECK_DEADLOCK FALSE
