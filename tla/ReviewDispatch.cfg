SPECIFICATION Spec
CONSTANTS
  None = None
  d1 = d1
  d2 = d2
  o1 = o1
  t1 = t1
  c1 = c1
  c2 = c2
  Tasks = {t1}
  Candidates = {c1, c2}
  Dispatchers = {d1, d2}
  Operators = {o1}
  CohortIndices = {1}
  Stamps = {1}
  MaxRetryEpochs = 1
  MaxAttempts = 2
  Receipts = {"absent"}
  Faults = {"crash", "lock", "torn", "unsynced", "throw"}
SYMMETRY Symmetry
INVARIANTS
  OneDispatcherPerRoute
  TerminalTellsTruth
  OneAdmissionPerTask
  OneReviewUnlessAbandoned
PROPERTIES
  ImplementsLedger
CHECK_DEADLOCK FALSE
