SPECIFICATION PartsSpec
CONSTANTS
  t1 = t1
  t2 = t2
  Ids = {t1, t2}
  Manifests <- TwoTasks
  None = None
  Careful = TRUE
  Caps = {1}
  MaxFindings = 0
  Unset = Unset
  Parts = {"run", "loop"}
INVARIANTS
  DoneIsCached
  PassIsEarned
  KeepBest
  DoneIsEarned
  LoopIsBounded
PROPERTIES
  AdviceIsSafe
CHECK_DEADLOCK FALSE
