SPECIFICATION FairSpec
CONSTANTS
  a = a
  b = b
  Keys = {a, b}
  TaskLists <- PlannedOrCut
  MaxCalls = 2
  Faults = {"io", "crash"}
  None = None
INVARIANTS
  DoneHasResult
PROPERTIES
  ImplementsBarrier
  ReturnsAreJoined
  EveryWaitEnds
CHECK_DEADLOCK FALSE
