SPECIFICATION OrderedSpec
CONSTANTS
  d1 = d1
  d2 = d2
  keeper = keeper
  k1 = k1
  cc_qwen = cc_qwen
  qwen = qwen
  kimi = kimi
  code = code
  None = None
  Dispatches <- Both
  TaskClient = keeper
  Clients <- BothAndKeeper
  Clerks = {k1}
  Types = {code}
  Bench <- BenchOf
  AgentNames <- Names
  Targets = {cc_qwen, qwen}
  NormalAgent <- Normal
  MaxDecays = 1
  Unit = 2
  Faults = {"crash", "io"}
  Workloads <- AllWork
INVARIANTS
  OneStory
  CountedOnce
  RankIsEarned
PROPERTIES
  RecordOnlyGrows
  DispatchEnds
CHECK_DEADLOCK FALSE
