SPECIFICATION CommandsSpec
CONSTANTS
  j1 = j1
  j2 = j2
  None = None
  Parts = {"smoke", "companion", "plan", "select"}
  Jobs = {j1, j2}
  Outputs = {"exact", "error"}
  Faults = 1
  Models <- Known
  DefaultTeam <- UsualTeam
  Calls <- Lines
  Targets = {"codex:a", "codex_a", "kimi"}
  Filename <- PlannerFiles
  Panels <- AskedPanels
  PanelFaults = 2
  MaxPanels = 2
  Tasks <- RoundTasks
  Versions = {"a", "b"}
  Passing = {"a"}
  Questions <- RouteLines
  MaxPuts = 3
INVARIANTS
  GoIsEarned
  TeamAccountsForAll
  PlansAreFresh
  TrustIsEarned
PROPERTIES
  EverySmokeEnds
  CompanionAnswers
CHECK_DEADLOCK FALSE
