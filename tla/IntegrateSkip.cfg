SPECIFICATION Spec
CONSTANTS
  a1 = a1
  a2 = a2
  a3 = a3
  f1 = f1
  f2 = f2
  None = None
  Agents = {a1, a2, a3}
  Files = {f1, f2}
  NewFiles = {}
  Integrations <- Skipping
  Owned <- OwnFile
  MaxEdits = 3
  MaxJobs = 1
  Faults = {}
PROPERTY
  ConflictIsIsolated
CHECK_DEADLOCK FALSE
