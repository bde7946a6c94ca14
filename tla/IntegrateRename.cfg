SPECIFICATION Spec
CONSTANTS
  a1 = a1
  a2 = a2
  a3 = a3
  f1 = f1
  f2 = f2
  None = None
  Agents = {a1, a2}
  Files = {f1, f2}
  NewFiles = {f1}
  Integrations <- Checking
  Owned <- OwnFile
  MaxEdits = 2
  MaxJobs = 1
  Faults = {}
INVARIANT
  ManifestIsEnforced
CHECK_DEADLOCK FALSE
