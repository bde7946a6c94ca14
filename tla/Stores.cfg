SPECIFICATION StoresSpec
CONSTANTS
  p1 = p1
  p2 = p2
  a1 = a1
  a2 = a2
  a3 = a3
  f1 = f1
  f2 = f2
  None = None
  Parts = {"integrator", "evolution", "self-harness", "experience", "runtime", "packets", "skills"}
  Agents = {a1, a2}
  Files = {f1, f2}
  NewFiles = {f1}
  Integrations <- AskedFor
  Owned <- OwnFile
  MaxEdits = 3
  MaxJobs = 2
  Faults = {"crash", "io"}
  Evolvers <- People
  Drafts <- WrittenDrafts
  CaseFiles <- WrittenCases
  Packets <- MinedPackets
  LineageIdFor <- EvolutionSlugs
  EvolveRuns <- EvolveCommands
  MaxDrafts = 3
  MaxEvolveRuns = 3
  Surfaces = {"skills", "verification"}
  Texts = {"old", "new", "newer"}
  Specs <- SpecFiles
  Solves <- SolvedUnder
  Proposals <- Answered
  FailedTasks = {"t"}
  Taggings <- TaggedFailures
  MaxSlips = 2
  Keepers <- People
  Slugs <- TitleSlugs
  Secrets = {"key"}
  Causes = {"tooling"}
  Requests <- Requested
  MaxRequests = 3
  MaxNow = 2
  Operators <- People
  Targets = {"t"}
  Providers = {"p"}
  Bundles <- BundledFiles
  Leftovers <- FoundThere
  Orders <- Ordered
  RuntimeFaults = {"crash", "silent"}
  MaxVersion = 2
  MaxSourceEdits = 1
  MaxOrders = 2
  MaxErrands = 3
  MaxRewrites = 1
  Readers <- People
  Places <- SkillPlaces
  SkillTexts <- WrittenSkills
  Lookups <- LookedUp
  MaxLookups = 2
  MaxSkillEdits = 1
SYMMETRY OneOf
INVARIANTS
  LandsOwnAndWhole
  AbortIsolates
  LineageIsEarned
  LineageTellsTheConfig
  PinnedRulesHold
  ImportsAreContained
  SyncSettles
  StampIsBacked
  PacketsTellTheirSource
  CatalogIsOfOneScan
CHECK_DEADLOCK FALSE
