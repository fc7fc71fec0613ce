SPECIFICATION Spec
CONSTANTS
  Handlers = {h1, h2}
  Boot = Boot
  Looks = {l1}
  None = None
  MaxRev = 4
  MaxJobs = 3
  MaxSources = 0
  MaxLosses = 0
  MaxFaults = 0
  MaxCrashes = 0
CHECK_DEADLOCK FALSE
SYMMETRY ReviewSymmetry
PROPERTIES
  ReopenSparesDecisions
