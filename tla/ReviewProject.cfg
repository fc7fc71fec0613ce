SPECIFICATION FairSpec
CONSTANTS
  Handlers = {h1, h2}
  Boot = Boot
  Looks = {l1, l2}
  None = None
  MaxRev = 3
  MaxJobs = 3
  MaxSources = 1
  MaxLosses = 1
  MaxFaults = 1
  MaxCrashes = 1
CHECK_DEADLOCK FALSE
INVARIANTS
  ReviewInv
  NoOrphanClaim
PROPERTIES
  ClaimIsNotStolen
  ImplementsApprovedFilm
  RendersEnd
