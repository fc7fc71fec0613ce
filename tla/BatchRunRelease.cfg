SPECIFICATION Spec
CONSTANTS
  Jobs <- BatchJobs
  Workers = {w1}
  Nobody = Nobody
  Cancellable = FALSE
  NItems = 1
  MaxRetry = 0
  MaxFaults = 0
  MaxDeaths = 0
INVARIANTS
  EveryChildIsReleased
