SPECIFICATION FairSpec
CONSTANTS
  Jobs <- BatchJobs
  Workers = {w1, w2}
  Nobody = Nobody
  Cancellable = FALSE
  NItems = 1
  MaxRetry = 3
  MaxFaults = 1
  MaxDeaths = 2
PROPERTIES
  BatchFinishes
  ImplementsRenderOnce
