SPECIFICATION Spec
CONSTANTS
  Jobs <- BatchJobs
  Workers = {w1, w2}
  Nobody = Nobody
  Cancellable = FALSE
  NItems = 2
  MaxRetry = 3
  MaxFaults = 1
  MaxDeaths = 2
SYMMETRY WorkerSymmetry
INVARIANTS
  BatchInv
  OnlyInterruptionIsRetried
  VerdictInv
PROPERTIES
  ClosedBatchIsFinal
  ImplementsBatchOutcome
