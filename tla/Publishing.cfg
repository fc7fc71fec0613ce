SPECIFICATION FairSpec
CONSTANTS
  Ops = {op1}
  Threads = {t1, t2, t3}
  NoThread = NoThread
  MaxAttempts = 2
  MaxCrashes = 2
  MaxFaults = 1
INVARIANTS
  PublishingInv
  LiveCallOwnsAttempt
PROPERTIES
  SettledIsFinal
  ApprovalSurvivesRecovery
  ImplementsPublishOnce
  StaleRunIsSettled
