SPECIFICATION FairSpec
CONSTANTS
  Keys = {k1}
  Contents = {c1, c2}
  NoBytes = NoBytes
  Torn = Torn
  MaxStaged = 2
  MaxFaults = 2
  MaxCrashes = 2
  MaxLosses = 1
CHECK_DEADLOCK FALSE
INVARIANTS
  InboxInv
  AckIsKept
PROPERTIES
  LastCopyIsKept
  ImplementsAcceptedCapture
  CaptureFinishes
