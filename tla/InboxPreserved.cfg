SPECIFICATION Spec
CONSTANTS
  Keys = {k1}
  Contents = {c1, c2}
  NoBytes = NoBytes
  Torn = Torn
  MaxStaged = 2
  MaxFaults = 0
  MaxCrashes = 3
  MaxLosses = 0
CHECK_DEADLOCK FALSE
SYMMETRY InboxSymmetry
INVARIANTS
  AcceptedIsPreserved
