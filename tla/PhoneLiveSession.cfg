SPECIFICATION StorefrontSpec
CONSTANTS
  Requests = {a1, a2}
  Uploaders = {k1}
  Unset = Unset
  MaxTime = 1
  MaxRetries = 2
  MaxRestarts = 1
  Shares = {a1, a2}
  Tabs = {b1, b2}
  Challenges = {c1, c2}
  Sessions = {s1, s2}
  NoSession = NoSession
  MaxQueue = 1
  MaxAttempts = 1
  Collectors = {k1}
  Publications = {p1}
  Supported = {m1, m2}
  Unsupported = {m3}
  LastDay = 2
  MaxRecords = 2
  Videos = {a1, a2}
  Closed = Closed
  MaxLoads = 3
  MaxAsked = 1
  MaxVersion = 2
CHECK_DEADLOCK FALSE
SYMMETRY StorefrontSymmetry
PROPERTIES
  LiveSessionIsKept
