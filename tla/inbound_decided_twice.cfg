SPECIFICATION Spec
CONSTANTS
  e1 = e1
  e2 = e2
  s1 = s1
  r1 = r1
  r2 = r2
  w1 = w1
  w2 = w2
  None = None
  Events = {e1}
  Sessions = {s1}
  SessionOf <- OneSession
  Receivers = {r1}
  Workers = {w1}
  KindOf <- TwoKinds
  Adapter <- TypedAdapters
  ExpiresAt <- NeverExpires
  Overlap = FALSE
  FaultKinds = {}
  Moderated = {}
  MaxPendingAdmissions = 1
  MaxPendingPerSender = 1
  MaxPendingAge = 2
  LeaseSeconds = 1
  Retention = 1
  MaxTime = 3
  MaxClaims = 2
  MaxSeals = 1
  MaxFaults = 0
PROPERTY OwnerDecidesOnce
CHECK_DEADLOCK FALSE
