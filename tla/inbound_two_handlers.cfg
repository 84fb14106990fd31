SPECIFICATION Spec
CONSTANTS
  e1 = e1
  e2 = e2
  s1 = s1
  r1 = r1
  r2 = r2
  w1 = w1
  w2 = w2
  None = None
  Events = {e1}
  Sessions = {s1}
  SessionOf <- OneSession
  Receivers = {r1, r2}
  Workers = {w1}
  KindOf <- OneKind
  Adapter <- AnyKind
  ExpiresAt <- NeverExpires
  Overlap = TRUE
  FaultKinds = {}
  Moderated = {}
  MaxPendingAdmissions = 2
  MaxPendingPerSender = 2
  MaxPendingAge = 2
  LeaseSeconds = 1
  Retention = 1
  MaxTime = 1
  MaxClaims = 0
  MaxSeals = 1
  MaxFaults = 0
INVARIANT AckedIsKept
CHECK_DEADLOCK FALSE
