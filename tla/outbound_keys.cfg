SPECIFICATION Spec
CONSTANTS
  k1 = k1
  k2 = k2
  d1 = d1
  d2 = d2
  c1 = c1
  c2 = c2
  s1 = s1
  s2 = s2
  None = None
  Keys = {k1, k2}
  Intents = {"i"}
  Devices = {d1}
  TargetsOf <- EveryDevice
  Untargeted = {}
  Composers = {c1}
  Sweepers = {s1, s2}
  ExpiresAt <- ExpireAtThree
  Outcomes = {"accepted", "lost"}
  AttemptLease = 1
  MaxLifetime = 2
  Retention = 2
  TransientBase = 1
  TransientCap = 1
  TransientAttempts = 1
  RefreshBase = 1
  RefreshCap = 1
  RefreshAttempts = 1
  MaxStall = 9
  Actors = {"ingress"}
  MaxTime = 2
  MaxSubmits = 2
  MaxClaims = 3
  MaxGeneration = 3
  MaxFaults = 1
SYMMETRY TwoSweepers
INVARIANTS KeyUsedOnce DeliveredAsSealed
PROPERTIES DeliveriesOnlyAdvance
CHECK_DEADLOCK FALSE
