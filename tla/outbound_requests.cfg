SPECIFICATION FairSpec
CONSTANTS
  k1 = k1
  k2 = k2
  d1 = d1
  d2 = d2
  c1 = c1
  c2 = c2
  s1 = s1
  s2 = s2
  None = None
  Keys = {k1}
  Intents = {"i", "j"}
  Devices = {d1}
  TargetsOf <- EveryDevice
  Untargeted = {}
  Composers = {c1, c2}
  Sweepers = {s1}
  ExpiresAt <- ExpireAtFour
  Outcomes = {"accepted", "approval"}
  AttemptLease = 1
  MaxLifetime = 1
  Retention = 2
  TransientBase = 1
  TransientCap = 1
  TransientAttempts = 1
  RefreshBase = 1
  RefreshCap = 1
  RefreshAttempts = 1
  MaxStall = 1
  Actors = {"owner", "maintenance"}
  MaxTime = 5
  MaxSubmits = 2
  MaxClaims = 2
  MaxGeneration = 3
  MaxFaults = 1
INVARIANTS OneRequestOneMessage
PROPERTIES Settles
CHECK_DEADLOCK FALSE
