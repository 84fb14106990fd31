SPECIFICATION Spec
CONSTANTS
  k1 = k1
  k2 = k2
  d1 = d1
  d2 = d2
  c1 = c1
  c2 = c2
  s1 = s1
  s2 = s2
  None = None
  Keys = {k1}
  Intents = {"i"}
  Devices = {d1}
  TargetsOf <- EveryDevice
  Untargeted = {k1}
  Composers = {c1}
  Sweepers = {s1}
  ExpiresAt <- ExpireAtFive
  Outcomes = {"accepted"}
  AttemptLease = 1
  MaxLifetime = 2
  Retention = 2
  TransientBase = 1
  TransientCap = 1
  TransientAttempts = 2
  RefreshBase = 1
  RefreshCap = 1
  RefreshAttempts = 1
  MaxStall = 9
  Actors = {}
  MaxTime = 4
  MaxSubmits = 2
  MaxClaims = 3
  MaxGeneration = 3
  MaxFaults = 0
INVARIANTS GivenUpAfterSealing
CHECK_DEADLOCK FALSE
