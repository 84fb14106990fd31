SPECIFICATION FairSpec
CONSTANTS
  p1 = p1
  p2 = p2
  p3 = p3
  k1 = k1
  None = None
  Handlers = {h1, h2}
  Maintainer = mt
  Mandates = {m1}
  Purchases = {p1}
  ToolKeys = {k1}
  Actions <- Reworded
  MaxTotal <- Total2
  ApprovalAbove <- One
  ExpiresAt <- Late
  Price <- Unit
  NotAfter <- Lasting
  UnattendedCeiling = "message"
  OwnInitiativeCeiling = "physical-io"
  MaxReservations = 1
  MaxPendingActions = 1
  MaxPendingAge = 1
  MaxMandates = 1
  Overlap = TRUE
  FaultKinds = {"crash", "error"}
  MaxFaults = 1
  MaxTime = 2
INVARIANTS AuthorisedOnce
PROPERTIES DecisionIsFinal PendingEnds
CHECK_DEADLOCK FALSE
