SPECIFICATION Spec
CONSTANTS
  p1 = p1
  p2 = p2
  p3 = p3
  k1 = k1
  None = None
  Handlers = {h1}
  Maintainer = mt
  Mandates = {m1}
  Purchases = {p1, p2, p3}
  ToolKeys = {}
  Actions <- DescribedOnce
  MaxTotal <- Total2
  ApprovalAbove <- One
  ExpiresAt <- Late
  Price <- Unit
  NotAfter <- Lasting
  UnattendedCeiling = "spend"
  OwnInitiativeCeiling = "spend"
  MaxReservations = 2
  MaxPendingActions = 1
  MaxPendingAge = 1
  MaxMandates = 1
  Overlap = FALSE
  FaultKinds = {"crash", "error"}
  MaxFaults = 2
  MaxTime = 3
INVARIANTS SpendIsCovered
CHECK_DEADLOCK FALSE
