\* PrekeyGenerations: two devices, one of which may be revoked, and two finalizers.
CONSTANTS
    da = da  db = db  dc = dc
    PrekeyDevices = {da, db}
    LocalDevice = da
    Rosters <- MCRosters
    GenerationLifetime = 2
    ReplenishBefore = 1
    DelegationExpires = 7
    MaxRetiredDevicePrekeys = 1
    Finalizers = {h1, h2}
    MaxPrekeyClock = 3
    MaxPrekeyFaults = 1
    MaxRosterChanges = 2
    NoCollection = NoCollection
\* PeerDirectory: three generations, two of them of one moment, and two callers.
    u1 = u1  u2 = u2
    Generations <- MCGenerations
    DescriptorLifetime = 4
    LocatorLifetime = 4
    RefreshLead = 1
    DirectoryCallers = {u1, u2}
    MaxDirectoryClock = 3
    MaxDirectoryFaults = 1
    MaxInvalidations = 1
    NoEntry = NoEntry
\* Ratchet
    MaxSkippedKeys = 2
    MaxSeenMessages = 1
    MaxSealed = 3
    NoChain = NoChain
    Refused = Refused
\* AdmissionGate: two strangers, two invites of which one is anybody's, two handlers.
    i1 = i1  i2 = i2  ag = ag  ah = ah  h1 = h1  h2 = h2
    NoInvite = NoInvite
    NoGateEvent = NoGateEvent
    GateEvents <- MCGateEvents
    Invites = {i1, i2}
    Policies = {"tell", "invite"}
    InviteFor <- MCInviteFor
    GateHandlers = {h1, h2}
    KnownAgents = {}
    BlockedAgents = {}
    MaxClockSkew = 0
    ClaimRetention = 2
    InviteLifetime = 1
    MaxInvites = 1
    MaxHeld = 1
    MaxGateClock = 2
    MaxGateFaults = 1
\* Reachability
    TrialsOnOffer <- MCTrials
    RequiredScenarios <- MCRequired
    MaxTrials = 5
    MinSamplesPerCell = 1
    MinOperatorsPerCell = 2
    MinSitesPerCell = 2
    MaxTrialsPerOperatorPerCell = 1
    MinSurvivalSamplesPerCell = 1
    MinReconnectSamples = 1
    MinEchoSamples = 1
    MinTransferSamples = 1
    DirectViableRate <- HalfRate
    TunnelViableRate <- FullRate
    MinSurvivalRate <- HalfRate
    MinSuccessRate <- HalfRate
\* ProbeSession: seconds; one RLDP slot.
    PairTimeout = 2
    PunchTimeout = 2
    HoldWindow = 3
    PingTimeout = 1
    DoneSignalGrace = 1
    RLDPPlans = 1
    MeasureReconnect = TRUE
    TunnelConfigured = TRUE
    SessionTTL = 20
    MaxProbeClock = 20
    MaxPollLosses = 2
\* TunnelRelay: a session of two clients, a lone client, one spare endpoint.
    ca = ca  cb = cb  cc = cc  ta = ta  tb = tb  tc = tc  td = td  s1 = s1  s2 = s2
    TunnelClients = {ca, cb, cc}
    SessionOf <- MCSessionOf
    RoleOf <- MCRoleOf
    HomeTuple <- MCHomeTuple
    SpareTuples = {td}
    TunnelTTL = 1
    MaxTunnels = 1
    TunnelBudget = 1
    MaxTunnelClock = 3
    MaxTokens = 3
    MaxRebinds = 1
    NoToken = 0
    NoEndpoint = NoEndpoint
    NoBinding = NoBinding
\* PunchProbe: two coordinators, six pairs of NATs, two lost datagrams.
    Coordinators <- MCCoordinators
    ColdSources <- MCColdSources
    NATs <- MCNATs
    BindTimeout = 2
    PeerTimeout = 3
    PunchWindow = 6
    LingerWindow = 4
    SilentRoundLimit = 1
    GrantCapacity = 2
    GrantTTL = 2
    MaxCandidates = 2
    MaxSkew = 2
    MaxLost = 2
    MaxPunchClock = 14
\* IntentCarrier: two publications and the withdrawal of the first.
    a1 = a1  a2 = a2  a3 = a3  f1 = f1  f2 = f2
    EconomicActions = {a1, a2, a3}
    Generation <- MCGeneration
    WriterFence <- MCWriterFence
    Withdrawn <- MCWithdrawn
    Actor <- MCActor
    Challenges = {c1, c2, c3}
    MaxEntries = 2
    MaxActorEntries = 2
    MaxActions = 3
    NoFence = NoFence
    Publishers = {p1, p2}
    MaxRequests = 4
    MaxCarrierFaults = 2
    NoOperation = NoOperation
INIT Init
NEXT Next
VIEW Seen
SYMMETRY Alike
INVARIANTS
    PublishedIsAnswered
    EndpointStaysReachable
    KeysOpenOnce
    
    
    
    MeasuredAsItIs
    TunnelsAreExclusive
    CarrierKeepsEntries
PROPERTIES PublicationSucceeds PeerSucceeds
CHECK_DEADLOCK FALSE
