\* AttachmentUpload: two alike uploads of two chunks, of which one may be leased.
CONSTANTS
    k1 = k1  k2 = k2  h1 = h1  h2 = h2
    UploadKeys = {k1, k2}
    Rounds = {1, 2}
    ChunkCount = 2
    Retention = 3
    StagingGrace = 1
    MaxObjects = 3
    MaxLeases = 1
    MaxUploadClock = 4
    MaxUploadFaults = 1
    NoManifest = NoManifest
\* AttachmentAccess
    q1 = q1  q2 = q2
    AttachmentRequests = {q1, q2}
    RequestExpires <- MCRequestExpires
    Handlers = {h1, h2}
    MaxClaims = 1
    MaxWallClock = 4
    MaxAccessCalls = 4
    MaxAccessFaults = 2
    NoAccess = NoAccess
\* GroupState: two callers, two rooms, and one key package both rooms' Welcome names.
    MLSRooms = {mr1, mr2}
    KeyPackages = {kp1}
    Welcomes = {w1}
    MembershipChoices = {ma, mb}
    PeerMessages = {pm1}
    GroupCallers = {gc1, gc2}
    MaxMLSEpoch = 2
    MaxGroupCalls = 4
    MaxGroupFaults = 2
    NoRecord = NoRecord
\* RoomMembership: a founder, a member and a bystander who founds a room of their own.
    Agents = {ga, gb, gz}
    Founders = {ga, gz}
    Founder = ga
    Bystanders = {gz}
    MaxMembers = 2
    RoomTargets = {rt1}
    MaxRoomEpoch = 3
    MaxRevision = 2
    MaxDecision = 1
    MaxSigned = 4
    MaxRoomFaults = 1
    NoRoom = NoRoom
\* DeviceHistory: three events in pages of two.
    HistoryEvents = {1, 2, 3}
    PageKeys = {pk1, pk2, pk3}
    PageLimit = 2
    MaxSegments = 2
    MaxHistoryClock = 1
    MaxHistoryFaults = 1
    NoPage = NoPage
    TornFile = TornFile
\* ChannelNode: two publishers of four events, two peers, fetches of two events.
    alice = alice  bob = bob  cp1 = cp1  cp2 = cp2
    NoProfile = NoProfile
    NoEvent = NoEvent
    NoHead = NoHead
    Sites = Sites
    MaxFetchEvents = 2
    Profiles <- MCProfiles
    ChannelEvents <- MCEvents
    ChannelPeers = {cp1, cp2}
    Announces <- MCAnnounces
    PeerHas <- MCPeerHas
    Hinted <- MCHinted
    CandidateHeadsPerPeer = 2
    MaxPendingSyncs = 2
    MaxCatchUps = 1
    MaxAttach = 2
    MaxChannelFaults = 1
\* SitesBags: two histories, a bag of each and a damaged one.
    g1 = g1  g2 = g2  g3 = g3
    Bags = {g1, g2, g3}
    BagDir <- MCBagDir
    BagHolds <- MCBagHolds
    LastHistory = 2
    MaxPendingCatchUps = 2
    MaxSitesFaults = 1
    MaxStarts = 2
    Damaged = Damaged
    Missing = Missing
    Torn = Torn
INIT Init
NEXT Next
VIEW Seen
SYMMETRY Alike
INVARIANTS
    AttachmentsAreFetchable
    AccessActsOnce
    GroupSecretsUsedOnce
    
    ImportedIsSound
    ShownIsSound
    LocatorsReproduce
PROPERTIES ReplicaOnlyAdvances
CHECK_DEADLOCK FALSE
