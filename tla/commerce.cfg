\* Negotiation: two alike exchanges, a price the agent may accept and one the owner
\* must approve, a budget that holds one purchase.
CONSTANTS
    n1 = n1
    n2 = n2
    Exchanges = {n1, n2}
    Offers <- MCOffers
    Commitments = {c1}
    Escrows = {e1}
    MaxTotal = 2
    ApprovalAbove = 1
    MaxCounteroffers = 1
    MandateExpires = 2
    BudgetTotal = 2
    MaxOpen = 2
    MaxGeneration = 1
    MaxClock = 2
    MaxWriteFaults = 1
    Nil = Nil
\* OwnerCommand
    Requests = {q1, q2}
    SinkCloses = TRUE
    MaxSubmissions = 4
    MaxJournalFaults = 2
    MaxEpoch = 2
    Nothing = Nothing
\* EconomicSend: two actions of one generation under different fences, one older.
    a1 = a1  a2 = a2  a3 = a3  f1 = f1  f2 = f2
    EconomicActions = {a1, a2, a3}
    Generation <- MCGeneration
    WriterFence <- MCWriterFence
    MaxActions = 2
    NoFence = NoFence
    Senders = {e2, e3}
    MaxSends = 4
    MaxStoreFaults = 2
    NoAction = NoAction
\* Mailbox: one box with room for one message, and five signed requests.
    s1 = s1  s2 = s2  b1 = b1  k1 = k1  k2 = k2
    r1 = r1  r2 = r2  r3 = r3  r4 = r4  r5 = r5
    Slots = {s1, s2}
    BoxOf <- MCBoxOf
    Contents = {k1, k2}
    ExpiresAt <- MCExpiresAt
    AccessRequests = {r1, r2, r3, r4, r5}
    Access <- MCAccess
    RequestExpiry <- MCRequestExpiry
    MaxMessages = 1
    MaxMessagesPerBox = 1
    MaxAccessClaims = 3
    Connections = {h1, h2}
    MaxRelayClock = 3
    MaxRelayCalls = 3
    MaxRelayFaults = 2
    Missing = Missing
    Torn = Torn
\* RetriedDelivery: the compiled schedule, and every small one.
    TransientBase = 1
    TransientCap = 300
    TransientAttempts = 8
    RefreshBase = 5
    RefreshCap = 900
    RefreshAttempts = 4
    MaxBase = 3
    MaxCap = 9
    MaxHolds = 1
\* OwnerDecisions: two connections of the owner and one of the runtime, two decisions,
\* room for one challenge at a time.
    p1 = p1  p2 = p2  p3 = p3
    Decisions = {d1, d2}
    Callers = {p1, p2, p3}
    PrincipalOf <- MCPrincipalOf
    ChallengeLifetime = 1
    MaxOutstanding = 1
    MaxDrawn = 2
    MaxFiles = 3
    MaxCalls = 4
    MaxLives = 2
    MaxOwnerClock = 1
    Unsigned = Unsigned
INIT Init
NEXT Next
VIEW Seen
SYMMETRY Alike
INVARIANTS
    PurchasesAreSound
    ReopensAtHighWater
    
    RelayKeepsDeposits
    RetriesAreBounded
    DecidedAsSigned
PROPERTIES TakesEffectOnce
CHECK_DEADLOCK FALSE
