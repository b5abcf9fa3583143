\* Three DIDs (an account and two replicas), one input, a clock of two ticks
\* to the second, registrations that are purged while responders still ask.
\* In scenes of their own: one peer's evidence, two did:web names and a cache
\* of one, and four records of two replicas.
CONSTANTS
    p1 = p1
    p2 = p2
    p3 = p3
    m1 = m1
    e1 = e1
    Peers = {p1, p2, p3}
    Mediators = {m1}
    OrdinaryPeers = {}
    Forms = {"short"}
    None = None
    MaxActive = 2
    MaxRecipients = 1
    OpenRegistration = TRUE
    MaxPending = 0
    Executions = {e1}
    Grain = 2
    RetainSeconds = 1
    MaxRetained = 1
    MaxListed = 2
    MaxTime = 3
    MaxRegistration = 2
    MailTtl = 2
    MaxRecorded = 3
    w1 = w1
    w2 = w2
    WebNames = {w1, w2}
    CacheTtl = 1
    CacheMax = 1
    MaxFlight = 1
    MaxClock = 4
    MaxVersion = 2
    MaxAsks = 2
    r1 = r1
    r2 = r2
    Replicas = {r1, r2}
    MaxEvents = 4
SPECIFICATION MCSpec
SYMMETRY PeerSymmetry
INVARIANTS
    OneAnswererPerRegistration
    NotAllLeaveIt
PROPERTIES
    EvidenceHolds
CHECK_DEADLOCK FALSE
