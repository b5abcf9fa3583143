\* Two runtimes that share one arrangement, one of them in a second as well,
\* an address at the shared one, and one fault; or an account and three DIDs
\* to enrol or to share, pages of one or two, two registrations.
CONSTANTS
    r1 = r1
    r2 = r2
    p1 = p1
    p2 = p2
    p3 = p3
    m1 = m1
    m2 = m2
    a1 = a1
    None = None
    Nothing = Nothing
    Runtimes = {r1, r2}
    Replicas = {p1, p2, p3}
    FirstId <- MCFirstId
    Mediations = {m1, m2}
    Addresses = {a1}
    Route <- MCRoute
    Sought <- MCSought
    Retiring = {r2}
    Failing = {r1}
    MaxFaults = 1
    Peers = {1, 2, 3, 4}
    Mediators = {m1}
    OrdinaryPeers = {}
    Forms = {"short"}
    MaxActive = 2
    MaxRecipients = 2
    OpenRegistration = TRUE
    MaxPending = 1
    Holders = {1}
    MaxPage = 2
    MaxTime = 1
    MaxRegistration = 2
SPECIFICATION MCSpec
INVARIANTS
    OneArrangement
    DisclosedSafely
    NeverHalfDone
    ListedExactlyOnce
CHECK_DEADLOCK FALSE
