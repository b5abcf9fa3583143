\* Replica mail and ordinary mail side by side: an account with up to two
\* active replicas and a shared recipient, and one DID that also asks for
\* ordinary mediation.
CONSTANTS
    p1 = p1
    p2 = p2
    p3 = p3
    p4 = p4
    m1 = m1
    Peers = {p1, p2, p3, p4}
    Mediators = {m1}
    OrdinaryPeers = {p1}
    Forms = {"short"}
    None = None
    MaxActive = 2
    MaxRecipients = 1
    OpenRegistration = TRUE
    MaxPending = 1
    Ttl = 1
    MaxMessages = 1
    MaxRetainedBytes = 3
    Sizes = {2, 4}
    Deadlines = {None}
    MaxForwards = 1
    MaxTime = 1
    MaxId = 2
SPECIFICATION MailSpec
SYMMETRY PeerSymmetry
INVARIANTS
    BoundOnce
    MailSound
PROPERTIES
    RemovalIsFinal
    TargetsAtAcceptance
