\* One ordinary account and one replica mediation of two DIDs, two blobs, two
\* tokens, crashes.
CONSTANTS
    p1 = p1
    p2 = p2
    p3 = p3
    m1 = m1
    h1 = h1
    h2 = h2
    Peers = {p1, p2, p3}
    Mediators = {m1}
    OrdinaryPeers = {p1}
    Forms = {"long"}
    None = None
    MaxActive = 1
    MaxRecipients = 1
    OpenRegistration = TRUE
    MaxPending = 1
    Hashes = {h1, h2}
    BlobSizes = {2}
    Quota = 3
    Retain = 1
    GrantTime = 1
    MaxTime = 1
    MaxBlob = 2
    MaxToken = 2
SPECIFICATION BlobsSpec
SYMMETRY PeerSymmetry
INVARIANTS
    BlobsSound
