\* Two replicas that share one own DID of one entry, two DIDs of the peer, three
\* pieces of evidence, two decisions; and, in a scene of its own, the views over one
\* contact.
SPECIFICATION MCSpec
CONSTANTS
  None = None
  Replicas = {r1, r2}
  Entries = {e1}
  PeerDids = {p1, p2}
  Disclosed = {e1}
  Spelled = {p1}
  MaxEvidence = 3
  MaxDecisions = 2
  Contacts = {k1}
  MaxLearnt = 2
  MaxShown = 1
SYMMETRY Symmetry
CHECK_DEADLOCK FALSE
INVARIANTS
  OneHeadOneRelationship
  ShownWhole
PROPERTIES
  HistoryKept
