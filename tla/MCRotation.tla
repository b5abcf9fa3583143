----------------------------- MODULE MCRotation -----------------------------
\* The instance of Rotation and of Views that TLC checks, as two scenes that
\* share nothing: rotations on several replicas, and the snapshots of a vault
\* whose evidence grows on one.  Replicas and peer DIDs are interchangeable.
EXTENDS Views

VARIABLE scene

Symmetry == Permutations(Replicas) \cup Permutations(Spelled) \cup Permutations(PeerDids \ Spelled)

MCInit ==
    /\ Init
    /\ \/ scene = "rotation" /\ book = BookOf(None)
       \/ scene = "views" /\ ViewsInit

MCNext ==
    /\ UNCHANGED scene
    /\ \/ scene = "rotation" /\ Next /\ UNCHANGED book
       \/ scene = "views" /\ ViewsNext

MCSpec == MCInit /\ [][MCNext]_<<vars, book, scene>>

\* Heads are unique and carried by their own support, and an address chosen
\* for a pair serves the relationship of that pair alone.
OneHeadOneRelationship == scene = "rotation" => HeadSound /\ OneRelationship

\* Every snapshot names only what it holds, shows everything once and offers
\* only what goes through.
ShownWhole == scene = "views" => SnapshotSound
=============================================================================
