--------------------------- MODULE MCMediatorBlobs ---------------------------
(* MediatorBlobs on a few DIDs, those of one kind being interchangeable. *)
EXTENDS MediatorBlobs, TLC

PeerSymmetry ==
    Permutations(OrdinaryPeers) \cup Permutations(Peers \ OrdinaryPeers) \cup Permutations(Hashes)
=============================================================================
