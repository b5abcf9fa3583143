--------------------------- MODULE MCMediatorMail ---------------------------
(* MediatorMail on a few DIDs; those of one kind are interchangeable. *)
EXTENDS MediatorMail, TLC

PeerSymmetry == Permutations(OrdinaryPeers) \cup Permutations(Peers \ OrdinaryPeers)
=============================================================================
