------------------------------ MODULE MCEffects -----------------------------
(* Effects for two replicas of one account. *)
EXTENDS Effects, TLC
Symmetric == Permutations(Replicas) \cup Permutations(Intents)

(* No operation is called twice by a replica or under one registration,    *)
(* and no replica contradicts itself in what it admits and acknowledges.   *)
EarnedOnce == CallsEarned /\ OwnRecordsAgree
=============================================================================
