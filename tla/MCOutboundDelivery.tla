------------------------ MODULE MCOutboundDelivery ------------------------
(* One runtime, and what another replica of its vault may bring it; and,   *)
(* in scenes of their own, the writer lock and the views every commit and  *)
(* collection of a runtime goes through, and what the vault reads of one   *)
(* message while its events arrive.                                        *)
EXTENDS OutboundDelivery, TLC

CONSTANTS Calls, Objects, Written, Foreign, MaxIssued, MaxRuined, MaxEvents

VARIABLES scene, asked, lock, store, reader, life, form, h, arrived

runtimeVars == <<asked, lock, store, reader, life>>
foldVars == <<form, h, arrived>>

(* "e" erases what "h" holds; every other event holds the one object. *)
RT == INSTANCE VaultRuntime WITH
        calls <- asked,
        Events <- Written,
        RootsOf <- [e \in Written |-> IF e = "e" THEN {} ELSE Objects],
        Releases <- [e \in Written |-> IF e = "e" THEN {"h"} ELSE {}]

FD == INSTANCE OutboundFold

MCInit ==
    /\ Init /\ RT!RuntimeInit
    /\ \/ scene \in {"message", "runtime"} /\ form = "send" /\ h = FD!Nothing /\ arrived = 0
       \/ scene = "fold" /\ FD!FoldInit

Delivering == scene = "message" /\ Next /\ UNCHANGED <<scene, runtimeVars, foldVars>>

Locking == scene = "runtime" /\ RT!RuntimeNext /\ UNCHANGED <<scene, vars, foldVars>>

Reading == scene = "fold" /\ FD!FoldNext /\ UNCHANGED <<scene, vars, runtimeVars>>

MCNext == Delivering \/ Locking \/ Reading

MCSpec == MCInit /\ [][MCNext]_<<scene, vars, runtimeVars, foldVars>>

(* VaultRuntime's: roots are held, changes followed, and all runs out.     *)
RuntimeSound == RT!RootsHeld /\ RT!FollowsExactly /\ RT!RunsOut

(* OutboundFold's: what is read of a message for good stays.               *)
VerdictsStand == FD!VerdictsStand
=============================================================================
