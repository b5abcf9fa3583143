------------------------------ MODULE Drivers ------------------------------
(***************************************************************************)
(* What is beneath the stores: one vault file and those who come to it     *)
(* (event-store's node driver and its checks), the browser's pool of       *)
(* handles, and the mediator's database being opened by several stores.    *)
(* The three share nothing, and each takes its own steps.                  *)
(***************************************************************************)
EXTENDS Database, SqlitePool, StoreOpening

DriversSpec == DatabaseSpec /\ PoolSpec /\ OpeningSpec

(* Whoever opens a vault file finds it whole, its local state belongs to   *)
(* the identity and the events it was taken from, a file that may still be *)
(* made has its handle, and stores that open one database at once agree on *)
(* its tables and keys.                                                    *)
DriversSound == OpensWhole /\ LocalStateSound /\ HandlesSuffice /\ StoreOpens
=============================================================================
