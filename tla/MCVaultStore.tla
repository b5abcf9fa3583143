---------------------------- MODULE MCVaultStore ----------------------------
(* VaultStore on two files of which one runtime is open at a time; and, in *)
(* scenes of their own that share nothing with it, one database file and   *)
(* those who come to it, the browser's handles, and the mediator's         *)
(* database being opened by several stores.                                *)
EXTENDS VaultStore, Drivers, TLC

VARIABLE scene

MCInit ==
    /\ Init /\ DatabaseInit /\ PoolInit /\ OpeningInit
    /\ \/ scene \in {"files", "database", "pool"} /\ shape.messages = Nil
       \/ scene = "opening"

Storing == scene = "files" /\ Next /\ UNCHANGED <<scene, dbvars, poolvars, openingVars>>

Laying == scene = "database" /\ DatabaseNext /\ UNCHANGED <<scene, vars, poolvars, openingVars>>

Pooling == scene = "pool" /\ PoolNext /\ UNCHANGED <<scene, vars, dbvars, openingVars>>

Opening == scene = "opening" /\ OpeningNext /\ UNCHANGED <<scene, vars, dbvars, poolvars>>

MCNext == Storing \/ Laying \/ Pooling \/ Opening

MCSpec == MCInit /\ [][MCNext]_<<scene, vars, dbvars, poolvars, openingVars>>
=============================================================================
