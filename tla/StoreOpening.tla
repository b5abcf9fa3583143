---------------------------- MODULE StoreOpening ----------------------------
(***************************************************************************)
(* The mediator's database opened by several stores at once: one for each  *)
(* isolate and origin, or one for each process (store/sql-store.ts init).  *)
(* Before its first request a store brings the tables, of whichever former *)
(* shape, up to date in batches, each one transaction; between what it     *)
(* read and its batch another store may have done the same.  A store that  *)
(* is ready serves requests and holds the mediator's keys (identity-core.ts *)
(* loadOrCreateSecrets, workers/env.ts cachedSecrets).                     *)
(*                                                                         *)
(* A table is the set of those of its columns that ever came or went.  Any *)
(* batch may fail for the database's own reasons, and a process may die    *)
(* between two.                                                            *)
(***************************************************************************)
EXTENDS Naturals, FiniteSets

CONSTANTS SqlStores, Nil,
          MaxFailures, MaxRows     \* bounds

Columns ==
    {"next_did", "forward_id", "registration", "mediation_id", "removed_at", "replica_id", "owner_did", "hash"}

(* No table is no set of columns, and nobody has nobody's keys. *)
ASSUME OpeningAssumption ==
    /\ IsFiniteSet(SqlStores) /\ Nil \notin SqlStores
    /\ \A present \in SUBSET Columns : present # Nil

VARIABLES shape,     \* the tables' columns; Nil: no such table
          rows,      \* what the tables hold
          stored,    \* the identity row
          sqlStore,  \* each store's: where its init or its loading of the keys stands
          failures,  \* batches that failed for the database's own reasons
          throws,    \* inits that threw
          resets,    \* tables of the present shape that a reset took
          written    \* what was ever to be kept

openingVars == <<shape, rows, stored, sqlStore, failures, throws, resets, written>>

LaterColumns == {<<"replicas", "removed_at">>, <<"replica_accounts", "registration">>}
FormerColumns == {<<"replica_accounts", "mediation_id">>, <<"messages", "next_did">>,
                  <<"messages", "forward_id">>}

Current == [messages |-> {}, replica_accounts |-> {"registration"}, replicas |-> {"removed_at"},
            packages |-> {}, blobs |-> {"owner_did"}, ended_blobs |-> {}]

Tables == DOMAIN Current

\* A new database; the first schema; replicas before they could be removed;
\* and the last one before ended_blobs.
Shapes ==
    {[t \in Tables |-> Nil],
     [t \in Tables |-> IF t = "messages" THEN {"next_did", "forward_id"}
                       ELSE IF t = "blobs" THEN {"hash"} ELSE Nil],
     [Current EXCEPT !.messages = {"next_did", "forward_id"}, !.replica_accounts = {"mediation_id"},
                     !.replicas = {"replica_id"}, !.packages = {"forward_id"}, !.ended_blobs = Nil],
     [Current EXCEPT !.ended_blobs = Nil]}

Kept == {"replicas", "packages", "blobs"}
\* An owner that left before ended_blobs came left its blob behind.
Ownerless == {0}

Unopened == [at |-> "idle", phase |-> "none", seen |-> Nil, keys |-> Nil]
OpeningInit ==
    /\ shape \in Shapes
    /\ rows = [t \in Kept \cup {"ended_blobs"} |->
                 IF t = "ended_blobs" \/ shape[t] = Nil THEN {} ELSE IF t = "blobs" THEN {0, 1} ELSE {1}]
    /\ written = [t \in Kept |-> IF t = "blobs" /\ shape[t] # {"owner_did"} THEN {} ELSE rows[t]]
    /\ stored = Nil /\ sqlStore = [s \in SqlStores |-> Unopened]
    /\ failures = 0 /\ throws = 0 /\ resets = 0

----------------------------------------------------------------------------
OpenerAt(s, at, phase) == sqlStore[s].at = at /\ sqlStore[s].phase = phase
Goto(s, at, phase) == sqlStore' = [sqlStore EXCEPT ![s].at = at, ![s].phase = phase, ![s].seen = Nil]
Contents == <<shape, rows, stored, resets, written>>

\* The next request begins anew.
Throw(s) == throws' = throws + 1 /\ Goto(s, "idle", "none")

BeginOpening(s) == OpenerAt(s, "idle", "none") /\ Goto(s, "blobs", "read") /\ UNCHANGED <<Contents, failures, throws>>

\* A former blobs table is dropped with what it holds, whatever is there by now.
LooksAtBlobs(s) ==
    /\ OpenerAt(s, "blobs", "read")
    /\ IF shape.blobs # Nil /\ "owner_did" \notin shape.blobs
         THEN Goto(s, "blobs", "batch") ELSE Goto(s, "schema", "batch")
    /\ UNCHANGED <<Contents, failures, throws>>

DropOldBlobTables(s) ==
    /\ OpenerAt(s, "blobs", "batch") /\ Goto(s, "schema", "batch")
    /\ shape' = [shape EXCEPT !.blobs = Nil] /\ rows' = [rows EXCEPT !.blobs = {}]
    /\ resets' = resets + IF shape.blobs = Current.blobs THEN 1 ELSE 0
    /\ UNCHANGED <<stored, written, failures, throws>>

Schema(s) ==
    /\ OpenerAt(s, "schema", "batch") /\ Goto(s, "columns", "read")
    /\ shape' = [t \in Tables |-> IF shape[t] = Nil /\ t # "ended_blobs" THEN Current[t] ELSE shape[t]]
    /\ UNCHANGED <<rows, stored, resets, written, failures, throws>>

AlignedTables == [t \in {"messages", "replicas", "replica_accounts"} |-> shape[t]]

ReadsColumns(s) == sqlStore' = [sqlStore EXCEPT ![s].phase = "batch", ![s].seen = AlignedTables]

\* The columns lacking and those to go, by what the store has read.
Adds(created) == {c \in LaterColumns : c[2] \notin created[c[1]]}
Drops(created) == {c \in FormerColumns : c[2] \in created[c[1]]}
Applies(created) ==
    /\ \A c \in Adds(created) : c[2] \notin shape[c[1]]
    /\ \A c \in Drops(created) : c[2] \in shape[c[1]]
Aligned(t, created) ==
    (shape[t] \cup {c[2] : c \in {x \in Adds(created) : x[1] = t}})
        \ {c[2] : c \in {x \in Drops(created) : x[1] = t}}

\* A failed batch changed nothing; what it was for is read again.
Misses(s) == sqlStore' = [sqlStore EXCEPT ![s].phase = "recheck"]

Align(s) ==
    /\ OpenerAt(s, "columns", "batch")
    /\ IF Applies(sqlStore[s].seen)
         THEN /\ shape' = [t \in Tables |-> IF t \in DOMAIN AlignedTables
                                              THEN Aligned(t, sqlStore[s].seen) ELSE shape[t]]
              /\ Goto(s, "replicas", "read")
         ELSE Misses(s) /\ UNCHANGED shape
    /\ UNCHANGED <<rows, stored, resets, written, failures, throws>>

AlignColumns(s) ==
    /\ \/ OpenerAt(s, "columns", "read") /\ ReadsColumns(s) /\ UNCHANGED throws
       \/ /\ OpenerAt(s, "columns", "recheck")
          /\ IF AlignedTables = sqlStore[s].seen THEN Throw(s) ELSE ReadsColumns(s) /\ UNCHANGED throws
    /\ UNCHANGED <<Contents, failures>>

\* What is left to be done of each of the last steps, and what follows it.
Due(t) ==
    CASE t = "replicas" -> "replica_id" \in shape.replicas
      [] t = "packages" -> "forward_id" \in shape.packages
      [] t = "ended_blobs" -> shape.ended_blobs = Nil
After(t) ==
    CASE t = "replicas" -> <<"packages", "read">>
      [] t = "packages" -> <<"ended_blobs", "read">>
      [] t = "ended_blobs" -> <<"ready", "none">>

Looks(s, t) ==
    /\ OpenerAt(s, t, "read")
    /\ IF Due(t) THEN Goto(s, t, "batch") ELSE Goto(s, After(t)[1], After(t)[2])
    /\ UNCHANGED <<Contents, failures, throws>>

\* A table made anew takes its rows along.
Rebuild(s, t) ==
    /\ t \in {"replicas", "packages"} /\ OpenerAt(s, t, "batch")
    /\ IF Due(t)
         THEN Goto(s, After(t)[1], After(t)[2]) /\ shape' = [shape EXCEPT ![t] = Current[t]]
         ELSE Misses(s) /\ UNCHANGED shape
    /\ UNCHANGED <<rows, stored, resets, written, failures, throws>>

\* The blobs nobody owns leave as the table comes.
CreateEndedBlobs(s) ==
    /\ OpenerAt(s, "ended_blobs", "batch")
    /\ IF Due("ended_blobs") /\ shape.blobs # Nil
         THEN /\ shape' = [shape EXCEPT !.ended_blobs = {}] /\ Goto(s, "ready", "none")
              /\ rows' = [rows EXCEPT !.blobs = @ \ Ownerless,
                                      !.ended_blobs = rows.blobs \cap Ownerless]
         ELSE Misses(s) /\ UNCHANGED <<shape, rows>>
    /\ UNCHANGED <<stored, resets, written, failures, throws>>

\* It was another store's doing if there is nothing left to do.
Rechecks(s, t) ==
    /\ OpenerAt(s, t, "recheck")
    /\ IF Due(t) THEN Throw(s) ELSE Goto(s, After(t)[1], After(t)[2]) /\ UNCHANGED throws
    /\ UNCHANGED <<Contents, failures>>

----------------------------------------------------------------------------
(* A store that is ready.                                                  *)

Write(s, t) ==
    /\ sqlStore[s].at \in {"ready", "minted", "winner"} /\ shape[t] # Nil
    /\ Cardinality(written[t]) < MaxRows
    /\ rows' = [rows EXCEPT ![t] = @ \cup {Cardinality(written[t]) + 2}]
    /\ written' = [written EXCEPT ![t] = @ \cup {Cardinality(written[t]) + 2}]
    /\ UNCHANGED <<shape, stored, sqlStore, failures, throws, resets>>

HoldsKeys(s, keys) == sqlStore' = [sqlStore EXCEPT ![s].at = "ready", ![s].seen = Nil, ![s].keys = keys]

\* Every store mints keys of its own, which are named by it.
LoadIdentity(s) ==
    /\ OpenerAt(s, "ready", "none") /\ sqlStore[s].keys = Nil
    /\ IF stored # Nil THEN HoldsKeys(s, stored) ELSE Goto(s, "minted", "none")
    /\ UNCHANGED <<Contents, failures, throws>>
InitIdentity(s) ==
    /\ OpenerAt(s, "minted", "none") /\ Goto(s, "winner", "none")
    /\ stored' = IF stored = Nil THEN s ELSE stored
    /\ UNCHANGED <<shape, rows, resets, written, failures, throws>>
Winner(s) ==
    /\ OpenerAt(s, "winner", "none") /\ HoldsKeys(s, stored)
    /\ UNCHANGED <<Contents, failures, throws>>

----------------------------------------------------------------------------
\* A read that fails ends the init or the loading; a batch is looked into.
Mishap(s) ==
    /\ sqlStore[s].at # "idle" /\ failures < MaxFailures /\ failures' = failures + 1
    /\ IF sqlStore[s].at \in {"ready", "minted", "winner"}
         THEN sqlStore[s].keys = Nil /\ Goto(s, "ready", "none") /\ UNCHANGED throws
         ELSE IF sqlStore[s].phase = "batch" /\ sqlStore[s].at \notin {"blobs", "schema"}
           THEN Misses(s) /\ UNCHANGED throws
           ELSE Throw(s)
    /\ UNCHANGED Contents

Dies(s) ==
    /\ sqlStore' = [sqlStore EXCEPT ![s] = Unopened]
    /\ UNCHANGED <<Contents, failures, throws>>

OpeningNext ==
    \E s \in SqlStores :
        \/ BeginOpening(s) \/ LooksAtBlobs(s) \/ DropOldBlobTables(s) \/ Schema(s)
        \/ AlignColumns(s) \/ Align(s) \/ CreateEndedBlobs(s)
        \/ \E t \in {"replicas", "packages", "ended_blobs"} : Looks(s, t) \/ Rebuild(s, t) \/ Rechecks(s, t)
        \/ \E t \in Kept : Write(s, t)
        \/ LoadIdentity(s) \/ InitIdentity(s) \/ Winner(s)
        \/ Mishap(s) \/ Dies(s)

OpeningSpec == OpeningInit /\ [][OpeningNext]_openingVars

----------------------------------------------------------------------------
IsReady(s) == sqlStore[s].at \in {"ready", "minted", "winner"}

(* No request meets a table of a former shape: whoever brought it up to    *)
(* date, a store is ready with all of it done, and with no blob of nobody's. *)
(* The one exception is a reset of the first blobs table, which two stores *)
(* may both have found due.                                                *)
ReadyIsAligned ==
    \A s \in SqlStores : IsReady(s) =>
        /\ \A t \in Tables \ {"blobs"} : shape[t] = Current[t]
        /\ shape.blobs = Current.blobs \/ resets > 0
        /\ rows.blobs \cap Ownerless = {}

(* Another store's work is never taken for the database's own failure, but *)
(* for a reset, which every other store may be in the middle of.           *)
FailsForCause == throws <= failures + resets * (Cardinality(SqlStores) - 1)

(* Nothing written is lost to a rebuild, nor to one under way elsewhere.   *)
RowsStand ==
    /\ written.replicas \subseteq rows.replicas /\ written.packages \subseteq rows.packages
    /\ resets = 0 => written.blobs \subseteq rows.blobs \cup rows.ended_blobs

(* Stores that meet a database without keys at once hold the same keys.    *)
OneIdentity == \A s \in SqlStores : sqlStore[s].keys # Nil => sqlStore[s].keys = stored

StoreOpens == ReadyIsAligned /\ FailsForCause /\ RowsStand /\ OneIdentity
=============================================================================
