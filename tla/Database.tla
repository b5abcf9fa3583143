------------------------------ MODULE Database ------------------------------
(***************************************************************************)
(* One vault file and the connections that come to it: how it is claimed,  *)
(* made, laid, published, checked and let go of, through the transactions  *)
(* of a driver that cannot always say what became of one, and the local    *)
(* state a runtime keeps in it.  Other parties may leave a file of their   *)
(* own here, or change one nobody owns.                                    *)
(***************************************************************************)
EXTENDS Naturals, FiniteSets

CONSTANTS
    Users,     \* the processes that open the file
    MaxEvents, \* bound: events in it
    MaxTrace,  \* bound: trace numbers given
    MaxResets, \* bound: identities minted
    MaxMishaps \* bound: crashes, commits of unknown outcome, and changes by others

ASSUME DatabaseAssumption == MaxEvents \in Nat

VARIABLES
    db,     \* the file: absent, or what its pages say
    conn,   \* each process's connection
    told,   \* the highest trace number a caller was given, in this file
    mishaps

dbvars == <<db, conn, told, mishaps>>

(* The tables: those of every vault file, the control of a runtime, and    *)
(* the local ones made on first use.                                       *)
CommonTables == {"vault_meta", "keystore", "events", "objects", "object_chunks"}
ControlTables == {"store_state", "event_positions"}
LocalTables == {"local_options", "local_cache", "local_trace", "local_trace_state"}

TablesOf(kind) == IF kind = "runtime" THEN CommonTables \cup ControlTables ELSE CommonTables

(* What else a schema may hold, and what may be wrong with a table. *)
Oddities == {"view", "index", "loose", "alien"}

Absent == [here |-> FALSE]

(* reserve: an empty file, which SQLite reads as an empty database. *)
Empty == [here |-> TRUE, vault |-> FALSE, tables |-> {}, odd |-> {}, kind |-> "runtime", ready |-> FALSE,
          events |-> 0, positions |-> 0, lastSeq |-> 0, whole |-> TRUE, wal |-> TRUE,
          generation |-> 0, cache |-> {}, trace |-> {}, numbered |-> 0, foreign |-> FALSE]

Unconnected == [mode |-> "none"]

DatabaseInit ==
    /\ db = Absent
    /\ conn = [u \in Users |-> Unconnected]
    /\ told = 0
    /\ mishaps = 0

RoomForMishap == mishaps < MaxMishaps

-----------------------------------------------------------------------------
(* Ownership.  A writable connection excludes every other, as one on a     *)
(* write-ahead file does; connections that only read a snapshot share it.  *)

Locks(u) == conn[u].mode \in {"create", "readwrite", "readonly"} /\ conn[u].stage # "reserved"

Shares(mode) == mode = "readonly" /\ ~db.wal

Free(u, mode) ==
    \A v \in Users \ {u} : Locks(v) => Shares(mode) /\ Shares(conn[v].mode)

ModeOf(purpose) ==
    IF purpose \in {"create", "restore", "export"} THEN "create"
    ELSE IF purpose = "deliver" THEN "readonly" ELSE "readwrite"

Connection(purpose, stage) ==
    [mode |-> ModeOf(purpose), purpose |-> purpose, stage |-> stage, made |-> {}]

(* create: the check and the claim are one step, and the lock another. *)
Reserve(u, purpose) ==
    /\ conn[u] = Unconnected /\ ModeOf(purpose) = "create"
    /\ ~db.here
    /\ db' = Empty
    /\ conn' = [conn EXCEPT ![u] = Connection(purpose, "reserved")]
    /\ told' = 0
    /\ UNCHANGED mishaps

(* The write lock by an empty transaction, or DatabaseBusy; then the       *)
(* journal, which a snapshot does without.                                 *)
Probe(u) ==
    /\ conn[u] # Unconnected /\ conn[u].stage = "reserved"
    /\ IF Free(u, "create")
         THEN /\ conn' = [conn EXCEPT ![u].stage = "owned"]
              /\ db' = [db EXCEPT !.wal = conn[u].purpose # "export"]
         ELSE conn' = [conn EXCEPT ![u] = Unconnected] /\ UNCHANGED db
    /\ UNCHANGED <<told, mishaps>>

OpenFile(u, purpose) ==
    /\ conn[u] = Unconnected /\ ModeOf(purpose) # "create"
    /\ db.here
    /\ Free(u, ModeOf(purpose))
    /\ purpose = "reset" => db.generation < MaxResets
    /\ conn' = [conn EXCEPT ![u] = Connection(purpose, "owned")]
    /\ UNCHANGED <<db, told, mishaps>>

At(u, stage) == conn[u] # Unconnected /\ conn[u].stage = stage

(* A transaction that leaves f, after which the connection is x.  When the *)
(* COMMIT fails nobody knows which; the connection works no more, and who  *)
(* used it for an open lets it go.                                         *)
FileTransaction(u, f, x) ==
    \/ /\ db' = f
       /\ conn' = [conn EXCEPT ![u] = x]
       /\ UNCHANGED mishaps
    \/ /\ RoomForMishap
       /\ db' \in {db, f}
       /\ conn' = [conn EXCEPT ![u] = IF @.stage = "open" THEN [@ EXCEPT !.stage = "stopped"] ELSE Unconnected]
       /\ mishaps' = mishaps + 1

-----------------------------------------------------------------------------
(* Making a file. *)

Tabled(kind) == [db EXCEPT !.vault = TRUE, !.tables = TablesOf(kind), !.kind = kind]

(* createRuntime: everything in one transaction, published ready with it. *)
CreateRuntime(u) ==
    /\ At(u, "owned") /\ conn[u].purpose = "create"
    /\ IF db.tables = {}
         THEN FileTransaction(u, [Tabled("runtime") EXCEPT !.ready = TRUE, !.generation = 1], [conn[u] EXCEPT !.stage = "open"])
         ELSE conn' = [conn EXCEPT ![u] = Unconnected] /\ UNCHANGED <<db, mishaps>>
    /\ UNCHANGED told

(* lay: the schema, the metadata, the wrapper and the events, not ready;   *)
(* a restored runtime's under a fresh identity, each with a position.      *)
Laid(kind, n) ==
    [Tabled(kind) EXCEPT !.events = n, !.whole = FALSE,
                         !.positions = IF kind = "runtime" THEN n ELSE 0,
                         !.lastSeq = IF kind = "runtime" THEN n ELSE 0,
                         !.generation = IF kind = "runtime" THEN 1 ELSE 0]

Lay(u) ==
    /\ At(u, "owned") /\ conn[u].purpose \in {"restore", "export"}
    /\ IF db.tables = {}
         THEN \E n \in 0 .. MaxEvents :
                FileTransaction(u, Laid(IF conn[u].purpose = "restore" THEN "runtime" ELSE "portable", n), [conn[u] EXCEPT !.stage = "laid"])
         ELSE conn' = [conn EXCEPT ![u] = Unconnected] /\ UNCHANGED <<db, mishaps>>
    /\ UNCHANGED told

(* Every held object streamed and hashed again, in transactions of its own;*)
(* one that fails ends the whole, and the file stays as it is.             *)
CopyObjects(u) ==
    /\ At(u, "laid")
    /\ \/ FileTransaction(u, [db EXCEPT !.whole = TRUE], [conn[u] EXCEPT !.stage = "copied"])
       \/ conn' = [conn EXCEPT ![u] = Unconnected] /\ UNCHANGED <<db, mishaps>>
    /\ UNCHANGED told

(* Set ready once it holds what it was meant to; a snapshot is closed then.*)
PublishReady(u) ==
    /\ At(u, "copied")
    /\ FileTransaction(u, [db EXCEPT !.ready = TRUE],
                   IF conn[u].purpose = "restore" THEN [conn[u] EXCEPT !.stage = "open"] ELSE Unconnected)
    /\ UNCHANGED told

-----------------------------------------------------------------------------
(* Checking a file before anything in it is trusted. *)

(* Every table of the kind, each exactly as it was declared; beside them,  *)
(* in a runtime, indexes, local tables and statistics; no view or trigger  *)
(* in either.                                                              *)
SchemaFits(f, kind) ==
    /\ TablesOf(kind) \subseteq f.tables
    /\ f.odd \cap {"view", "loose", "alien"} = {}
    /\ f.tables \ TablesOf(kind) \subseteq (IF kind = "runtime" THEN LocalTables ELSE {})
    /\ kind = "portable" => "index" \notin f.odd

(* The header, the names, and the one metadata row. *)
MetaFits(f, kind) == f.vault /\ "vault_meta" \in f.tables /\ f.kind = kind /\ f.ready

(* One position for every event, counting up to the last. *)
ControlFits(f) == f.positions = f.events /\ f.lastSeq = f.positions

(* The file must be a snapshot's, in rollback format. *)
FitsToDeliver(f) == ~f.wal /\ SchemaFits(f, "portable") /\ MetaFits(f, "portable") /\ "keystore" \in f.tables

FitsToRun(f) == MetaFits(f, "runtime") /\ SchemaFits(f, "runtime") /\ "keystore" \in f.tables /\ ControlFits(f)

(* The anchor is awaited between the checks and the open: a passphrase may *)
(* be wrong.  Any failure lets the file go.                                *)
Check(u) ==
    /\ At(u, "owned") /\ conn[u].purpose \in {"run", "reset", "inspect", "deliver"}
    /\ LET fits == IF conn[u].purpose = "deliver" THEN FitsToDeliver(db) ELSE FitsToRun(db)
           next == IF conn[u].purpose = "reset" THEN "renewing" ELSE "open"
       IN  \/ fits /\ conn' = [conn EXCEPT ![u].stage = next]
           \/ (~fits \/ conn[u].purpose \in {"run", "reset"}) /\ conn' = [conn EXCEPT ![u] = Unconnected]
    /\ UNCHANGED <<db, told, mishaps>>

(* A fresh replica ID and store generation; the cache goes with the old. *)
RenewedFile(f) == [f EXCEPT !.generation = @ + 1, !.cache = {}]

RenewIdentity(u) ==
    /\ At(u, "renewing")
    /\ FileTransaction(u, RenewedFile(db), [conn[u] EXCEPT !.stage = "open"])
    /\ UNCHANGED told

-----------------------------------------------------------------------------
(* A runtime's own writes.  An inspector, a stopped connection and one     *)
(* that reads a snapshot make none.                                        *)

Writable(u) == At(u, "open") /\ conn[u].purpose \in {"create", "restore", "run", "reset"}

(* An event under the next position; what was cached was built without it. *)
AcceptEvent(u) ==
    /\ Writable(u)
    /\ db.events < MaxEvents
    /\ FileTransaction(u, [db EXCEPT !.events = @ + 1, !.positions = @ + 1, !.lastSeq = @ + 1, !.cache = {}], conn[u])
    /\ UNCHANGED told

(* After the entries there are: what the row is made with. *)
NumberingOf(f) == IF f.trace = {} THEN 0 ELSE CHOOSE n \in f.trace : \A m \in f.trace : m <= n

(* Where the trace's numbers go on: its own row, or, where the row was not *)
(* made yet, after the entries there are.                                  *)
Numbering(f) == IF "local_trace_state" \in f.tables THEN f.numbered ELSE NumberingOf(f)

(* ensureTable: made on the first write of a connection, statement by      *)
(* statement; the process may die in between.                              *)
MakeTrace(u) ==
    /\ Writable(u) /\ "local_trace" \notin conn[u].made
    /\ \/ /\ db' = [db EXCEPT !.tables = @ \cup {"local_trace", "local_trace_state"}, !.numbered = Numbering(db)]
          /\ conn' = [conn EXCEPT ![u].made = @ \cup {"local_trace"}]
          /\ UNCHANGED mishaps
       \/ /\ RoomForMishap
          /\ db' = [db EXCEPT !.tables = @ \cup {"local_trace"}]
          /\ conn' = [conn EXCEPT ![u] = Unconnected]
          /\ mishaps' = mishaps + 1
    /\ UNCHANGED told

TraceAppend(u) ==
    /\ Writable(u) /\ "local_trace" \in conn[u].made
    /\ Numbering(db) < MaxTrace
    /\ LET n == Numbering(db) + 1
       IN  /\ FileTransaction(u, [db EXCEPT !.trace = @ \cup {n}, !.numbered = n], conn[u])
           /\ told' = IF mishaps' = mishaps THEN n ELSE told

(* prune, by age and by count: the oldest go; clearCaches: all of them. *)
TracePrune(u) ==
    /\ Writable(u) /\ "local_trace" \in conn[u].made
    /\ \E n \in db.trace : FileTransaction(u, [db EXCEPT !.trace = {m \in @ : m > n}], conn[u])
    /\ UNCHANGED told

ClearCaches(u) ==
    /\ Writable(u)
    /\ FileTransaction(u, [db EXCEPT !.cache = {}, !.trace = {}], conn[u])
    /\ UNCHANGED told

(* What is cached is built from the events as they are. *)
CachePut(u) ==
    /\ Writable(u)
    /\ db' = [db EXCEPT !.tables = @ \cup {"local_cache"},
                        !.cache = {[generation |-> db.generation, events |-> db.events]}]
    /\ UNCHANGED <<conn, told, mishaps>>

-----------------------------------------------------------------------------
(* Letting go, and what befalls the file. *)

CloseFile(u) ==
    /\ At(u, "open") \/ At(u, "stopped")
    /\ conn' = [conn EXCEPT ![u] = Unconnected]
    /\ UNCHANGED <<db, told, mishaps>>

UserCrash(u) ==
    /\ conn[u] # Unconnected /\ RoomForMishap
    /\ conn' = [conn EXCEPT ![u] = Unconnected]
    /\ mishaps' = mishaps + 1
    /\ UNCHANGED <<db, told>>

Unowned == \A u \in Users : ~Locks(u)

(* Its caller removes what an open or a restore left behind. *)
Remove ==
    /\ db.here /\ \A u \in Users : conn[u] = Unconnected
    /\ db' = Absent
    /\ told' = 0
    /\ UNCHANGED <<conn, mishaps>>

(* Another party's hand: a table gone, changed or added, the counts wrong. *)
Tampered(f) ==
    {[f EXCEPT !.odd = @ \cup {o}, !.foreign = TRUE] : o \in Oddities}
    \cup {[f EXCEPT !.tables = @ \ {t}, !.foreign = TRUE] : t \in {"event_positions", "keystore"}}
    \cup {[f EXCEPT !.lastSeq = @ + 1, !.foreign = TRUE], [f EXCEPT !.positions = 0, !.foreign = TRUE],
          [f EXCEPT !.wal = TRUE, !.foreign = TRUE]}

Tamper ==
    /\ db.here /\ db.vault /\ Unowned /\ RoomForMishap
    /\ db' \in Tampered(db)
    /\ mishaps' = mishaps + 1
    /\ UNCHANGED <<conn, told>>

DatabaseNext ==
    \/ \E u \in Users :
         \/ \E purpose \in {"create", "restore", "export"} : Reserve(u, purpose)
         \/ \E purpose \in {"run", "reset", "inspect", "deliver"} : OpenFile(u, purpose)
         \/ Probe(u) \/ CreateRuntime(u) \/ Lay(u) \/ CopyObjects(u) \/ PublishReady(u)
         \/ Check(u) \/ RenewIdentity(u)
         \/ AcceptEvent(u) \/ MakeTrace(u) \/ TraceAppend(u) \/ TracePrune(u) \/ ClearCaches(u) \/ CachePut(u)
         \/ CloseFile(u) \/ UserCrash(u)
    \/ Remove \/ Tamper

DatabaseSpec == DatabaseInit /\ [][DatabaseNext]_dbvars

-----------------------------------------------------------------------------
(* Properties. *)

(* Whatever was cut short, left unknown or changed by another hand while   *)
(* it was being made or stood unowned: a file in use is whole, ready, of   *)
(* the kind it is used as and accounted for, nobody writes what another    *)
(* reads, and what was made here and published opens again.                *)
OpensWhole ==
    /\ \A u \in Users : At(u, "open") =>
         /\ db.ready /\ db.whole
         /\ IF conn[u].mode = "readonly" THEN db.kind = "portable"
            ELSE db.kind = "runtime" /\ db.positions = db.events /\ db.lastSeq = db.events
    /\ \A u, v \in Users : u # v /\ Locks(u) /\ Locks(v) => {conn[u].mode, conn[v].mode} = {"readonly"}
    /\ db.here /\ ~db.foreign /\ db.ready => IF db.kind = "runtime" THEN FitsToRun(db) ELSE FitsToDeliver(db)

(* Nothing cached outlives the identity and the events it was built from,  *)
(* and a trace number a caller was given is never given again.             *)
LocalStateSound ==
    db.here => /\ \A x \in db.cache : x.generation = db.generation /\ x.events = db.events
               /\ told <= Numbering(db)

=============================================================================
