----------------------------- MODULE SqlitePool -----------------------------
(***************************************************************************)
(* The browser's databases: one pool of access handles over a directory,   *)
(* in which every file, a database or one SQLite makes beside it as it     *)
(* works, takes a handle for as long as it is there.  A handle that cannot *)
(* be had when SQLite wants one fails a transaction half way, so an open   *)
(* grows the pool by what its connection may ever take, and no other open  *)
(* or import may take what is meant for those.                             *)
(***************************************************************************)
EXTENDS Naturals, Sequences, FiniteSets, Functions

CONSTANTS
    Names,          \* the databases
    TemporaryFiles, \* what a writable connection makes besides its journal
    MaxAsked        \* bound: opens and imports waiting for their turn

(* A directory holds finitely many databases. *)
ASSUME PoolAssumption == IsFiniteSet(Names) /\ TemporaryFiles \in Nat

VARIABLES
    pool,  \* whether a worker has it; the handles it has
    disk,  \* the files: databases, rollback journals, temporary files
    open,  \* how each database is open: "no", "read" or "write"
    turn   \* the opens and imports asked for, in order: the first has the turn

poolvars == <<pool, disk, open, turn>>

Purposes == {"create", "readwrite", "readonly", "import"}

PoolInit ==
    /\ pool = [held |-> TRUE, capacity |-> 0]
    /\ disk = [dbs |-> {}, journals |-> {}, temps |-> [n \in Names |-> 0]]
    /\ open = [n \in Names |-> "no"]
    /\ turn = <<>>

FileCount == Cardinality(disk.dbs) + Cardinality(disk.journals) + SumFunction(disk.temps)

Writing == {n \in Names : open[n] = "write"}

(* outstanding: a journal is told by its name; every temporary file that   *)
(* is there is some open writable connection's.                            *)
Outstanding ==
    LET most == TemporaryFiles * Cardinality(Writing)
        there == SumFunction(disk.temps)
    IN  Cardinality(Writing \ disk.journals) + (IF most > there THEN most - there ELSE 0)

(* What an open or an import takes: the file, when it is new, and what a   *)
(* connection that writes may make.                                        *)
Takes(n, purpose) ==
    (IF n \in disk.dbs THEN 0 ELSE 1)
    + (IF purpose \in {"create", "readwrite"} THEN 1 + TemporaryFiles ELSE 0)

-----------------------------------------------------------------------------
(* Opens and imports, one at a time. *)

Ask(n, purpose) ==
    /\ pool.held
    /\ Len(turn) < MaxAsked
    /\ turn' = Append(turn, [name |-> n, purpose |-> purpose, step |-> "asked"])
    /\ UNCHANGED <<pool, disk, open>>

HasTurn(i) == i = 1

TurnAt(i, step) == i \in DOMAIN turn /\ HasTurn(i) /\ turn[i].step = step

Leaves(i) == turn' = [j \in 1 .. Len(turn) - 1 |-> IF j < i THEN turn[j] ELSE turn[j + 1]]

Allowed(n, purpose) ==
    /\ (n \in disk.dbs) = (purpose \in {"readwrite", "readonly"})
    /\ open[n] = "no"

(* With a bug: the handles open connections may still take count as spare. *)
SpareNow == pool.capacity - FileCount

(* The handles neither taken nor meant for anybody. *)
Spare == pool.capacity - FileCount - Outstanding

(* It looks at the names and the spare handles, and waits for the growth:  *)
(* connections go on working meanwhile.                                    *)
Look(i) ==
    LET x == turn[i]
        short == Takes(x.name, x.purpose) - Spare
    IN  /\ TurnAt(i, "asked")
        /\ IF Allowed(x.name, x.purpose)
             THEN turn' = [turn EXCEPT ![i] = [name |-> x.name, purpose |-> x.purpose, step |-> "growing",
                                               by |-> IF short > 0 THEN short ELSE 0]]
             ELSE Leaves(i)
        /\ UNCHANGED <<pool, disk, open>>

Grow(i) ==
    /\ TurnAt(i, "growing")
    /\ pool' = [pool EXCEPT !.capacity = @ + turn[i].by]
    /\ turn' = [turn EXCEPT ![i] = [name |-> @.name, purpose |-> @.purpose, step |-> "grown"]]
    /\ UNCHANGED <<disk, open>>

(* A create or import makes the file; the journal a crash left is rolled   *)
(* back by the next open.  One removed meanwhile is not there to open.     *)
Take(i) ==
    LET x == turn[i]
        opens == x.purpose \in {"create", "readwrite", "readonly"}
        makes == x.purpose \in {"create", "import"}
    IN  /\ TurnAt(i, "grown")
        /\ Leaves(i)
        /\ IF makes \/ x.name \in disk.dbs
             THEN /\ disk' = [disk EXCEPT !.dbs = @ \cup {x.name},
                                          !.journals = IF opens THEN @ \ {x.name} ELSE @]
                  /\ open' = IF opens THEN [open EXCEPT ![x.name] = IF x.purpose = "readonly" THEN "read" ELSE "write"]
                             ELSE open
             ELSE UNCHANGED <<disk, open>>
        /\ UNCHANGED pool

-----------------------------------------------------------------------------
(* A connection at work: a journal for a transaction that writes, gone at  *)
(* its end; temporary files, of which some stay until it closes.           *)

JournalMade(n) ==
    /\ n \in Writing \ disk.journals
    /\ disk' = [disk EXCEPT !.journals = @ \cup {n}]
    /\ UNCHANGED <<pool, open, turn>>

JournalDone(n) ==
    /\ n \in Writing \cap disk.journals
    /\ disk' = [disk EXCEPT !.journals = @ \ {n}]
    /\ UNCHANGED <<pool, open, turn>>

TempMade(n) ==
    /\ n \in Writing /\ disk.temps[n] < TemporaryFiles
    /\ disk' = [disk EXCEPT !.temps[n] = @ + 1]
    /\ UNCHANGED <<pool, open, turn>>

TempDone(n) ==
    /\ n \in Writing /\ disk.temps[n] > 0
    /\ disk' = [disk EXCEPT !.temps[n] = @ - 1]
    /\ UNCHANGED <<pool, open, turn>>

CloseConnection(n) ==
    /\ open[n] # "no"
    /\ open' = [open EXCEPT ![n] = "no"]
    /\ disk' = [disk EXCEPT !.temps[n] = 0, !.journals = @ \ (Writing \cap {n})]
    /\ UNCHANGED <<pool, turn>>

(* remove takes no turn: an open that has looked may find the file gone. *)
RemoveFile(n) ==
    /\ pool.held
    /\ n \in disk.dbs /\ open[n] = "no"
    /\ disk' = [disk EXCEPT !.dbs = @ \ {n}]
    /\ UNCHANGED <<pool, open, turn>>

(* close: refused while a connection is open or an open is under way; the  *)
(* directory is the next worker's then, with the capacity it has grown to. *)
ClosePool ==
    /\ pool.held
    /\ Writing = {} /\ \A n \in Names : open[n] = "no"
    /\ turn = <<>>
    /\ pool' = [pool EXCEPT !.held = FALSE]
    /\ UNCHANGED <<disk, open, turn>>

(* The lock on the directory taken and the pool installed over it. *)
Install ==
    /\ ~pool.held
    /\ pool' = [pool EXCEPT !.held = TRUE]
    /\ UNCHANGED <<disk, open, turn>>

(* The worker dies: its lock and its temporary files go with it, and a     *)
(* transaction under way leaves its journal.                               *)
Die ==
    /\ pool.held
    /\ pool' = [pool EXCEPT !.held = FALSE]
    /\ disk' = [disk EXCEPT !.temps = [n \in Names |-> 0]]
    /\ open' = [n \in Names |-> "no"]
    /\ turn' = <<>>

PoolNext ==
    \/ \E n \in Names :
         \/ \E purpose \in Purposes : Ask(n, purpose)
         \/ JournalMade(n) \/ JournalDone(n) \/ TempMade(n) \/ TempDone(n)
         \/ CloseConnection(n) \/ RemoveFile(n)
    \/ \E i \in DOMAIN turn : Look(i) \/ Grow(i) \/ Take(i)
    \/ ClosePool \/ Install \/ Die

PoolSpec == PoolInit /\ [][PoolNext]_poolvars

-----------------------------------------------------------------------------
(* Properties. *)

\* What each writing connection may still make, and each open and import that
\* has grown the pool goes on to take.
MayMake == [n \in Writing |-> (IF n \in disk.journals THEN 0 ELSE 1) + TemporaryFiles - disk.temps[n]]
Awaited == [i \in DOMAIN turn |-> IF TurnAt(i, "grown") THEN Takes(turn[i].name, turn[i].purpose) ELSE 0]

(* Every file an open connection may still make has a handle left for it,  *)
(* and so has the file an open or import that has its turn goes on to make.*)
HandlesSuffice == pool.capacity >= FileCount + SumFunction(MayMake) + SumFunction(Awaited)

=============================================================================
