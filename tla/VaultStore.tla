----------------------------- MODULE VaultStore -----------------------------
(***************************************************************************)
(* The event store: the files that hold copies of one vault, and the       *)
(* operations of the runtimes over them.  A file holds events, the objects *)
(* the events name as roots, and the replica ID its own events are         *)
(* authored by.  A runtime runs one operation at a time under the writer   *)
(* lock; an operation stages and plans first and writes in one transaction *)
(* at its end, and what happens between the two is the subject here: reads *)
(* that find an object damaged, bytes and rows that rot, a commit whose    *)
(* outcome is unknown, a crash.                                            *)
(*                                                                         *)
(* The events are those of one message, and others.  Which roots the       *)
(* events hold is the vault's own fold: erasure releases roots of the      *)
(* message's events, and the end of a message under a consistent intent    *)
(* releases its envelopes.                                                 *)
(***************************************************************************)
EXTENDS Naturals, FiniteSets

CONSTANTS
    Stores,       \* the files that can hold a copy of the vault
    Origin,       \* the one it was created in
    Bodies,       \* objects an intent names
    Envelopes,    \* objects a preparation names
    Attached,     \* objects events other than the message's name
    None,
    MaxAuthors,   \* bound: replica IDs ever minted
    Budget,       \* bound: events ever committed, and faults
    MaxFaults,    \* bound: faults
    MaxSnapshots, \* bound: snapshots ever delivered
    MaxOpen       \* bound: runtimes open at once, which share nothing but snapshots

ASSUME VaultAssumption ==
    /\ Origin \in Stores
    /\ Bodies \cap Envelopes = {}
    /\ Attached \subseteq Bodies \cup Envelopes
    /\ MaxAuthors \in Nat \ {0}
    /\ Budget \in Nat /\ MaxFaults \in Nat
    /\ MaxSnapshots \in Nat /\ MaxOpen \in Nat
    /\ None \notin Stores

Roots == Bodies \cup Envelopes
Authors == 1 .. MaxAuthors
Kinds == {"out", "prepared", "ended", "erased", "other"}

(* An event, named by what is in it; by tells apart what two files         *)
(* committed under one replica ID.                                         *)
Event == [author : Authors, by : Stores, kind : Kinds,
          roots : SUBSET Roots, drops : SUBSET Roots]

VARIABLES
    file,      \* each store's database, or None
    session,   \* the runtime open on it, or None
    snapshots, \* the portable snapshots delivered
    minted,    \* how many replica IDs were minted
    faults     \* how many bytes rotted, rows were damaged and commits left unknown

vars == <<file, session, snapshots, minted, faults>>

(* mine: the events of its present author that were written in this file,  *)
(* or before it was copied.                                                *)
File == [author : Authors, events : SUBSET Event, mine : SUBSET Event,
         torn : SUBSET Event, swapped : SUBSET Event,
         bytes : [Roots -> {"absent", "sound", "bad"}]]

Operation ==
    [kind : {"commit"}, draft : Event, staged : SUBSET Roots]
    \cup [kind : {"keep"}]
    \cup [kind : {"collect"}, keep : SUBSET Roots]
    \cup [kind : {"select"}]
    \cup [kind : {"gather"}, events : SUBSET Event]
    \cup [kind : {"export"}, events : SUBSET Event, objects : SUBSET Roots]
    \cup [kind : {"plan"}, events : SUBSET Event, offered : SUBSET Roots]
    \cup [kind : {"import"}, events : SUBSET Event, offered : SUBSET Roots,
          staged : SUBSET Roots, reused : SUBSET Roots]

Stream == [cid : Roots, stale : BOOLEAN]

Session == [stopped : BOOLEAN, surveyed : BOOLEAN, known : SUBSET Event,
            condemned : SUBSET Roots, op : Operation \cup {None}, stream : Stream \cup {None}]

Snapshot == [events : SUBSET Event, objects : SUBSET Roots]

ASSUME NoneAssumption ==
    None \notin File /\ None \notin Session /\ None \notin Operation /\ None \notin Stream

TypeOK ==
    /\ file \in [Stores -> File \cup {None}]
    /\ session \in [Stores -> Session \cup {None}]
    /\ snapshots \subseteq Snapshot
    /\ minted \in Authors
    /\ faults \in Nat
    /\ \A s \in Stores : session[s] # None => file[s] # None

Opened == [stopped |-> FALSE, surveyed |-> FALSE, known |-> {}, condemned |-> {},
           op |-> None, stream |-> None]

Init ==
    /\ file = [s \in Stores |->
                 IF s = Origin
                   THEN [author |-> 1, events |-> {}, mine |-> {}, torn |-> {}, swapped |-> {},
                         bytes |-> [r \in Roots |-> "absent"]]
                   ELSE None]
    /\ session = [s \in Stores |-> IF s = Origin THEN Opened ELSE None]
    /\ snapshots = {}
    /\ minted = 1
    /\ faults = 0

-----------------------------------------------------------------------------
(* What a set of events retains: the vault's folds. *)

OfKind(E, k) == {e \in E : e.kind = k}

(* The intents of the message agree, and it was submitted or terminated. *)
Released(E) ==
    /\ Cardinality({e.roots : e \in OfKind(E, "out")}) = 1
    /\ OfKind(E, "ended") # {}

Erased(E) == UNION {e.drops : e \in OfKind(E, "erased")}

(* Edge by edge: for each event the roots it still retains. *)
RetainedRoots(E) ==
    LET released == Released(E)
        erased == Erased(E)
    IN  [e \in E |-> IF e.kind = "prepared" /\ released THEN {} ELSE
                     IF e.kind \in {"out", "prepared"} THEN e.roots \ erased ELSE e.roots]

HeldRoots(E) == LET retained == RetainedRoots(E) IN UNION {retained[e] : e \in E}

-----------------------------------------------------------------------------
(* Reading. *)

InTheVault == UNION {file[t].events : t \in {x \in Stores : file[x] # None}}

RoomForEvent == Cardinality(InTheVault) + faults < Budget

RoomForFault == RoomForEvent /\ faults < MaxFaults

RoomForOne == Cardinality({s \in Stores : session[s] # None}) < MaxOpen

Running(s) == session[s] # None /\ ~session[s].stopped

(* The writer lock is free. *)
Unlocked(s) == Running(s) /\ session[s].op = None

Working(s, kind) == Running(s) /\ session[s].op # None /\ session[s].op.kind = kind

(* An ordinary read decodes a row without hashing it: a row whose bytes    *)
(* are another event's reads as that event, which here names no roots.     *)
Decoded(s, e) == IF e \in file[s].swapped THEN [e EXCEPT !.roots = {}] ELSE e

Scan(s) == {Decoded(s, e) : e \in file[s].events \ (file[s].torn \cup session[s].known)}

(* A scan remembers the damage it met; the survey hashes every row. *)
KnownByScan(s) == session[s].known \cup file[s].torn
KnownBySurvey(s) == session[s].known \cup file[s].torn \cup file[s].swapped

(* requireSound: no damage was met, and the one survey of this session     *)
(* found none.                                                             *)
RequireSound(s) ==
    /\ session[s].known = {}
    /\ session[s].surveyed \/ KnownBySurvey(s) = {}

(* What a transaction that asks for soundness leaves of the survey. *)
Asked(s) ==
    IF session[s].known = {} /\ ~session[s].surveyed
      THEN [session[s] EXCEPT !.surveyed = TRUE, !.known = KnownBySurvey(s)]
      ELSE session[s]

StateOf(s, r) ==
    IF r \in session[s].condemned THEN "damaged" ELSE
    IF file[s].bytes[r] = "absent" THEN "absent" ELSE "sound"

(* objects.open: a stream is verified as it is read, which may be long     *)
(* after, whoever has the lock then.  One whose bytes are good to its end  *)
(* leaves no trace: only a stream that met bad bytes is followed.          *)
OpenStream(s, r) ==
    /\ Unlocked(s)
    /\ session[s].stream = None
    /\ StateOf(s, r) = "sound"
    /\ file[s].bytes[r] = "bad"
    /\ session' = [session EXCEPT ![s].stream = [cid |-> r, stale |-> FALSE]]
    /\ UNCHANGED <<file, snapshots, minted, faults>>

(* What the end of a stream finds damaged: the object, unless it was       *)
(* replaced or removed meanwhile, which is a failed read and not damage.   *)
Condemns(x) == IF x.stale THEN {} ELSE {x.cid}

EndStream(s) ==
    /\ Running(s)
    /\ session[s].stream # None
    /\ session' = [session EXCEPT ![s].stream = None,
                                  ![s].condemned = @ \cup Condemns(session[s].stream)]
    /\ UNCHANGED <<file, snapshots, minted, faults>>

-----------------------------------------------------------------------------
(* Writing. *)

(* A stream open on an object that is replaced or removed fails at its     *)
(* next chunk.                                                             *)
Interrupt(x, moved) ==
    IF x # None /\ x.cid \in moved THEN [x EXCEPT !.stale = TRUE] ELSE x

Refuse(s) ==
    /\ session' = [session EXCEPT ![s] = [Asked(s) EXCEPT !.op = None]]
    /\ UNCHANGED <<file, snapshots, minted, faults>>

(* One transaction, which leaves f in the file and x of the session.  A    *)
(* COMMIT that fails to report may have landed or not; the connection does *)
(* nothing more until it is closed.                                        *)
Transaction(s, f, x) ==
    /\ \/ /\ file' = [file EXCEPT ![s] = f]
          /\ session' = [session EXCEPT ![s] = x]
          /\ UNCHANGED faults
       \/ /\ RoomForFault
          /\ file' \in {file, [file EXCEPT ![s] = f]}
          /\ session' = [session EXCEPT ![s] = [@ EXCEPT !.stopped = TRUE, !.op = None]]
          /\ faults' = faults + 1
    /\ UNCHANGED <<snapshots, minted>>

(* accept: a staged object lands when none is held or the one held is      *)
(* known damaged; one held and not known damaged stays as it is.           *)
Replaced(s, staged) == {r \in staged : StateOf(s, r) # "sound"}

(* With a bug: takes only the events that come with all their objects. *)
AcceptedInPart(s, staged, E) ==
    [file[s] EXCEPT !.events = @ \cup {e \in E : e.roots \subseteq staged},
                    !.bytes = [r \in Roots |-> IF r \in Replaced(s, staged) THEN "sound" ELSE @[r]]]

Accepted(s, staged, E) ==
    [file[s] EXCEPT !.events = @ \cup E,
                    !.bytes = [r \in Roots |-> IF r \in Replaced(s, staged) THEN "sound" ELSE @[r]]]

Published(s, staged, op) ==
    [Asked(s) EXCEPT !.condemned = @ \ staged,
                     !.stream = Interrupt(@, Replaced(s, staged)),
                     !.op = op]

(* The roots the events of the message name that no erasure of it names. *)
Unreleased(s) ==
    (UNION {e.roots : e \in {x \in Scan(s) : x.kind \in {"out", "prepared"}}}) \ Erased(Scan(s))

(* What a program may commit: a decision made over the fold under the      *)
(* lock.  The intent of a message is written once here; an erasure names   *)
(* every root the message's events still retain.                           *)
Drafts(s) ==
    LET draft(k, R, D) == [author |-> file[s].author, by |-> s, kind |-> k, roots |-> R, drops |-> D]
        E == Scan(s)
    IN  {draft("out", {b}, {}) : b \in {x \in Bodies : OfKind(E, "out") = {}}}
        \cup {draft("prepared", {v}, {}) : v \in {x \in Envelopes : OfKind(E, "out") # {}}}
        \cup {draft("ended", {}, {}) : x \in {y \in {1} : OfKind(E, "out") # {}}}
        \cup {draft("erased", {}, D) : D \in {Unreleased(s)} \ {{}}}
        \cup {draft("other", {r}, {}) : r \in Attached}

(* commit: every object supplied is verified and staged where no read sees *)
(* it, and every root must be staged or held and not known damaged.  A     *)
(* root no draft names, missing or known damaged refuses the commit.       *)
Commit(s, e, staged) ==
    /\ Unlocked(s)
    /\ e \notin file[s].events
    /\ \A r \in e.roots \ staged : StateOf(s, r) = "sound"
    /\ session' = [session EXCEPT ![s].op = [kind |-> "commit", draft |-> e, staged |-> staged],
                                  ![s].known = KnownByScan(s)]
    /\ UNCHANGED <<file, snapshots, minted, faults>>

(* With a bug: what was checked before the bytes were staged is taken to   *)
(* hold still.                                                             *)
NeverCheckedAgain(s, reused) == TRUE

(* publish: every object declared reused is checked once more. *)
StillSound(s, reused) == reused \cap session[s].condemned = {}

(* The transaction of a commit: the objects and the event land together.   *)
(* An erasure collects under the same lock.                                *)
CommitPublish(s) ==
    LET e == session[s].op.draft
        staged == session[s].op.staged
        next == IF e.kind = "erased" THEN [kind |-> "keep"] ELSE None
    IN  /\ Working(s, "commit")
        /\ IF RequireSound(s) /\ StillSound(s, e.roots \ staged)
             THEN Transaction(s, [Accepted(s, staged, {e}) EXCEPT !.mine = @ \cup {e}],
                              Published(s, staged, next))
             ELSE Refuse(s)

(* collect: the keep set is folded under the lock. *)
Keep(s) ==
    /\ Unlocked(s) \/ Working(s, "keep")
    /\ session' = [session EXCEPT ![s].op = [kind |-> "collect", keep |-> HeldRoots(Scan(s))],
                                  ![s].known = KnownByScan(s)]
    /\ UNCHANGED <<file, snapshots, minted, faults>>

(* With a bug: trusts a history nobody asked about. *)
CollectAnyway(s) == TRUE

(* What was removed is gone for every read from here, its damage with it;  *)
(* while any event is damaged nothing is deleted.                          *)
MayCollect(s) == RequireSound(s)

Collect(s) ==
    LET removed == {r \in Roots \ session[s].op.keep : file[s].bytes[r] # "absent"}
    IN  /\ Working(s, "collect")
        /\ IF MayCollect(s)
             THEN Transaction(s,
                      [file[s] EXCEPT !.bytes = [r \in Roots |-> IF r \in removed THEN "absent" ELSE @[r]]],
                      [Asked(s) EXCEPT !.condemned = @ \ removed,
                                       !.stream = Interrupt(@, removed), !.op = None])
             ELSE Refuse(s)

-----------------------------------------------------------------------------
(* Snapshots. *)

(* exportVault, select: the lock taken and every row surveyed; damaged     *)
(* history refuses.                                                        *)
Export(s) ==
    /\ Unlocked(s)
    /\ Cardinality(snapshots) < MaxSnapshots
    /\ LET surveyed == [session[s] EXCEPT !.surveyed = TRUE, !.known = KnownBySurvey(s)]
       IN  session' = [session EXCEPT ![s] =
                         IF KnownBySurvey(s) = {} THEN [surveyed EXCEPT !.op = [kind |-> "select"]] ELSE surveyed]
    /\ UNCHANGED <<file, snapshots, minted, faults>>

(* The events of the cut, scanned once the keystore was read: a row that   *)
(* was torn since the survey is left out, and nobody asks about it again.  *)
ExportSelect(s) ==
    /\ Working(s, "select")
    /\ session' = [session EXCEPT ![s].op = [kind |-> "gather", events |-> Scan(s)],
                                  ![s].known = KnownByScan(s)]
    /\ UNCHANGED <<file, snapshots, minted, faults>>

(* The objects of the cut, by a fold of its own over the events: a held    *)
(* root absent or known damaged refuses.                                   *)
ExportGather(s) ==
    LET held == HeldRoots(Scan(s))
        cut == [kind |-> "export", events |-> session[s].op.events, objects |-> held]
    IN  /\ Working(s, "gather")
        /\ session' = [session EXCEPT
              ![s].known = KnownByScan(s),
              ![s].op = IF \A r \in held : StateOf(s, r) = "sound" THEN cut ELSE None]
        /\ UNCHANGED <<file, snapshots, minted, faults>>

(* copyObjects, publish and validatePortable: every object of the cut is   *)
(* read through, and the file is delivered when its objects are those its  *)
(* own events hold.                                                        *)
ExportCopy(s) ==
    LET op == session[s].op
        bad == {r \in op.objects : file[s].bytes[r] = "bad"}
        valid == op.objects = HeldRoots(op.events)
    IN  /\ Working(s, "export")
        /\ \/ /\ bad = {}
              /\ snapshots' = IF valid THEN snapshots \cup {[events |-> op.events, objects |-> op.objects]}
                              ELSE snapshots
              /\ session' = [session EXCEPT ![s].op = None]
           \/ \E r \in bad :
                 /\ session' = [session EXCEPT ![s].op = None, ![s].condemned = @ \cup {r}]
                 /\ UNCHANGED snapshots
        /\ UNCHANGED <<file, minted, faults>>

(* restoreVault: a new file under a fresh replica ID, ready when it is     *)
(* complete, and open.                                                     *)
Restore(s, x) ==
    /\ file[s] = None
    /\ x \in snapshots
    /\ RoomForOne
    /\ minted < MaxAuthors
    /\ minted' = minted + 1
    /\ file' = [file EXCEPT ![s] =
                  [author |-> minted + 1, events |-> x.events, mine |-> {}, torn |-> {},
                   swapped |-> {},
                   bytes |-> [r \in Roots |-> IF r \in x.objects THEN "sound" ELSE "absent"]]]
    /\ session' = [session EXCEPT ![s] = Opened]
    /\ UNCHANGED <<snapshots, faults>>

(* importVault: the lock taken and the history surveyed. *)
Import(s, x) ==
    /\ Unlocked(s)
    /\ x \in snapshots
    /\ LET surveyed == [session[s] EXCEPT !.surveyed = TRUE, !.known = KnownBySurvey(s)]
           op == [kind |-> "plan", events |-> x.events, offered |-> x.objects]
       IN  session' = [session EXCEPT ![s] =
                         IF KnownBySurvey(s) = {} THEN [surveyed EXCEPT !.op = op] ELSE surveyed]
    /\ UNCHANGED <<file, snapshots, minted, faults>>

Fresh(s, E) == E \ Scan(s)

(* With a bug: takes any event that is new. *)
ForkOfNone(s, E) == FALSE

(* A new event under the target's own replica ID: another file writes as   *)
(* this one.                                                               *)
Forked(s, E) == \E e \in Fresh(s, E) : e.author = file[s].author

Union(s, E) == Scan(s) \cup E

(* The roots that must have bytes: those a new event retains in the union, *)
(* and those the union holds that the target did not.                      *)
Required(s, E) ==
    LET fresh == Fresh(s, E)
        union == Union(s, E)
        retained == RetainedRoots(union)
    IN  (UNION {retained[e] : e \in fresh})
        \cup ((UNION {retained[e] : e \in union}) \ HeldRoots(Scan(s)))

ToStage(s, E, offered) ==
    {r \in HeldRoots(Union(s, E)) \cap offered : StateOf(s, r) # "sound"}

ToReuse(s, E, offered) ==
    LET required == Required(s, E)
    IN  {r \in HeldRoots(Union(s, E)) : StateOf(s, r) = "sound" /\ r \in offered \cup required}

Incomplete(s, E, offered) ==
    \E r \in Required(s, E) \ offered : StateOf(s, r) # "sound"

(* planned: refused for a fork or for want of bytes, done when there is    *)
(* nothing to add, or the plan of what to stage and what to rely on.       *)
Plan(s) ==
    LET E == session[s].op.events
        offered == session[s].op.offered
        staged == ToStage(s, E, offered)
        idle == Fresh(s, E) = {} /\ staged = {}
        plan == [kind |-> "import", events |-> E, offered |-> offered,
                 staged |-> staged, reused |-> ToReuse(s, E, offered)]
    IN  /\ Working(s, "plan")
        /\ session' = [session EXCEPT
              ![s].known = KnownByScan(s),
              ![s].op = IF Forked(s, E) \/ Incomplete(s, E, offered) \/ idle THEN None ELSE plan]
        /\ UNCHANGED <<file, snapshots, minted, faults>>

(* The import's transaction.  A row of its own events that reads damaged   *)
(* refuses it.  A reused object that was found damaged while the source    *)
(* streamed rolls it back: the import plans again, or is refused when the  *)
(* source lacks the object.                                                *)
ImportPublish(s) ==
    LET op == session[s].op
        again == [kind |-> "plan", events |-> op.events, offered |-> op.offered]
        unreadable == op.events \cap file[s].torn
        ended(x) == session' = [session EXCEPT ![s] = x] /\ UNCHANGED <<file, snapshots, minted, faults>>
    IN  /\ Working(s, "import")
        /\ \/ /\ RequireSound(s) /\ unreadable = {} /\ StillSound(s, op.reused)
              /\ Transaction(s, Accepted(s, op.staged, op.events), Published(s, op.staged, None))
           \/ /\ RequireSound(s) /\ unreadable = {}
              /\ \E r \in op.reused \cap session[s].condemned :
                    ended([Asked(s) EXCEPT !.op = IF r \in op.offered THEN again ELSE None])
           \/ /\ RequireSound(s)
              /\ \E e \in unreadable : ended([Asked(s) EXCEPT !.known = @ \cup {e}, !.op = None])
           \/ ~RequireSound(s) /\ Refuse(s)

-----------------------------------------------------------------------------
(* Opening, closing and what befalls a file. *)

Open(s) ==
    /\ file[s] # None /\ session[s] = None
    /\ RoomForOne
    /\ session' = [session EXCEPT ![s] = Opened]
    /\ UNCHANGED <<file, snapshots, minted, faults>>

(* openRuntime with resetIdentity: a fresh replica ID, the history         *)
(* untouched.                                                              *)
ResetIdentity(s) ==
    /\ file[s] # None /\ session[s] = None
    /\ RoomForOne
    /\ minted < MaxAuthors
    /\ minted' = minted + 1
    /\ file' = [file EXCEPT ![s].author = minted + 1, ![s].mine = {}]
    /\ session' = [session EXCEPT ![s] = Opened]
    /\ UNCHANGED <<snapshots, faults>>

(* close waits for the operations admitted before it. *)
Close(s) ==
    /\ session[s] # None
    /\ session[s].op = None
    /\ session' = [session EXCEPT ![s] = None]
    /\ UNCHANGED <<file, snapshots, minted, faults>>

Crash(s) ==
    /\ session[s] # None
    /\ session[s].op # None
    /\ session' = [session EXCEPT ![s] = None]
    /\ UNCHANGED <<file, snapshots, minted, faults>>

(* Somebody copies the database: two writable files share a replica ID. *)
CopyFile(s, t) ==
    /\ file[s] # None /\ session[s] = None
    /\ file[t] = None
    /\ file' = [file EXCEPT ![t] = file[s]]
    /\ UNCHANGED <<session, snapshots, minted, faults>>

(* Bytes of an object rot; a row is torn, or, while nobody owns the file,  *)
(* its bytes become another event's.                                       *)
Fault(s) ==
    /\ file[s] # None
    /\ RoomForFault
    /\ faults' = faults + 1
    /\ \/ \E r \in Roots :
             /\ file[s].bytes[r] = "sound"
             /\ file' = [file EXCEPT ![s].bytes[r] = "bad"]
       \/ \E e \in file[s].events :
             \/ file' = [file EXCEPT ![s].torn = @ \cup {e}]
             \/ session[s] = None /\ file' = [file EXCEPT ![s].swapped = @ \cup {e}]
    /\ UNCHANGED <<session, snapshots, minted>>

Next ==
    \E s \in Stores :
        \/ \E r \in Roots : OpenStream(s, r)
        \/ EndStream(s)
        \/ /\ Unlocked(s) /\ RoomForEvent
           /\ \E e \in Drafts(s) : \E staged \in SUBSET e.roots : Commit(s, e, staged)
        \/ CommitPublish(s)
        \/ Keep(s)
        \/ Collect(s)
        \/ Export(s) \/ ExportSelect(s) \/ ExportGather(s) \/ ExportCopy(s)
        \/ \E x \in snapshots : Restore(s, x) \/ Import(s, x)
        \/ Plan(s)
        \/ ImportPublish(s)
        \/ Open(s) \/ ResetIdentity(s) \/ Close(s) \/ Crash(s)
        \/ \E t \in Stores : CopyFile(s, t)
        \/ Fault(s)

Spec == Init /\ [][Next]_vars

-----------------------------------------------------------------------------
(* Properties. *)

Complete(s) == \A r \in HeldRoots(file[s].events) : file[s].bytes[r] # "absent"

(* Every root a store's events hold has an object there, sound or not:     *)
(* whatever was collected, imported, restored, copied, refused, left       *)
(* unknown or cut short, and whatever the folds that decided it missed.    *)
HeldPresent == \A s \in Stores : file[s] # None => Complete(s)

(* The events a store holds under its own replica ID are those it wrote    *)
(* itself, or held when it was copied: an import never brings it events of *)
(* its own that it does not know.                                          *)
OwnIsOwn ==
    \A s \in Stores : file[s] # None =>
        \A e \in file[s].events : e.author = file[s].author => e \in file[s].mine

(* No event is accepted that retains an object known to be damaged, though *)
(* the object was found damaged after the write looked at it.              *)
NotOverKnownDamage ==
    [][\A s \in Stores : session[s] # None /\ file[s] # None /\ file'[s] # None =>
          \A e \in file'[s].events \ file[s].events :
              \A r \in RetainedRoots(file'[s].events)[e] \cap session[s].condemned :
                  file'[s].bytes[r] = "sound"]_vars

(* What of a store no scan or survey can read as it was written. *)
Damaged(s) == IF file[s] = None THEN {} ELSE file[s].torn \cup file[s].swapped

Exporting(s) ==
    session[s] # None /\ session[s].op # None /\ session[s].op.kind \in {"select", "gather", "export"}

(* The stores together are a replicated set: what one holds only grows,    *)
(* and events reach it from its own writes and from snapshots of others.   *)
(* An export of damaged history delivers nothing; one that delivers lacks  *)
(* no event of its store but rows torn after its survey (exportVault).     *)
Replicated == INSTANCE ReplicatedSet WITH
    events <- [s \in Stores |-> IF file[s] = None THEN {} ELSE file[s].events],
    damaged <- [s \in Stores |-> Damaged(s)],
    exporting <- {s \in Stores : Exporting(s)},
    published <- {x.events : x \in snapshots}

IsReplicatedSet == Replicated!Spec

=============================================================================
