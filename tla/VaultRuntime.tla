---------------------------- MODULE VaultRuntime ----------------------------
(***************************************************************************)
(* The vault runtime: the writer lock that runs the operations of one      *)
(* process one at a time, the views an operation works through while it    *)
(* holds the lock, and what the two stores under them accept.  Nothing is  *)
(* locked by the stores themselves: a commit checks its roots, waits for   *)
(* its bytes and publishes later; a collection folds what to keep and      *)
(* deletes later; only the order the lock keeps makes the two agree.  The  *)
(* stores are those in memory, whose steps are the interface's.            *)
(***************************************************************************)
EXTENDS Naturals, Sequences, FiniteSets

CONSTANTS
    Calls,     \* the calls a program ever makes on the runtime
    Objects,   \* what events hold
    Events,    \* what is ever written: equal envelopes are one event
    Foreign,   \* those of other replicas
    RootsOf,   \* the roots each event names
    Releases,  \* the events whose roots each event releases
    MaxIssued, \* bound: mutations one operation issues
    MaxRuined  \* bound: bytes ruined, and commits whose outcome is unknown

VARIABLES
    calls,  \* each call: how far it is, and the mutations issued through its view
    lock,   \* the calls admitted and not ended, in order: the first holds the lock
    store,  \* the events in the order accepted, the objects, the damage found
    reader, \* a stream being read outside the lock, and a follower of changes
    life    \* whether the vault is open, closing or closed, or stopped

rtvars == <<calls, lock, store, reader, life>>

OperationKinds == {"commit", "collect", "ingest", "program"}

NoStream == [cid |-> "none", stale |-> FALSE]

RuntimeInit ==
    /\ calls = [c \in Calls |-> [stage |-> "new", kind |-> "program", muts |-> <<>>, issued |-> 0, returned |-> FALSE]]
    /\ lock = <<>>
    /\ store = [accepted |-> <<>>, bytes |-> [o \in Objects |-> "absent"], damaged |-> {}, ruined |-> 0]
    /\ reader = [stream |-> NoStream, token |-> 0, seen |-> <<>>]
    /\ life = [is |-> "open", stopped |-> FALSE]

-----------------------------------------------------------------------------
(* What the stores hold. *)

Held == {store.accepted[i] : i \in DOMAIN store.accepted}

(* The keep set, folded from the events: the roots of those not released.  *)
Folded(E) == UNION {RootsOf[e] : e \in E \ UNION {Releases[x] : x \in E}}

Sound(o) == store.bytes[o] # "absent" /\ o \notin store.damaged

(* An event that is held already, or comes twice, is accepted once. *)
Accept(events, e) == IF e \in Held THEN events ELSE Append(events, e)

(* land: what is held and not known damaged stays as it is. *)
Landing(put) == {o \in put : ~Sound(o)}

Land(put) == [o \in Objects |-> IF o \in Landing(put) THEN "sound" ELSE store.bytes[o]]

(* A stream goes on over the bytes it was opened on: a mismatch at its end *)
(* says nothing of what replaced them.                                     *)
Moved(cids) == [reader EXCEPT !.stream.stale = @ \/ reader.stream.cid \in cids]

-----------------------------------------------------------------------------
(* Admission and the lock. *)

Admits == life.is = "open" /\ ~life.stopped

Refused(c) == calls' = [calls EXCEPT ![c].stage = "answered"]

(* A call asks for the lock: refused once closing has begun or the vault   *)
(* stopped, else queued behind every call admitted before it.              *)
Enter(c) ==
    IF Admits THEN calls' = [calls EXCEPT ![c].stage = "queued"] /\ lock' = Append(lock, c)
              ELSE Refused(c) /\ UNCHANGED lock

(* An ingest asks twice: it reads its whole source before it queues. *)
Call(c, kind) ==
    /\ calls[c].stage = "new"
    /\ LET asked == [calls[c] EXCEPT !.kind = kind]
       IN  IF Admits
             THEN /\ calls' = [calls EXCEPT ![c] = [asked EXCEPT !.stage = IF kind = "ingest" THEN "reading" ELSE "queued"]]
                  /\ lock' = IF kind = "ingest" THEN lock ELSE Append(lock, c)
             ELSE Refused(c) /\ UNCHANGED lock
    /\ UNCHANGED <<store, reader, life>>

ReadAll(c) ==
    /\ calls[c].stage = "reading"
    /\ Enter(c)
    /\ UNCHANGED <<store, reader, life>>

Holds(c) == lock # <<>> /\ Head(lock) = c

(* What a call may be asked to write: an object put must be a root of the  *)
(* event.  An import puts what the vault lacks, or has known damaged, of   *)
(* the roots of what it brings.                                            *)
Writes(kind) ==
    {[kind |-> kind, event |-> e, put |-> put, step |-> "new"] :
        e \in IF kind = "ingest" THEN Foreign ELSE Events \ Foreign, put \in SUBSET Objects}

Mutations(kind) ==
    IF kind = "collect" THEN {[kind |-> "collect", keep |-> {}, step |-> "new"]}
    ELSE {m \in Writes(kind) : m.put \subseteq RootsOf[m.event] /\ (kind = "ingest" => m.put = RootsOf[m.event])}

(* The lock's turn is asked again, and only a vault that stopped refuses:  *)
(* what was admitted before a close runs out.                              *)
Begin(c) ==
    /\ calls[c].stage = "queued" /\ Holds(c)
    /\ IF life.stopped
         THEN Refused(c) /\ lock' = Tail(lock)
         ELSE /\ UNCHANGED lock
              /\ IF calls[c].kind = "program"
                   THEN calls' = [calls EXCEPT ![c].stage = "in"]
                   ELSE \E m \in Mutations(calls[c].kind) :
                          calls' = [calls EXCEPT ![c].stage = "in", ![c].muts = <<m>>, ![c].returned = TRUE]
    /\ UNCHANGED <<store, reader, life>>

(* With a bug: a view that was kept still takes mutations. *)
IssuableLate(c) == calls[c].stage \in {"in", "answered"}

(* A held view takes a mutation while its operation's callback runs. *)
Issuable(c) == calls[c].stage = "in" /\ ~calls[c].returned

(* A program issues a mutation through its view, and may not wait for it;  *)
(* the mutations of one operation run one behind another.                  *)
Issue(c) ==
    /\ calls[c].kind = "program"
    /\ Issuable(c)
    /\ calls[c].issued < MaxIssued
    /\ \E kind \in {"commit", "collect", "ingest"} : \E m \in Mutations(kind) :
          calls' = [calls EXCEPT ![c].muts = Append(@, m), ![c].issued = @ + 1]
    /\ UNCHANGED <<lock, store, reader, life>>

(* The callback returns; what it issued still runs before the lock goes on.*)
Return(c) ==
    /\ calls[c].stage = "in" /\ ~calls[c].returned
    /\ calls' = [calls EXCEPT ![c].returned = TRUE]
    /\ UNCHANGED <<lock, store, reader, life>>

Ended(c) == calls[c].returned /\ calls[c].muts = <<>>

End(c) ==
    /\ calls[c].stage = "in" /\ Holds(c)
    /\ Ended(c)
    /\ calls' = [calls EXCEPT ![c].stage = "answered"]
    /\ lock' = Tail(lock)
    /\ UNCHANGED <<store, reader, life>>

-----------------------------------------------------------------------------
(* The mutations, of the call they were issued through. *)

Doing(c, kinds, step) ==
    /\ calls[c].muts # <<>>
    /\ Head(calls[c].muts).kind \in kinds /\ Head(calls[c].muts).step = step

Done(c) == calls' = [calls EXCEPT ![c].muts = Tail(@)]

(* Its objects verified, unseen by any read, and its roots required: each  *)
(* prepared, or held and not known damaged.                                *)
Stage(c) ==
    LET m == Head(calls[c].muts)
    IN  /\ Doing(c, {"commit", "ingest"}, "new")
        /\ IF ~life.stopped /\ \A o \in RootsOf[m.event] \ m.put : Sound(o)
             THEN calls' = [calls EXCEPT ![c].muts = <<[m EXCEPT !.step = "staged"]>> \o Tail(@)]
             ELSE Done(c)
        /\ UNCHANGED <<lock, store, reader, life>>

(* Published in one step, the objects with the event: refused when a root  *)
(* relied on as it is was found damaged meanwhile.  That it is still there *)
(* is not asked.  A commit whose outcome is unknown stops the vault.       *)
Publish(c) ==
    LET m == Head(calls[c].muts)
        landed == [store EXCEPT !.accepted = Accept(@, m.event), !.bytes = Land(m.put), !.damaged = @ \ m.put]
    IN  /\ Doing(c, {"commit", "ingest"}, "staged")
        /\ Done(c)
        /\ \/ /\ life.stopped \/ (RootsOf[m.event] \ m.put) \cap store.damaged # {}
              /\ UNCHANGED <<store, reader, life>>
           \/ /\ ~life.stopped /\ (RootsOf[m.event] \ m.put) \cap store.damaged = {}
              /\ store' = landed
              /\ reader' = Moved(Landing(m.put))
              /\ UNCHANGED life
           \/ /\ ~life.stopped /\ store.ruined < MaxRuined
              /\ \E s \in {store, landed} : store' = [s EXCEPT !.ruined = @ + 1]
              /\ life' = [life EXCEPT !.stopped = TRUE]
              /\ UNCHANGED reader
        /\ UNCHANGED lock

(* collect: what to keep, folded through a view that refuses a mutation,   *)
(* which would wait for the pass that waits for it.                        *)
KeepFold(c) ==
    LET m == Head(calls[c].muts)
    IN  /\ Doing(c, {"collect"}, "new")
        /\ IF life.stopped THEN Done(c)
           ELSE calls' = [calls EXCEPT ![c].muts =
                             <<[m EXCEPT !.step = "kept", !.keep = Folded(Held)]>> \o Tail(@)]
        /\ UNCHANGED <<lock, store, reader, life>>

(* A fold that tries to write fails, and the pass with it. *)
KeepWrites(c) == Done(c)

KeepMisused(c) ==
    /\ Doing(c, {"collect"}, "new")
    /\ KeepWrites(c)
    /\ UNCHANGED <<lock, store, reader, life>>

Delete(c) ==
    LET removed == {o \in Objects : store.bytes[o] # "absent"} \ Head(calls[c].muts).keep
    IN  /\ Doing(c, {"collect"}, "kept")
        /\ Done(c)
        /\ IF life.stopped THEN UNCHANGED <<store, reader>>
           ELSE /\ store' = [store EXCEPT !.bytes = [o \in Objects |-> IF o \in removed THEN "absent" ELSE @[o]],
                                          !.damaged = @ \ removed]
                /\ reader' = Moved(removed)
        /\ UNCHANGED <<lock, life>>

-----------------------------------------------------------------------------
(* Reads, which take no lock but for a stream's presence check. *)

Reads == life.is = "open" /\ ~life.stopped

ReadStream(o) ==
    /\ Reads /\ lock = <<>>
    /\ reader.stream.cid = "none"
    /\ Sound(o) /\ store.bytes[o] = "bad"
    /\ reader' = [reader EXCEPT !.stream = [cid |-> o, stale |-> FALSE]]
    /\ UNCHANGED <<calls, lock, store, life>>

(* The bytes do not hash to the CID: damage, if they are still held. *)
ReadStreamEnds ==
    /\ reader.stream.cid # "none"
    /\ store' = IF reader.stream.stale THEN store ELSE [store EXCEPT !.damaged = @ \cup {reader.stream.cid}]
    /\ reader' = [reader EXCEPT !.stream = NoStream]
    /\ UNCHANGED <<calls, lock, life>>

(* changes: what was accepted after the token, and the token of now. *)
Follow ==
    /\ Reads
    /\ reader.token < Len(store.accepted)
    /\ reader' = [reader EXCEPT !.token = Len(store.accepted),
                                !.seen = @ \o SubSeq(store.accepted, reader.token + 1, Len(store.accepted))]
    /\ UNCHANGED <<calls, lock, store, life>>

Ruin(o) ==
    /\ store.bytes[o] = "sound"
    /\ store.ruined < MaxRuined
    /\ store' = [store EXCEPT !.bytes[o] = "bad", !.ruined = @ + 1]
    /\ UNCHANGED <<calls, lock, reader, life>>

-----------------------------------------------------------------------------
(* Closing: nothing new is admitted, what was admitted runs out, and then  *)
(* the database is let go of.                                              *)

CloseVault ==
    /\ life.is = "open"
    /\ life' = [life EXCEPT !.is = "closing"]
    /\ UNCHANGED <<calls, lock, store, reader>>

Idle == lock = <<>>

Closed ==
    /\ life.is = "closing" /\ Idle
    /\ life' = [life EXCEPT !.is = "closed"]
    /\ UNCHANGED <<calls, lock, store, reader>>

(* The vault opened again, by whoever comes: the stores are as they were,  *)
(* except that what is known damaged is found anew.                        *)
Reopen ==
    /\ life.is = "closed"
    /\ life' = [is |-> "open", stopped |-> FALSE]
    /\ store' = [store EXCEPT !.damaged = {}]
    /\ reader' = [reader EXCEPT !.stream = NoStream]
    /\ UNCHANGED <<calls, lock>>

-----------------------------------------------------------------------------
(* The steps the runtime owes: those of its own, and of callbacks that end.*)
Owed ==
    \/ Closed
    \/ \E c \in Calls : ReadAll(c) \/ Begin(c) \/ Return(c) \/ End(c) \/ Stage(c) \/ Publish(c) \/ KeepFold(c) \/ Delete(c)

RuntimeNext ==
    \/ Owed
    \/ \E c \in Calls : (\E kind \in OperationKinds : Call(c, kind)) \/ Issue(c) \/ KeepMisused(c)
    \/ \E o \in Objects : ReadStream(o) \/ Ruin(o)
    \/ ReadStreamEnds \/ Follow \/ CloseVault \/ Reopen

RuntimeSpec == RuntimeInit /\ [][RuntimeNext]_rtvars

-----------------------------------------------------------------------------
(* Types, and what the constants are. *)

RuntimeAssumption ==
    /\ Foreign \subseteq Events
    /\ RootsOf \in [Events -> SUBSET Objects]
    /\ {MaxIssued, MaxRuined} \subseteq Nat

Put == [kind : {"commit", "ingest"}, event : Events, put : SUBSET Objects, step : {"new", "staged"}]

Collection == [kind : {"collect"}, keep : SUBSET Objects, step : {"new", "kept"}]

Operations == [stage : {"new", "reading", "queued", "in", "answered"}, kind : OperationKinds,
               muts : Seq(Put \cup Collection), issued : Nat, returned : BOOLEAN]

RuntimeTypeOK ==
    /\ calls \in [Calls -> Operations]
    /\ lock \in Seq(Calls)
    /\ store \in [accepted : Seq(Events), bytes : [Objects -> {"absent", "sound", "bad"}],
                  damaged : SUBSET Objects, ruined : Nat]
    /\ reader \in [stream : [cid : Objects \cup {"none"}, stale : BOOLEAN], token : Nat, seen : Seq(Events)]
    /\ life \in [is : {"open", "closing", "closed"}, stopped : BOOLEAN]

-----------------------------------------------------------------------------
(* Properties. *)

(* Whatever commits, imports and collections were issued together, awaited *)
(* or not, through views of operations running, returned and ended: every  *)
(* root the accepted events hold has its object.                           *)
RootsHeld == Folded(Held) \subseteq {o \in Objects : store.bytes[o] # "absent"}

(* One who follows the changes token by token sees every event once. *)
FollowsExactly ==
    /\ \A i, j \in DOMAIN reader.seen : i # j => reader.seen[i] # reader.seen[j]
    /\ {reader.seen[i] : i \in DOMAIN reader.seen} = {store.accepted[i] : i \in 1 .. reader.token}

(* Nobody waits for ever: while a call is unanswered or a close under way, *)
(* the runtime owes a step; and once the database is let go of nothing     *)
(* runs on it, which another process may have by then.                     *)
LetGo == life.is = "closed" => \A c \in Calls : calls[c].muts = <<>> /\ calls[c].stage \notin {"queued", "in"}

RunsOut ==
    /\ lock # <<>> \/ life.is = "closing" => ENABLED Owed
    /\ LetGo

=============================================================================
