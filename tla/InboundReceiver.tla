-------------------------- MODULE InboundReceiver --------------------------
(* What reaches a runtime from its mediator's queue or by a direct post,   *)
(* through the receiver: the gate over the fold, the receipt, and what the *)
(* receiver keeps in memory of a delivery that waits or has ended.         *)
(*                                                                         *)
(* A delivery names one recipient DID of the vault.  The fold only ever    *)
(* learns more of a DID: that it exists, that its route is usable, that    *)
(* the route is gone, that its records are in conflict.  Scans, openings   *)
(* and receipts are awaited, so steps of the pickup, of direct posts and   *)
(* of localStateChanged() interleave; steps for one delivery are serial.   *)
(* Whose turn at a delivery comes first is left open.                      *)
EXTENDS Naturals, Sequences, FiniteSets, SequencesExt

CONSTANTS
    Pickups,       \* the attachments the mediator holds for this replica
    Posts,         \* the envelopes posted straight to the runtime
    Recipients,    \* the DIDs of the vault they name
    RecipientOf,   \* delivery -> the recipient it names
    SizeOf,        \* delivery -> its bytes
    Tellers,       \* concurrent calls of localStateChanged()
    MaxWaiting,    \* the most deliveries kept waiting
    MaxHeldBytes,  \* the most envelope bytes held
    EndedKept,     \* how many ended deliveries are remembered
    MaxFaults,     \* bound: failed reads, failed receipts, lost answers, crashes
    None

Deliveries == Pickups \cup Posts
Actors == {"pickup", "post"} \cup Tellers

ASSUME ReceiverAssumption ==
    /\ Pickups \cap Posts = {}
    /\ {"pickup", "post"} \cap Tellers = {}
    /\ RecipientOf \in [Deliveries -> Recipients]
    /\ SizeOf \in [Deliveries -> Nat]
    /\ {MaxWaiting, MaxHeldBytes, EndedKept, MaxFaults} \subseteq Nat
    /\ None \notin Deliveries

\* What the fold says of a DID, in the order it can come to say it.
Standings == <<"unknown", "waiting", "eligible", "unrouted", "conflict">>
Standing == Range(Standings)
Later(s, t) == \E i, j \in 1..Len(Standings) : i < j /\ Standings[i] = s /\ Standings[j] = t

VARIABLES
    queued,     \* the mediator's queue
    pushed,     \* attachments fetched or pushed and not yet taken up
    acking,     \* acknowledgements on their way to the mediator
    standing,   \* the vault's fold of each recipient
    untold,     \* a change of it the receiver has not been told of
    recorded,   \* the deliveries the vault holds an observation of
    discarded,  \* history: those found terminal
    open,       \* a receiver is open
    waits,      \* receiver: waiting delivery -> [seen, retry]
    held,       \* receiver: the deliveries whose bytes are held
    heldBytes,  \* receiver: the bytes of those
    ended,      \* receiver: the deliveries that ended, oldest first
    ring,       \* the recipients whose keys the keyring has
    actor,      \* what each actor is doing
    faults

mediator == <<queued, pushed, acking>>
vault == <<standing, untold, recorded>>
kept == <<waits, held, heldBytes>>
vars == <<mediator, vault, discarded, open, kept, ended, ring, actor, faults>>

\* An actor at work on a delivery: the fold it read, whether a change was
\* told of since, whether its receiver was closed under it.  A teller also
\* keeps the fold it compares with and the waits it has yet to compare.
Idle == [pc |-> "idle", key |-> None, fold |-> None, stirred |-> FALSE,
         shut |-> FALSE, todo |-> {}, read |-> None]

Running == {"scan", "ring", "key", "receipt", "defer", "ack"}

Fault == faults < MaxFaults /\ faults' = faults + 1

\* classifyRecipients(): terminal, pending or eligible.
Verdict(s) ==
    CASE s \in {"unknown", "conflict"} -> "terminal"
      [] s \in {"waiting", "unrouted"} -> "pending"
      [] s = "eligible" -> "eligible"

Verified(fold) == {r \in Recipients : fold[r] \notin {"unknown", "conflict"}}

\* serially(): the turn at a delivery is free.
TurnFree(d) == \A a \in Actors : actor[a].pc \in Running => actor[a].key # d

----------------------------------------------------------------------------
(* What the receiver keeps.                                                *)

\* hold(): a delivery's bytes, while everything held fits.
Hold(d) ==
    LET fits == d \notin held /\ heldBytes + SizeOf[d] <= MaxHeldBytes
    IN  /\ held' = IF fits THEN held \cup {d} ELSE held
        /\ heldBytes' = IF fits THEN heldBytes + SizeOf[d] ELSE heldBytes

\* With a bug: a delivery that stops waiting keeps its bytes.
LetGoOfWait(d) ==
    /\ waits' = Restrict(waits, DOMAIN waits \ {d})
    /\ UNCHANGED <<held, heldBytes>>

\* stopWaiting() and release().
LetGo(d) ==
    /\ waits' = Restrict(waits, DOMAIN waits \ {d})
    /\ held' = held \ {d}
    /\ heldBytes' = IF d \in held THEN heldBytes - SizeOf[d] ELSE heldBytes

\* remember(): the oldest is forgotten past as many as are kept.
Remember(d) ==
    LET s == Append(RemoveFirst(ended, d), d)
    IN  ended' = IF Len(s) > EndedKept THEN Tail(s) ELSE s

\* A wait gone or replaced is no longer the one a teller saw.
Unseen(d) == [a \in Actors |-> [actor[a] EXCEPT !.todo = @ \ {d}]]

\* The actor done with its delivery: a teller goes on to its next wait.
Done(actors, a) ==
    [actors EXCEPT ![a] =
        IF a \in Tellers /\ ~actors[a].shut
        THEN [Idle EXCEPT !.pc = "compare", !.todo = actors[a].todo, !.read = actors[a].read]
        ELSE Idle]

Goes(a, pc) == actor' = [actor EXCEPT ![a].pc = pc]

\* leave(): nothing kept, the delivery comes again from where it came.  A
\* receiver closed has let go of everything already.
Leave(a) ==
    IF actor[a].shut
    THEN actor' = Done(actor, a) /\ UNCHANGED kept
    ELSE LetGo(actor[a].key) /\ actor' = Done(Unseen(actor[a].key), a)

\* record() and finish(): the mediator is told of a pickup delivery, on the
\* pickup's way or by the retry itself; a closed agent's line tells nothing.
End(a) ==
    LET d == actor[a].key
    IN  IF actor[a].shut
        THEN actor' = Done(actor, a) /\ UNCHANGED <<kept, ended, acking>>
        ELSE /\ LetGo(d)
             /\ Remember(d)
             /\ acking' = IF a = "pickup" THEN acking \cup {d} ELSE acking
             /\ actor' = IF a \in Tellers /\ d \in Pickups
                         THEN [Unseen(d) EXCEPT ![a].pc = "ack"]
                         ELSE Done(Unseen(d), a)

----------------------------------------------------------------------------
(* Deliveries come.                                                        *)

\* A delivery fetched by a drain or pushed down the socket.
Push(d) ==
    /\ open
    /\ d \in queued
    /\ pushed' = pushed \cup {d}
    /\ UNCHANGED <<queued, acking, vault, discarded, open, kept, ended, ring, actor, faults>>

\* The next delivery of an actor, in its turn.
Comes(a, d) ==
    /\ open
    /\ actor[a].pc = "idle"
    /\ TurnFree(d)
    /\ \/ a = "pickup" /\ d \in pushed /\ pushed' = pushed \ {d}
       \/ a = "post" /\ d \in Posts /\ UNCHANGED pushed

\* enter(): one that ended is told again and not opened.
ToldAgain(a, d) ==
    /\ Comes(a, d)
    /\ d \in Range(ended)
    /\ acking' = IF a = "pickup" THEN acking \cup {d} ELSE acking
    /\ UNCHANGED <<queued, vault, discarded, open, kept, ended, ring, actor, faults>>

\* With a bug: a delivery that waits is acknowledged.
AcknowledgesWaiting(a, d) ==
    /\ Comes(a, d)
    /\ d \notin Range(ended)
    /\ d \in DOMAIN waits /\ ~waits[d].retry
    /\ Hold(d)
    /\ acking' = IF a = "pickup" THEN acking \cup {d} ELSE acking
    /\ UNCHANGED <<queued, vault, discarded, open, waits, ended, ring, actor, faults>>

\* enter(): one that waits is held and left queued.
StillWaits(a, d) ==
    /\ Comes(a, d)
    /\ d \notin Range(ended)
    /\ d \in DOMAIN waits /\ ~waits[d].retry
    /\ Hold(d)
    /\ UNCHANGED <<queued, acking, vault, discarded, open, waits, ended, ring, actor, faults>>

\* enter(): any other goes through the gate.
Enter(a, d) ==
    /\ Comes(a, d)
    /\ d \notin Range(ended)
    /\ d \in DOMAIN waits => waits[d].retry
    /\ actor' = [actor EXCEPT ![a] = [Idle EXCEPT !.pc = "scan", !.key = d]]
    /\ UNCHANGED <<queued, acking, vault, discarded, open, kept, ended, ring, faults>>

\* pickupHandle(): an attachment that does not read is terminal as it is.
Unreadable(d) ==
    /\ Comes("pickup", d)
    /\ LetGo(d)
    /\ Remember(d)
    /\ acking' = acking \cup {d}
    /\ discarded' = discarded \cup {d}
    /\ actor' = Unseen(d)
    /\ UNCHANGED <<queued, vault, open, ring, faults>>

----------------------------------------------------------------------------
(* attempt(): the steps between awaits.                                    *)

\* A step that finds its receiver closed before the receipt is refused.
ShutOut(a) ==
    /\ actor[a].shut
    /\ actor[a].pc \in {"scan", "ring", "key", "ack"}
    /\ actor' = Done(actor, a)
    /\ UNCHANGED <<mediator, vault, discarded, open, kept, ended, ring, faults>>

At(a, pc) == actor[a].pc = pc /\ ~actor[a].shut

\* The vault read and the recipients classified.
Scan(a) ==
    LET d == actor[a].key
        verdict == Verdict(standing[RecipientOf[d]])
    IN  /\ At(a, "scan")
        /\ \/ verdict = "terminal" /\ End(a) /\ discarded' = discarded \cup {d}
           \/ /\ verdict # "terminal"
              /\ actor' = [actor EXCEPT ![a].fold = standing,
                                        ![a].pc = IF verdict = "eligible" THEN "ring" ELSE "defer"]
              /\ UNCHANGED <<acking, kept, ended, discarded>>
        /\ UNCHANGED <<queued, pushed, vault, open, ring, faults>>

ScanFails(a) ==
    /\ At(a, "scan")
    /\ Fault
    /\ Leave(a)
    /\ UNCHANGED <<mediator, vault, discarded, open, ended, ring>>

\* ring.reload(): the keyring of the fold this attempt read.
Reload(a) ==
    /\ At(a, "ring")
    /\ ring' = Verified(actor[a].fold)
    /\ Goes(a, "key")
    /\ UNCHANGED <<mediator, vault, discarded, open, kept, ended, faults>>

\* The key in hand or not; then opened, and refused for what it proves of its
\* sender or by the host's limits of the moment, or handed to the receipt.
Opens(a) ==
    LET d == actor[a].key
    IN  /\ At(a, "key")
        /\ \/ /\ RecipientOf[d] \notin ring
              /\ Goes(a, "defer")
              /\ UNCHANGED <<acking, kept, ended, discarded>>
           \/ /\ RecipientOf[d] \in ring
              /\ End(a)
              /\ discarded' = discarded \cup {d}
           \/ /\ RecipientOf[d] \in ring
              /\ Goes(a, "receipt")
              /\ UNCHANGED <<acking, kept, ended, discarded>>
        /\ UNCHANGED <<queued, pushed, vault, open, ring, faults>>

\* recordReceipt(), under the lock, over the fold read there.
Receipt(a) ==
    LET d == actor[a].key
        verdict == Verdict(standing[RecipientOf[d]])
    IN  /\ actor[a].pc = "receipt"
        /\ \/ /\ verdict = "eligible"
              /\ recorded' = recorded \cup {d}
              /\ End(a)
              /\ UNCHANGED discarded
           \/ /\ verdict = "terminal"
              /\ discarded' = discarded \cup {d}
              /\ End(a)
              /\ UNCHANGED recorded
           \/ /\ verdict = "pending"
              /\ Goes(a, "defer")
              /\ UNCHANGED <<acking, recorded, discarded, kept, ended>>
        /\ UNCHANGED <<queued, pushed, standing, untold, open, ring, faults>>

ReceiptFails(a) ==
    /\ actor[a].pc = "receipt"
    /\ Fault
    /\ Leave(a)
    /\ UNCHANGED <<mediator, vault, discarded, open, ended, ring>>

\* defer(): a change told of meanwhile has the vault read again, which may
\* fail; the delivery goes through the gate again when the watch says
\* something else.
DeferLooks(a) ==
    LET r == RecipientOf[actor[a].key]
    IN  /\ At(a, "defer")
        /\ actor[a].stirred
        /\ \/ Fault /\ Leave(a)
           \/ /\ actor' = [actor EXCEPT ![a].stirred = FALSE,
                                        ![a].pc = IF standing[r] # actor[a].fold[r] THEN "scan" ELSE @]
              /\ UNCHANGED <<kept, faults>>
        /\ UNCHANGED <<mediator, vault, discarded, open, ended, ring>>

\* With a bug: a change told of while the attempt read the vault is missed.
DefersAtOnce(a) ==
    LET d == actor[a].key
    IN  /\ At(a, "defer")
        /\ waits' = [k \in DOMAIN waits \cup {d} |->
                        IF k = d THEN [seen |-> actor[a].fold[RecipientOf[d]], retry |-> FALSE]
                        ELSE waits[k]]
        /\ Hold(d)
        /\ actor' = Done(Unseen(d), a)
        /\ UNCHANGED <<mediator, vault, discarded, open, ended, ring, faults>>

\* defer(): held with what it waits for, or left past as many as may wait.
\* The watch is read over the fold the attempt began with.
Defer(a) ==
    LET d == actor[a].key
    IN  /\ At(a, "defer")
        /\ ~actor[a].stirred
        /\ \/ /\ d \notin DOMAIN waits /\ Cardinality(DOMAIN waits) >= MaxWaiting
              /\ Leave(a)
           \/ /\ d \in DOMAIN waits \/ Cardinality(DOMAIN waits) < MaxWaiting
              /\ waits' = [k \in DOMAIN waits \cup {d} |->
                              IF k = d THEN [seen |-> actor[a].fold[RecipientOf[d]], retry |-> FALSE]
                              ELSE waits[k]]
              /\ Hold(d)
              /\ actor' = Done(Unseen(d), a)
        /\ UNCHANGED <<mediator, vault, discarded, open, ended, ring, faults>>

\* defer() of a receiver closed meanwhile.
DeferShut(a) ==
    /\ actor[a].pc = "defer" /\ actor[a].shut
    /\ Leave(a)
    /\ UNCHANGED <<mediator, vault, discarded, open, ended, ring, faults>>

----------------------------------------------------------------------------
(* Acknowledgements: the mediator drops what it is told of, and once it     *)
(* answered, how the delivery ended is forgotten.                          *)

Acknowledge(d) ==
    /\ d \in acking
    /\ acking' = acking \ {d}
    /\ \/ /\ queued' = queued \ {d}
          /\ ended' = RemoveFirst(ended, d)
          /\ UNCHANGED faults
       \/ Fault /\ queued' \in {queued, queued \ {d}} /\ UNCHANGED ended
    /\ UNCHANGED <<pushed, vault, discarded, open, kept, ring, actor>>

\* A retry's own acknowledgement, in the delivery's turn.
RetryAcknowledges(t) ==
    LET d == actor[t].key
    IN  /\ At(t, "ack")
        /\ \/ /\ queued' = queued \ {d}
              /\ ended' = RemoveFirst(ended, d)
              /\ UNCHANGED faults
           \/ Fault /\ queued' \in {queued, queued \ {d}} /\ UNCHANGED ended
        /\ actor' = Done(actor, t)
        /\ UNCHANGED <<pushed, acking, vault, discarded, open, kept, ring>>

----------------------------------------------------------------------------
(* The vault changes, and the receiver is told.                            *)

Change(r) ==
    /\ \E s \in Standing : Later(standing[r], s) /\ standing' = [standing EXCEPT ![r] = s]
    /\ untold' = TRUE
    /\ UNCHANGED <<mediator, recorded, discarded, open, kept, ended, ring, actor, faults>>

\* localStateChanged(): every attempt under way learns that something came.
Tell(t) ==
    /\ open
    /\ untold
    /\ actor[t].pc = "idle"
    /\ untold' = FALSE
    /\ actor' = [a \in Actors |->
                    IF a = t /\ waits # <<>>
                    THEN [Idle EXCEPT !.pc = "reading", !.todo = DOMAIN waits]
                    ELSE [actor[a] EXCEPT !.stirred = @ \/ actor[a].pc \in Running]]
    /\ UNCHANGED <<mediator, standing, recorded, discarded, open, kept, ended, ring, faults>>

\* Its own read of the vault, which may fail.
TellReads(t) ==
    /\ At(t, "reading")
    /\ \/ actor' = [actor EXCEPT ![t].pc = "compare", ![t].read = standing] /\ UNCHANGED faults
       \/ Goes(t, "compare") /\ Fault
    /\ UNCHANGED <<mediator, vault, discarded, open, kept, ended, ring>>

Same(t, d) == actor[t].read # None /\ actor[t].read[RecipientOf[d]] = waits[d].seen

Compares(t, d) == At(t, "compare") /\ d \in actor[t].todo

Tried(t, d) == [actor EXCEPT ![t].todo = @ \ {d}]

\* A wait whose watch says what it said is left.
Unchanged(t, d) ==
    /\ Compares(t, d)
    /\ Same(t, d)
    /\ actor' = Tried(t, d)
    /\ UNCHANGED <<mediator, vault, discarded, open, kept, ended, ring, faults>>

\* retry(): from the bytes held, or at the next redelivery.
Retry(t, d) ==
    /\ Compares(t, d)
    /\ ~Same(t, d)
    /\ actor[t].read # None
    /\ TurnFree(d)
    /\ IF d \in held
       THEN /\ actor' = [Tried(t, d) EXCEPT ![t].pc = "scan", ![t].key = d]
            /\ UNCHANGED waits
       ELSE /\ actor' = Tried(t, d)
            /\ waits' = [waits EXCEPT ![d].retry = TRUE]
    /\ UNCHANGED <<mediator, vault, discarded, open, held, heldBytes, ended, ring, faults>>

\* With the vault unread nothing can be told of any wait: each is let go.
LetGoUnread(t, d) ==
    /\ Compares(t, d)
    /\ actor[t].read = None
    /\ TurnFree(d)
    /\ LetGo(d)
    /\ actor' = Unseen(d)
    /\ UNCHANGED <<mediator, vault, discarded, open, ended, ring, faults>>

Told(t) ==
    /\ At(t, "compare")
    /\ actor[t].todo = {}
    /\ actor' = [actor EXCEPT ![t] = Idle]
    /\ UNCHANGED <<mediator, vault, discarded, open, kept, ended, ring, faults>>

----------------------------------------------------------------------------
(* The receiver closes, the process ends, another receiver opens.          *)

Forgets ==
    /\ open' = FALSE
    /\ waits' = <<>> /\ held' = {} /\ heldBytes' = 0 /\ ended' = <<>>
    /\ pushed' = {} /\ acking' = {}
    /\ \E S \in SUBSET acking : queued' = queued \ S
    /\ UNCHANGED <<vault, discarded>>

Close ==
    /\ open
    /\ Forgets
    /\ actor' = [a \in Actors |->
                    IF actor[a].pc \in Running
                    THEN [actor[a] EXCEPT !.shut = TRUE, !.todo = {}] ELSE Idle]
    /\ UNCHANGED <<ring, faults>>

Crash ==
    /\ Fault
    /\ Forgets
    /\ actor' = [a \in Actors |-> Idle]
    /\ ring' = {}

Open ==
    /\ ~open
    /\ open' = TRUE
    /\ ring' = Verified(standing)
    /\ UNCHANGED <<mediator, vault, discarded, kept, ended, actor, faults>>

Init ==
    /\ queued = Pickups /\ pushed = {} /\ acking = {}
    /\ standing \in [Recipients -> {"unknown", "waiting", "eligible"}]
    /\ untold = FALSE /\ recorded = {} /\ discarded = {}
    /\ open = TRUE /\ waits = <<>> /\ held = {} /\ heldBytes = 0 /\ ended = <<>>
    /\ ring = Verified(standing)
    /\ actor = [a \in Actors |-> Idle]
    /\ faults = 0

Attempt(a) ==
    \/ ShutOut(a) \/ Scan(a) \/ ScanFails(a) \/ Reload(a) \/ Opens(a)
    \/ Receipt(a) \/ ReceiptFails(a)
    \/ DeferLooks(a) \/ Defer(a) \/ DeferShut(a)

Telling(t) ==
    \/ Tell(t) \/ TellReads(t) \/ Told(t) \/ RetryAcknowledges(t)
    \/ \E d \in Deliveries : Unchanged(t, d) \/ Retry(t, d) \/ LetGoUnread(t, d)

Next ==
    \/ \E a \in Actors : Attempt(a)
    \/ \E a \in {"pickup", "post"}, d \in Deliveries :
            ToldAgain(a, d) \/ StillWaits(a, d) \/ Enter(a, d)
    \/ \E t \in Tellers : Telling(t)
    \/ \E d \in Pickups : Push(d) \/ Unreadable(d) \/ Acknowledge(d)
    \/ \E r \in Recipients : Change(r)
    \/ Close \/ Crash \/ Open

Spec == Init /\ [][Next]_vars

----------------------------------------------------------------------------
ActorType ==
    [pc : Running \cup {"idle", "reading", "compare"}, key : Deliveries \cup {None},
     fold : [Recipients -> Standing] \cup {None}, stirred : BOOLEAN, shut : BOOLEAN,
     todo : SUBSET Deliveries, read : [Recipients -> Standing] \cup {None}]

TypeOK ==
    /\ queued \subseteq Pickups /\ pushed \subseteq Pickups /\ acking \subseteq Pickups
    /\ standing \in [Recipients -> Standing]
    /\ untold \in BOOLEAN
    /\ recorded \subseteq Deliveries /\ discarded \subseteq Deliveries
    /\ open \in BOOLEAN
    /\ DOMAIN waits \subseteq Deliveries
    /\ \A d \in DOMAIN waits : waits[d] \in [seen : Standing, retry : BOOLEAN]
    /\ held \subseteq Deliveries
    /\ heldBytes \in Nat
    /\ ended \in Seq(Deliveries)
    /\ ring \subseteq Recipients
    /\ actor \in [Actors -> ActorType]
    /\ faults \in 0..MaxFaults

\* Nothing under way can disturb the wait of d: every change was told of, no
\* step for d is running and no teller has yet to compare it.
Quiet(d) ==
    /\ ~untold
    /\ TurnFree(d)
    /\ \A t \in Tellers : d \notin actor[t].todo

\* receiver.ts: "the mediator's copy is the only copy and nothing addressed
\* here may be dropped for want of room".  What is gone from the mediator's
\* queue the vault holds an observation of, or the gate found it terminal:
\* no wait, failed read, failed receipt, lost answer, close or crash drops it.
NothingDropped == Pickups \ queued \subseteq recorded \cup discarded

\* receiver.ts: "the delivery is retried when this says something else than
\* it did when the delivery was held".  Once the receiver was told of every
\* change and has compared, no wait is left on a fold that has changed,
\* whatever came while its attempt was reading, opening or deferring.
NoLostWakeup ==
    \A d \in DOMAIN waits :
        Quiet(d) => waits[d].retry \/ waits[d].seen = standing[RecipientOf[d]]

\* What the receiver keeps is accounted for and bounded: the bytes held are
\* those of waiting deliveries and add up, as many wait and as many ended
\* ones are remembered as may, and nothing is remembered both ways.
KeptAccounted ==
    /\ held \subseteq DOMAIN waits
    /\ heldBytes = SumFunctionOnSet(SizeOf, held)
    /\ heldBytes <= MaxHeldBytes
    /\ Cardinality(DOMAIN waits) <= MaxWaiting
    /\ Len(ended) <= EndedKept
    /\ Range(ended) \cap DOMAIN waits = {}

=============================================================================
