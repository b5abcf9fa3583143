------------------------- MODULE OutboundDelivery -------------------------
(* One outbound message of a vault several replicas hold, as the runtime  *)
(* of one of them works on it: its intent, its preparations, the transport *)
(* calls made of it under live actions, and what the answers leave in the  *)
(* vault.  The other replicas do the same elsewhere; what they wrote comes *)
(* by importing snapshots of their vaults, an event set joined to the one  *)
(* here, so an import may bring any event another replica can have        *)
(* written on what its snapshot holds.                                     *)
(*                                                                         *)
(* A replica makes at most one preparation of a message, since it prepares *)
(* only while it sees none, so a preparation is named by its author.       *)
(* Events are <<kind, ..., author>>: <<"out">>, <<"prepared", p>>,         *)
(* <<"submitted", p, r>> and <<"failed", code, r>>.  The send gate, the    *)
(* effect's evidence and erasure are other folds' to decide: a step that   *)
(* reads the fold may find any of them against the message.                *)
(*                                                                         *)
(* Work on one message runs serially in a runtime: a queue of jobs and the *)
(* one whose turn it is.  What a job does under the writer lock is one     *)
(* step; the steps between are where imports, crashes and the user come.   *)
EXTENDS Naturals, Sequences, FiniteSets

CONSTANTS
    Here,        \* this replica
    Others,      \* the other replicas of the vault
    None,
    MaxActions,  \* bound: live actions minted for the message
    Attempts,    \* the retry policy's attempts of one action
    MaxQueue,    \* bound: jobs the user puts behind the one running
    MaxFaults    \* bound: crashes and failed writes

Replicas == {Here} \cup Others

ASSUME OutboundAssumption ==
    /\ IsFiniteSet(Others) /\ Here \notin Others
    /\ None \notin Replicas
    /\ MaxActions \in Nat /\ MaxQueue \in Nat /\ MaxFaults \in Nat
    /\ None \notin 1..MaxActions
    /\ Attempts \in Nat \ {0}

VARIABLES
    vault,     \* the events of the message here
    selected,  \* the local record of the preparation the calls carry
    owed,      \* the local record of an acceptance not recorded yet
    state,     \* of the agent and its dispatcher: "open", "closed" or "down"
    wait,      \* the action the dispatcher keeps between attempts, or None
    minted,    \* live actions minted
    spent,     \* the actions whose invocation is used
    queue,     \* the jobs waiting for the message's turn
    turn,      \* the dispatch under way, None between jobs
    expired,   \* the message's expiry has come
    faults,
    calls,     \* history: transport calls made
    carried,   \* history: the preparations they carried since the user chose
    accepted,  \* history: the preparations the wire accepted
    kept,      \* history: those whose acceptance was kept as owed
    misread    \* history: a record of an acceptance owed was not found

records == <<selected, owed>>
dispatcher == <<state, wait, minted, spent>>
history == <<calls, carried, accepted, kept, misread>>
vars == <<vault, records, dispatcher, queue, turn, expired, faults, history>>

Actions == 1..MaxActions
Preparations == Replicas
Codes == {"expired", "cancelled"}

Jobs == [kind : {"dispatch"}, action : Actions, prep : {None}]
            \cup [kind : {"cancel"}, action : {None}, prep : {None}]
            \cup [kind : {"select"}, action : {None}, prep : Preparations]

Events == {<<"out">>}
            \cup ({"prepared"} \X Preparations)
            \cup ({"submitted"} \X Preparations \X Replicas)
            \cup ({"failed"} \X Codes \X Replicas)

----------------------------------------------------------------------------
(* The fold: what the events of a vault say of the message.                *)

Prepared(V) == {p \in Preparations : <<"prepared", p>> \in V}

SubmissionsOf(V, p) == {r \in Replicas : <<"submitted", p, r>> \in V}

Submitted(V) == \E p \in Prepared(V) : SubmissionsOf(V, p) # {}

Unresolved(V) == \E p \in Preparations \ Prepared(V) : SubmissionsOf(V, p) # {}

Terminal(V) == \E c \in Codes, r \in Replicas :
                    <<"failed", c, r>> \in V

Closed(V) == Submitted(V) \/ Terminal(V)

\* "none", "prepare" or "dispatch"
Work(V) ==
    IF Closed(V) \/ Unresolved(V) THEN "none"
    ELSE IF Prepared(V) = {} THEN "prepare"
    ELSE "dispatch"

\* With a bug: the first of several is taken.
CarriageFirst(V, sel) ==
    IF sel # None THEN (IF sel \in Prepared(V) THEN sel ELSE None)
    ELSE CHOOSE p \in Prepared(V) : TRUE

\* What a call carries, given the record of the selection: None when the
\* choice among several is the user's.
Carriage(V, sel) ==
    IF sel # None THEN (IF sel \in Prepared(V) THEN sel ELSE None)
    ELSE IF Cardinality(Prepared(V)) = 1 THEN CHOOSE p \in Prepared(V) : TRUE
    ELSE None

\* A step that may go wrong: a crash, or a write that fails.
Fault == faults < MaxFaults /\ faults' = faults + 1
Unless(ok) == IF ok THEN UNCHANGED faults ELSE Fault

Commit(e) == vault' = vault \cup {e}

----------------------------------------------------------------------------
(* The dispatcher: one waiting action per message, tried again while what  *)
(* it misses may still come.                                               *)

Wait(a, n, armed) == [action |-> a, attempts |-> n, armed |-> armed]

IsWaiting(a) == wait # None /\ wait.action = a

\* schedule(wait, reason): given up on once the attempts are used.
Scheduled ==
    IF wait.attempts >= Attempts THEN None ELSE [wait EXCEPT !.armed = TRUE]

\* What attempt(wait) does with the outcome of its dispatch; forget(wait)
\* drops the wait only while it is still this action's.
Report(a, outcome) ==
    /\ wait' = IF ~IsWaiting(a) THEN wait
               ELSE IF outcome = "pending" /\ state = "open" THEN Scheduled
               ELSE None
    /\ UNCHANGED <<state, minted, spent>>

Dispatch(a) == [kind |-> "dispatch", action |-> a, prep |-> None]

\* run(action): a newer action replaces the one still waiting.
Run ==
    /\ state = "open"
    /\ minted < MaxActions
    /\ Len(queue) < MaxQueue
    /\ minted' = minted + 1
    /\ wait' = Wait(minted + 1, 1, FALSE)
    /\ queue' = Append(queue, Dispatch(minted + 1))
    /\ UNCHANGED <<state, spent>>

\* The message sent here: its intent committed, its initial action run.
Send ==
    /\ vault = {}
    /\ Commit(<<"out">>)
    /\ Run
    /\ UNCHANGED <<records, turn, expired, faults, history>>

\* retry(messageId), or the message sent again: a manual action.
Retry ==
    /\ <<"out">> \in vault
    /\ Run
    /\ UNCHANGED <<vault, records, turn, expired, faults, history>>

\* The timer of a waiting action fires.
Timer ==
    /\ wait # None /\ wait.armed
    /\ wait' = Wait(wait.action, wait.attempts + 1, FALSE)
    /\ queue' = Append(queue, Dispatch(wait.action))
    /\ UNCHANGED <<vault, records, state, minted, spent, turn, expired, faults, history>>

\* cancel(messageId): the waiting action dropped, then the job queued.
Cancel ==
    /\ state # "down"
    /\ <<"out">> \in vault
    /\ Len(queue) < MaxQueue
    /\ wait' = None
    /\ queue' = Append(queue, [kind |-> "cancel", action |-> None, prep |-> None])
    /\ UNCHANGED <<vault, records, state, minted, spent, turn, expired, faults, history>>

\* select(messageId, preparation): the user's choice.
Select ==
    /\ state # "down"
    /\ Len(queue) < MaxQueue
    /\ \E p \in Prepared(vault) :
        queue' = Append(queue, [kind |-> "select", action |-> None, prep |-> p])
    /\ UNCHANGED <<vault, records, dispatcher, turn, expired, faults, history>>

\* close(): no wait is kept, jobs already queued run out without a call.
Close ==
    /\ state = "open"
    /\ state' = "closed"
    /\ wait' = None
    /\ UNCHANGED <<vault, records, minted, spent, queue, turn, expired, faults, history>>

----------------------------------------------------------------------------
(* The job whose turn it is.  It begins by reading what acceptance is owed *)
(* and recording it; nothing else of this runtime can come between that    *)
(* and the job's first locked step, and a crash between leaves what a      *)
(* crash before it leaves, so the two are one step.  A read of a local     *)
(* record may fail, and then finds none.                                   *)

Turn(kinds) ==
    /\ turn = None
    /\ queue # <<>>
    /\ Head(queue).kind \in kinds
    /\ queue' = Tail(queue)

\* The job found no acceptance owed: there is none, or the read failed.
FindsNoneOwed == misread' = (misread \/ owed # None)

\* committed(): delivery.submitted of p unless one is recorded, then the
\* record of the debt deleted, which may fail.
Committed(p) ==
    /\ vault' = IF SubmissionsOf(vault, p) # {} THEN vault
                ELSE vault \cup {<<"submitted", p, Here>>}
    /\ \E o \in {owed, None} : owed' = o /\ Unless(o = None)

\* recordOwedAcceptance: the job ends with what it recorded.
RecordOwed ==
    /\ owed # None
    /\ Turn({"dispatch", "cancel", "select"})
    /\ Committed(owed)
    /\ Report(Head(queue).action, "submitted")
    /\ UNCHANGED <<selected, turn, expired, history>>

\* An expiry that has come terminates an open message at every look.
Expires(a) ==
    /\ ~Closed(vault) /\ expired
    /\ Commit(<<"failed", "expired", Here>>)
    /\ Report(a, "expired")

Rechecking(a, p) == turn' = [action |-> a, prep |-> p, pc |-> "recheck"]

\* The selection written, or refused by the local store, which leaves the
\* message uncarried.
Selecting(a, p) ==
    \/ selected' = p /\ Rechecking(a, p) /\ UNCHANGED <<dispatcher, faults>>
    \/ Report(a, "none") /\ Fault /\ UNCHANGED <<selected, turn>>

\* preparationOf(): the one selected, the only one, or one made now; sel is
\* the selection as it was read.
Carries(a, sel) ==
    LET p == Carriage(vault, sel)
    IN  /\ ~Closed(vault) /\ ~expired
        /\ \/ /\ Work(vault) = "dispatch" /\ p # None
              /\ IF sel = p THEN Rechecking(a, p) /\ UNCHANGED <<selected, dispatcher, faults>>
                            ELSE Selecting(a, p)
              /\ UNCHANGED vault
           \/ /\ Work(vault) = "prepare" /\ sel = None
              /\ Commit(<<"prepared", Here>>)
              /\ Selecting(a, Here)

\* ready(): closed, expired, carried; or nothing to carry now or the user's
\* to choose; or the recipient's long form, the content or the envelope is
\* not here and may still come.
Ready ==
    LET a == Head(queue).action
    IN  /\ Turn({"dispatch"})
        /\ FindsNoneOwed
        /\ \/ /\ a \notin spent
              /\ \E sel \in {selected, None} : Carries(a, sel)
           \/ /\ a \notin spent
              /\ Expires(a)
              /\ UNCHANGED <<selected, turn, faults>>
           \/ /\ a \notin spent
              /\ expired => Closed(vault)
              /\ \E o \in {"pending", "none"} : Report(a, o)
              /\ UNCHANGED <<vault, selected, turn, faults>>
           \/ /\ a \in spent
              /\ Report(a, "spent")
              /\ UNCHANGED <<vault, selected, turn, faults>>
        /\ UNCHANGED <<owed, expired, calls, carried, accepted, kept>>

\* Outside the lock the sender's registration is confirmed, the mediator
\* resolved and the forward sealed, or not now, or never; then recheck(),
\* under the lock again right before the call.
Recheck ==
    /\ turn # None /\ turn.pc = "recheck"
    /\ \/ /\ Work(vault) = "dispatch" /\ turn.prep \in Prepared(vault) /\ ~expired
          /\ turn.action \notin spent
          /\ turn' = [turn EXCEPT !.pc = "call"]
          /\ UNCHANGED <<vault, dispatcher>>
       \/ /\ Expires(turn.action)
          /\ turn' = None
       \/ /\ \E o \in {"pending", "none"} : Report(turn.action, o)
          /\ turn' = None
          /\ UNCHANGED vault
    /\ UNCHANGED <<records, queue, expired, faults, history>>

\* call(): the action's invocation consumed in the step that calls.
Call ==
    /\ turn # None /\ turn.pc = "call"
    /\ state = "open"
    /\ turn.action \notin spent
    /\ spent' = spent \cup {turn.action}
    /\ turn' = [turn EXCEPT !.pc = "answer"]
    /\ calls' = calls + 1
    /\ carried' = carried \cup {turn.prep}
    /\ UNCHANGED <<vault, records, state, wait, minted, queue, expired, faults, accepted, kept, misread>>

\* Nothing called: the deadline passed first, or the dispatcher closed.
CallNot ==
    /\ turn # None /\ turn.pc = "call"
    /\ \E o \in {"pending", "none"} :
        /\ o = "none" => state = "closed"
        /\ Report(turn.action, o)
    /\ turn' = None
    /\ UNCHANGED <<vault, records, queue, expired, faults, history>>

\* With a bug: the acceptance is to be kept after it is committed.
AcceptedKeptLater ==
    /\ turn # None /\ turn.pc = "answer"
    /\ turn' = [turn EXCEPT !.pc = "commit"]
    /\ accepted' = accepted \cup {turn.prep}
    /\ kept' = kept \cup {turn.prep}
    /\ UNCHANGED <<vault, records, dispatcher, queue, expired, faults, calls, carried, misread>>

\* 2xx: recordAcceptance() keeps the acceptance as owed before it is
\* committed; a record that cannot be written is traced and left.
Accepted ==
    /\ turn # None /\ turn.pc = "answer"
    /\ turn' = [turn EXCEPT !.pc = "commit"]
    /\ accepted' = accepted \cup {turn.prep}
    /\ \/ owed' = turn.prep /\ kept' = kept \cup {turn.prep} /\ UNCHANGED faults
       \/ Fault /\ UNCHANGED <<owed, kept>>
    /\ UNCHANGED <<vault, selected, dispatcher, queue, expired, calls, carried, misread>>

RecordAccepted ==
    /\ turn # None /\ turn.pc = "commit"
    /\ Committed(turn.prep)
    /\ Report(turn.action, "submitted")
    /\ turn' = None
    /\ UNCHANGED <<selected, queue, expired, history>>

\* With a bug: a call without an answer gives its invocation back.
RetriesUnanswered ==
    /\ turn # None /\ turn.pc = "answer"
    /\ wait' = IF IsWaiting(turn.action) /\ state = "open" THEN Scheduled ELSE wait
    /\ spent' = spent \ {turn.action}
    /\ turn' = None
    /\ UNCHANGED <<vault, records, state, minted, queue, expired, faults, history>>

\* Another status, or no answer in time: the envelope may have arrived.
NotAccepted ==
    /\ turn # None /\ turn.pc = "answer"
    /\ Report(turn.action, "failed")
    /\ turn' = None
    /\ UNCHANGED <<vault, records, queue, expired, faults, history>>

\* With a bug: a cancellation does not wait for its turn.
CancelAtOnce ==
    /\ queue # <<>> /\ Head(queue).kind = "cancel"
    /\ queue' = Tail(queue)
    /\ FindsNoneOwed
    /\ IF Closed(vault) THEN UNCHANGED vault ELSE Commit(<<"failed", "cancelled", Here>>)
    /\ UNCHANGED <<records, dispatcher, turn, expired, faults, calls, carried, accepted, kept>>

\* cancel() in its turn.
CancelStep ==
    /\ Turn({"cancel"})
    /\ FindsNoneOwed
    /\ IF Closed(vault) THEN UNCHANGED vault ELSE Commit(<<"failed", "cancelled", Here>>)
    /\ UNCHANGED <<records, dispatcher, turn, expired, faults, calls, carried, accepted, kept>>

\* selectPreparation() in its turn: a valid one of an open message.
SelectStep ==
    /\ Turn({"select"})
    /\ FindsNoneOwed
    /\ \/ /\ Work(vault) = "dispatch"
          /\ Head(queue).prep \in Prepared(vault)
          /\ selected' = Head(queue).prep
          /\ carried' = {}
       \/ UNCHANGED <<selected, carried>>
    /\ UNCHANGED <<vault, owed, dispatcher, turn, expired, faults, calls, accepted, kept>>

\* A commit or a read of the vault fails: the job throws, nothing written.
Throws ==
    /\ Fault
    /\ \/ /\ Turn({"dispatch", "cancel", "select"})
          /\ Report(Head(queue).action, "threw")
          /\ UNCHANGED turn
       \/ /\ turn # None /\ turn.pc \in {"recheck", "commit"}
          /\ Report(turn.action, "threw")
          /\ turn' = None
          /\ UNCHANGED queue
    /\ UNCHANGED <<vault, records, expired, history>>

----------------------------------------------------------------------------
(* Everything else that happens to the replica.                            *)

\* The process ends wherever it is, and with it every live action.
Crash ==
    /\ state # "down"
    /\ Fault
    /\ state' = "down"
    /\ wait' = None
    /\ queue' = <<>>
    /\ turn' = None
    /\ UNCHANGED <<vault, records, minted, spent, expired, history>>

\* An open records the acceptance it finds owed, and calls nothing.
Open ==
    /\ state = "down"
    /\ state' = "open"
    /\ \/ /\ owed # None /\ ~Submitted(vault) /\ Prepared(vault) # {}
          /\ Committed(owed)
          /\ UNCHANGED misread
       \/ FindsNoneOwed /\ UNCHANGED <<vault, owed, faults>>
    /\ UNCHANGED <<selected, wait, minted, spent, queue, turn, expired, calls, carried, accepted, kept>>

\* importVault: an event another replica wrote, resting on what its vault
\* held.  A submission or a failure another replica wrote names its author.
Import ==
    /\ state # "down"
    /\ \E r \in Others :
        \/ vault = {} /\ Commit(<<"out">>)
        \/ /\ <<"out">> \in vault
           /\ \/ Commit(<<"prepared", r>>)
              \/ \E p \in Prepared(vault) : Commit(<<"submitted", p, r>>)
              \/ \E c \in Codes : (c = "expired" => expired) /\ Commit(<<"failed", c, r>>)
    /\ UNCHANGED <<records, dispatcher, queue, turn, expired, faults, history>>

Expire ==
    /\ expired' = TRUE
    /\ UNCHANGED <<vault, records, dispatcher, queue, turn, faults, history>>

Init ==
    /\ vault = {}
    /\ selected = None /\ owed = None
    /\ state = "open" /\ wait = None /\ minted = 0 /\ spent = {}
    /\ queue = <<>> /\ turn = None
    /\ expired = FALSE /\ faults = 0
    /\ calls = 0 /\ carried = {} /\ accepted = {} /\ kept = {} /\ misread = FALSE

Job ==
    \/ RecordOwed \/ Ready \/ Recheck \/ Call \/ CallNot
    \/ Accepted \/ RecordAccepted \/ NotAccepted
    \/ CancelStep \/ SelectStep \/ Throws

Next ==
    \/ Job \/ Send \/ Retry \/ Timer \/ Cancel \/ Select
    \/ Close \/ Crash \/ Open \/ Import \/ Expire

Spec == Init /\ [][Next]_vars

----------------------------------------------------------------------------
TypeOK ==
    /\ vault \subseteq Events
    /\ selected \in Preparations \cup {None}
    /\ owed \in Preparations \cup {None}
    /\ state \in {"open", "closed", "down"}
    /\ wait \in {None} \cup [action : Actions, attempts : 1..Attempts, armed : BOOLEAN]
    /\ minted \in 0..MaxActions
    /\ spent \subseteq Actions
    /\ queue \in Seq(Jobs)
    /\ turn \in {None} \cup
            [action : Actions, prep : Preparations, pc : {"recheck", "call", "answer", "commit"}]
    /\ expired \in BOOLEAN
    /\ faults \in 0..MaxFaults
    /\ calls \in Nat
    /\ carried \subseteq Preparations
    /\ accepted \subseteq Preparations
    /\ kept \subseteq Preparations
    /\ misread \in BOOLEAN

\* action.ts: "nothing repeats the call on its own".  However attempts are
\* retried, timed out, crashed and reopened, the runtime has called its
\* transport at most as often as it was told to, by the send or by hand.
CallsAuthorised == calls <= minted

\* acceptance.ts: while an acceptance is owed, nothing else is done with
\* the message: no call is made and no failure is recorded in its place.
\* (Unless a read of the record has failed, which finds none.)
OwedFirst ==
    [][owed # None /\ ~misread' =>
            /\ calls' = calls
            /\ \A c \in Codes : <<"failed", c, Here>> \in vault' => <<"failed", c, Here>> \in vault]_vars

\* An acceptance the runtime saw and kept is never lost: whatever throws or
\* crashes after, it stays owed until the vault records it.
KeptIsRecorded ==
    \A p \in kept : SubmissionsOf(vault, p) # {} \/ owed = p \/ misread

\* A submission recorded here is true: the wire accepted that preparation's
\* envelope from this runtime.
SubmissionsTrue ==
    \A p \in Preparations : <<"submitted", p, Here>> \in vault => p \in accepted

\* dispatch.ts: "a call in flight is either recorded first or finds the
\* message terminated".  Once the runtime ended the message itself, by an
\* expiry, a cancellation or a submission, it makes no further call.
NoCallAfterOwnEnd ==
    [][calls' > calls =>
            /\ \A c \in Codes : <<"failed", c, Here>> \notin vault
            /\ \A p \in Preparations : <<"submitted", p, Here>> \notin vault]_vars

\* prepare.ts: a runtime's calls carry the one preparation it selected until
\* the user chooses another, however many an import brings and whichever
\* local record fails to be read or written.
CarriesOne == Cardinality(carried) <= 1
----------------------------------------------------------------------------
(* What the proofs need beside: the parts of an inductive invariant.       *)

\* A timer is set only while the policy has an attempt left.
ArmedHasMore == wait # None /\ wait.armed => wait.attempts < Attempts

\* Every action in play was minted.
ActionsMinted ==
    /\ spent \subseteq 1..minted
    /\ wait # None => wait.action \in 1..minted
    /\ turn # None => turn.action \in 1..minted
    /\ \A i \in 1..Len(queue) : queue[i].kind = "dispatch" => queue[i].action \in 1..minted

\* A process that is down does nothing.
DownIsIdle == state = "down" => turn = None /\ queue = <<>> /\ wait = None

\* What is owed, or about to be recorded, was accepted.
OwedTrue ==
    /\ owed # None => owed \in accepted
    /\ turn # None /\ turn.pc = "commit" => turn.prep \in accepted

\* A turn goes on only while nothing but its own answer is owed.
TurnUnowed ==
    turn # None => misread \/ owed = None \/ (turn.pc = "commit" /\ owed = turn.prep)

OwnEnd(V) ==
    \/ \E c \in Codes : <<"failed", c, Here>> \in V
    \/ \E p \in Preparations : <<"submitted", p, Here>> \in V

\* The last look before the call found the message open, and none of this
\* runtime's steps closes it before the call.
OpenAtCall == turn # None /\ turn.pc = "call" => ~OwnEnd(vault)

\* What is selected is prepared, a turn carries it, and so did the calls.
CarriesSelected ==
    /\ selected # None => selected \in Prepared(vault)
    /\ turn # None => turn.prep = selected
    /\ carried \subseteq {selected} \ {None}
=============================================================================
