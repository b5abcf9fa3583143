----------------------------- MODULE Enrollment -----------------------------
(***************************************************************************)
(* The runtimes of one vault enrolling at their mediators, having          *)
(* addresses held there and disclosing them.  Each runtime keeps a copy of *)
(* the vault's events and, beside the vault, what a mediator confirmed to  *)
(* it; procedures of one runtime in one arrangement take turns             *)
(* (serially), those in two arrangements interleave, and what a procedure  *)
(* records it decides under the writer lock from the events standing then  *)
(* (decide).  A request in flight is part of the procedure that waits for  *)
(* its answer; one that was given up may still reach the mediator.         *)
(*                                                                         *)
(* All runtimes hold the same seed, so creations of one arrangement agree, *)
(* and its account at the mediator is one for them all.  The mediator's    *)
(* side keeps of MediatorBindings what these requests can tell apart; the  *)
(* agent never asks it to remove anything.                                 *)
(***************************************************************************)
EXTENDS Integers, FiniteSets

CONSTANTS
    Runtimes,       \* the files of the vault, each with its options beside it
    Replicas,       \* the replica IDs there are for them to take
    FirstId,        \* the replica ID each runtime begins with
    Mediations,     \* the arrangements, one for each mediator
    Addresses,      \* the IDs of DID entities, all of them entries
    Route,          \* the arrangement an address is minted for
    Sought,         \* bound: the arrangements a runtime enrolls in
    Retiring,       \* bound: the runtimes that retire an address
    Failing,        \* bound: the runtimes that meet a fault
    Nothing,
    MaxFaults       \* bound: requests refused or given up, crashes, identity resets

ASSUME EnrollmentAssumption ==
    /\ FirstId \in [Runtimes -> Replicas]
    /\ \A r, q \in Runtimes : FirstId[r] = FirstId[q] => r = q
    /\ Nothing \notin Mediations
    /\ Route \in [Addresses -> Mediations]
    /\ Sought \in [Runtimes -> SUBSET Mediations]
    /\ Retiring \subseteq Runtimes
    /\ Failing \subseteq Runtimes
    /\ MaxFaults \in Nat

VARIABLES
    vault,      \* the events a runtime's vault holds
    author,     \* the replica ID a runtime writes under
    kept,       \* the confirmations in a runtime's local options
    proc,       \* the procedure having the turn of a runtime in an arrangement
    registered, \* the mediators where the account is registered
    roster,     \* the replicas active in the account at a mediator
    held,       \* the addresses the account holds at a mediator
    late,       \* requests given up that may still arrive
    faults,     \* counts the faults
    retired     \* the replica IDs no runtime has any more

vaultVars == <<vault, author, kept>>

mediatorVars == <<registered, roster, held>>

faultVars == <<late, faults, retired>>

enrollmentVars == <<vault, author, kept, proc, registered, roster, held, late, faults, retired>>

(* The events. *)
Created(m) == [type |-> "mediation.created", mediation |-> m]
Granted(m) == [type |-> "mediation.granted", mediation |-> m]
ReplicaCreated(p, m) == [type |-> "replica.created", replica |-> p, mediation |-> m]
DidCreated(d) == [type |-> "did.created", address |-> d]
DidRetired(d) == [type |-> "did.retired", address |-> d]
Disclosed(p, d) == [type |-> "did.disclosed", by |-> p, address |-> d]

Events ==
    {Created(m) : m \in Mediations}
    \cup {Granted(m) : m \in Mediations}
    \cup {ReplicaCreated(p, m) : p \in Replicas, m \in Mediations}
    \cup {DidCreated(d) : d \in Addresses}
    \cup {DidRetired(d) : d \in Addresses}
    \cup {Disclosed(p, d) : p \in Replicas, d \in Addresses}

(* A request carries what it is about: nothing, the replica whose grant it *)
(* is, or the address whose proof it is.                                   *)
Asks(kind, m, about) == [kind |-> kind, mediation |-> m, about |-> about]

EnrollRequests ==
    [kind : {"account-register"}, mediation : Mediations, about : {Nothing}]
    \cup [kind : {"replica-add"}, mediation : Mediations, about : Replicas]
    \cup [kind : {"recipient-add"}, mediation : Mediations, about : Addresses]

Idle == [does |-> Nothing, asked |-> Nothing, answer |-> Nothing, todo |-> {}, refused |-> {},
         address |-> Nothing]

Proc(does) == [Idle EXCEPT !.does = does]

Procs ==
    [does : {Nothing, "registers", "joins", "shares", "discloses"},
     asked : EnrollRequests \cup {Nothing}, answer : {Nothing, "yes", "no"},
     todo : SUBSET Addresses, refused : SUBSET Addresses, address : Addresses \cup {Nothing}]

ASSUME NothingApart ==
    Nothing \notin {"registers", "joins", "shares", "discloses", "yes", "no"} \cup EnrollRequests

ReplicaAddedKey(m, p) == <<"replica-added", m, p>>

RecipientAddedKey(m, d) == <<"recipient-added", m, d>>

EnrollmentTypeOK ==
    /\ vault \in [Runtimes -> SUBSET Events]
    /\ author \in [Runtimes -> Replicas]
    /\ kept \in [Runtimes -> SUBSET ({"replica-added"} \X Mediations \X Replicas
                                   \cup {"recipient-added"} \X Mediations \X Addresses)]
    /\ proc \in [Runtimes -> [Mediations -> Procs]]
    /\ registered \subseteq Mediations
    /\ roster \in [Mediations -> SUBSET Replicas]
    /\ held \in [Mediations -> SUBSET Addresses]
    /\ late \subseteq EnrollRequests
    /\ faults \in 0 .. MaxFaults
    /\ retired \subseteq Replicas

EnrollmentInit ==
    /\ vault = [r \in Runtimes |-> {}]
    /\ author = FirstId
    /\ kept = [r \in Runtimes |-> {}]
    /\ proc = [r \in Runtimes |-> [m \in Mediations |-> Idle]]
    /\ registered = {}
    /\ roster = [m \in Mediations |-> {}]
    /\ held = [m \in Mediations |-> {}]
    /\ late = {}
    /\ faults = 0
    /\ retired = {}

-----------------------------------------------------------------------------
(* What the folds read out of a set of events v. *)

IsCreated(v, m) == Created(m) \in v

(* Its creation and its grant are here; the seed confirms its keys. *)
Usable(v, m) == IsCreated(v, m) /\ Granted(m) \in v

GrantedIn(v, p) == {m \in Mediations : ReplicaCreated(p, m) \in v}

ReplicaStatus(v, p) ==
    IF GrantedIn(v, p) = {} THEN "none"
    ELSE IF Cardinality(GrantedIn(v, p)) > 1 THEN "conflict"
    ELSE IF \A m \in GrantedIn(v, p) : IsCreated(v, m) THEN "member"
    ELSE "pending"

MemberOf(v, p, m) == ReplicaStatus(v, p) = "member" /\ m \in GrantedIn(v, p)

(* An address of an arrangement waits for it to be usable. *)
RoutedNow(v, d) == Usable(v, Route[d])

(* Its keys may still receive: retirement does not end that. *)
Eligible(v, d) == DidCreated(d) \in v /\ RoutedNow(v, d)

LiveDid(v, d) == Eligible(v, d) /\ DidRetired(d) \notin v

SharedAddresses(v, m) == {d \in Addresses : Route[d] = m /\ Eligible(v, d)}

-----------------------------------------------------------------------------
(* The vault's own operations. *)

Record(r, e) == vault' = [vault EXCEPT ![r] = @ \cup {e}]

(* Every replica derives the same creation from the mediator's DID. *)
CreateMediation(r, m) ==
    /\ m \in Sought[r]
    /\ ~IsCreated(vault[r], m)
    /\ Record(r, Created(m))
    /\ UNCHANGED <<author, kept, proc, mediatorVars, faultVars>>

(* The ID is drawn anew, so no other runtime mints the same. *)
CreateDid(r, d) ==
    /\ \A q \in Runtimes : DidCreated(d) \notin vault[q]
    /\ Usable(vault[r], Route[d])
    /\ Record(r, DidCreated(d))
    /\ UNCHANGED <<author, kept, proc, mediatorVars, faultVars>>

RetireDid(r, d) ==
    /\ r \in Retiring
    /\ DidCreated(d) \in vault[r]
    /\ DidRetired(d) \notin vault[r]
    /\ Record(r, DidRetired(d))
    /\ UNCHANGED <<author, kept, proc, mediatorVars, faultVars>>

Import(r, q) ==
    /\ ~(vault[q] \subseteq vault[r])
    /\ vault' = [vault EXCEPT ![r] = @ \cup vault[q]]
    /\ UNCHANGED <<author, kept, proc, mediatorVars, faultVars>>

-----------------------------------------------------------------------------
(* Enrolling. *)

(* With a bug: takes a grant recorded for a replica added. *)
MayJoinOnce(v, p, m) == ReplicaStatus(v, p) = "none"

(* A replica takes part in one arrangement for good. *)
MayJoin(v, p, m) == ReplicaStatus(v, p) = "none" \/ MemberOf(v, p, m)

Goes(r, m, p) == proc' = [proc EXCEPT ![r][m] = p]

ReplicaAdded(r, m) == ReplicaAddedKey(m, author[r]) \in kept[r]

Turn(r, m) == proc[r][m].does = Nothing

(* An enrollment with nothing left to do changes nothing and is left out.  *)
Enroll(r, m) ==
    /\ m \in Sought[r]
    /\ Turn(r, m)
    /\ IsCreated(vault[r], m)
    /\ MayJoin(vault[r], author[r], m)
    /\ ~(/\ Granted(m) \in vault[r]
         /\ MemberOf(vault[r], author[r], m)
         /\ ReplicaAdded(r, m))
    /\ Goes(r, m, IF Granted(m) \in vault[r]
                  THEN Proc("joins")
                  ELSE [Proc("registers") EXCEPT !.asked = Asks("account-register", m, Nothing)])
    /\ UNCHANGED <<vaultVars, mediatorVars, faultVars>>

(* The account is there: the arrangement's grant, once. *)
AccountRegistered(r, m) ==
    /\ proc[r][m].does = "registers"
    /\ proc[r][m].answer = "yes"
    /\ Record(r, Granted(m))
    /\ Goes(r, m, Proc("joins"))
    /\ UNCHANGED <<author, kept, mediatorVars, faultVars>>

(* With a bug: relies on what was read before the account was asked for. *)
CreateReplicaAsRead(r, m) ==
    /\ proc[r][m].does = "joins"
    /\ proc[r][m].asked = Nothing
    /\ Record(r, ReplicaCreated(author[r], m))
    /\ Goes(r, m, IF ReplicaAdded(r, m)
                  THEN Idle
                  ELSE [Proc("joins") EXCEPT !.asked = Asks("replica-add", m, author[r])])
    /\ UNCHANGED <<author, kept, mediatorVars, faultVars>>

(* The grant is decided from the events standing now; an enrollment in     *)
(* another arrangement may have taken the replica ID meanwhile.            *)
CreateReplica(r, m) ==
    /\ proc[r][m].does = "joins"
    /\ proc[r][m].asked = Nothing
    /\ IF MayJoin(vault[r], author[r], m)
       THEN /\ Record(r, ReplicaCreated(author[r], m))
            /\ Goes(r, m, IF ReplicaAdded(r, m)
                          THEN Idle
                          ELSE [Proc("joins") EXCEPT !.asked = Asks("replica-add", m, author[r])])
       ELSE Goes(r, m, Idle) /\ UNCHANGED vault
    /\ UNCHANGED <<author, kept, mediatorVars, faultVars>>

ReplicaConfirmed(r, m) ==
    /\ proc[r][m].does = "joins"
    /\ proc[r][m].answer = "yes"
    /\ kept' = [kept EXCEPT ![r] = @ \cup {ReplicaAddedKey(m, author[r])}]
    /\ Goes(r, m, Idle)
    /\ UNCHANGED <<vault, author, mediatorVars, faultVars>>

(* The enrollment throws. *)
EnrollRefused(r, m) ==
    /\ proc[r][m].does \in {"registers", "joins"}
    /\ proc[r][m].answer = "no"
    /\ Goes(r, m, Idle)
    /\ UNCHANGED <<vaultVars, mediatorVars, faultVars>>

-----------------------------------------------------------------------------
(* Having the addresses held. *)

(* Nothing is added before this runtime's own replica is confirmed. *)
MayShare(r, m) ==
    /\ Usable(vault[r], m)
    /\ MemberOf(vault[r], author[r], m)
    /\ ReplicaAdded(r, m)

Unconfirmed(r, m) ==
    {d \in SharedAddresses(vault[r], m) : RecipientAddedKey(m, d) \notin kept[r]}

(* Asks for one of the addresses left, whichever comes first by its text.  *)
AskNext(r, m, p) ==
    IF p.todo = {}
    THEN Goes(r, m, p)
    ELSE \E d \in p.todo : Goes(r, m, [p EXCEPT !.asked = Asks("recipient-add", m, d)])

AddRecipients(r, m) ==
    /\ Turn(r, m)
    /\ MayShare(r, m)
    /\ Unconfirmed(r, m) # {}
    /\ AskNext(r, m, [Proc("shares") EXCEPT !.todo = Unconfirmed(r, m)])
    /\ UNCHANGED <<vaultVars, mediatorVars, faultVars>>

(* One refused stops none of the others. *)
RecipientAnswered(r, m) ==
    LET p == proc[r][m]
        left == [p EXCEPT !.todo = @ \ {p.asked.about}, !.asked = Nothing, !.answer = Nothing,
                          !.refused = IF p.answer = "yes" THEN @ ELSE @ \cup {p.asked.about}]
    IN
    /\ p.does \in {"shares", "discloses"}
    /\ p.answer # Nothing
    /\ kept' = IF p.answer = "yes"
               THEN [kept EXCEPT ![r] = @ \cup {RecipientAddedKey(m, p.asked.about)}]
               ELSE kept
    /\ AskNext(r, m, IF p.does = "shares" /\ left.todo = {} THEN Idle ELSE left)
    /\ UNCHANGED <<vault, author, mediatorVars, faultVars>>

-----------------------------------------------------------------------------
(* Disclosing. *)

Disclose(r, d) ==
    LET m == Route[d] IN
    /\ Turn(r, m)
    /\ LiveDid(vault[r], d)
    /\ Disclosed(author[r], d) \notin vault[r]
    /\ MayShare(r, m)
    /\ AskNext(r, m, [Proc("discloses") EXCEPT !.todo = Unconfirmed(r, m), !.address = d])
    /\ UNCHANGED <<vaultVars, mediatorVars, faultVars>>

(* With a bug: takes every address asked for as held. *)
HoldsAsked(p) == p.does = "discloses"

Holds(p) == p.address \notin p.refused

DiscloseNow(r, m) ==
    LET p == proc[r][m] IN
    /\ p.does = "discloses"
    /\ p.asked = Nothing
    /\ p.todo = {}
    /\ IF Holds(p) /\ LiveDid(vault[r], p.address)
       THEN Record(r, Disclosed(author[r], p.address))
       ELSE UNCHANGED vault
    /\ Goes(r, m, Idle)
    /\ UNCHANGED <<author, kept, mediatorVars, faultVars>>

-----------------------------------------------------------------------------
(* The mediator.  A repeat is answered as the first was. *)

Known(q) ==
    \/ q.kind = "replica-add" /\ q.about \in roster[q.mediation]
    \/ q.kind = "recipient-add" /\ q.about \in held[q.mediation]
    \/ q.kind = "account-register" /\ q.mediation \in registered

(* account-register, replica-add and recipient-add *)
RegistersAccount(m) == registered' = registered \cup {m} /\ UNCHANGED <<roster, held>>

AddsReplica(m, p) ==
    /\ m \in registered
    /\ roster' = [roster EXCEPT ![m] = @ \cup {p}]
    /\ UNCHANGED <<registered, held>>

AddsRecipient(m, d) ==
    /\ m \in registered
    /\ held' = [held EXCEPT ![m] = @ \cup {d}]
    /\ UNCHANGED <<registered, roster>>

Serves(q) ==
    CASE q.kind = "account-register" -> RegistersAccount(q.mediation)
      [] q.kind = "replica-add"      -> AddsReplica(q.mediation, q.about)
      [] q.kind = "recipient-add"    -> AddsRecipient(q.mediation, q.about)

Waits(r, m) == proc[r][m].asked # Nothing /\ proc[r][m].answer = Nothing

ServeWaiting(r, m) ==
    /\ Waits(r, m)
    /\ Serves(proc[r][m].asked)
    /\ Goes(r, m, [proc[r][m] EXCEPT !.answer = "yes"])
    /\ UNCHANGED <<vaultVars, faultVars>>

ServeLate(q) ==
    /\ q \in late
    /\ Serves(q)
    /\ late' = late \ {q}
    /\ UNCHANGED <<vaultVars, proc, faults, retired>>

-----------------------------------------------------------------------------
(* Faults. *)

Fault(r) == r \in Failing /\ faults < MaxFaults /\ faults' = faults + 1

InFlight(r, ms) == {proc[r][m].asked : m \in {n \in ms : Waits(r, n)}}

(* Quotas and bindings of others may refuse what is not in effect yet.     *)
Refuse(r, m) ==
    /\ Fault(r)
    /\ Waits(r, m)
    /\ ~Known(proc[r][m].asked)
    /\ Goes(r, m, [proc[r][m] EXCEPT !.answer = "no"])
    /\ UNCHANGED <<vaultVars, mediatorVars, late, retired>>

(* No answer comes in time or the link closes: the procedure throws. *)
GiveUp(r, m) ==
    /\ Fault(r)
    /\ proc[r][m].asked # Nothing
    /\ late' = late \cup InFlight(r, {m})
    /\ Goes(r, m, Idle)
    /\ UNCHANGED <<vaultVars, mediatorVars, retired>>

Ended(r) ==
    /\ late' = late \cup InFlight(r, Mediations)
    /\ proc' = [proc EXCEPT ![r] = [m \in Mediations |-> Idle]]

RuntimeCrash(r) ==
    /\ Fault(r)
    /\ \E m \in Mediations : ~Turn(r, m)
    /\ Ended(r)
    /\ UNCHANGED <<vaultVars, mediatorVars, retired>>

(* The runtime is closed and opened again under a new replica ID; its      *)
(* local options stay.                                                     *)
ResetIdentity(r) ==
    /\ Fault(r)
    /\ kept[r] # {}
    /\ Ended(r)
    /\ \E p \in Replicas \ retired :
          /\ \A q \in Runtimes : author[q] # p
          /\ author' = [author EXCEPT ![r] = p]
    /\ retired' = retired \cup {author[r]}
    /\ UNCHANGED <<vault, kept, mediatorVars>>

-----------------------------------------------------------------------------
Proceeds(r, m) ==
    \/ Enroll(r, m)
    \/ AccountRegistered(r, m)
    \/ CreateReplica(r, m)
    \/ ReplicaConfirmed(r, m)
    \/ EnrollRefused(r, m)
    \/ AddRecipients(r, m)
    \/ RecipientAnswered(r, m)
    \/ DiscloseNow(r, m)
    \/ ServeWaiting(r, m)

Operates(r) ==
    \/ \E m \in Mediations : CreateMediation(r, m)
    \/ \E d \in Addresses : CreateDid(r, d)
    \/ \E d \in Addresses : RetireDid(r, d)
    \/ \E q \in Runtimes : Import(r, q)
    \/ \E d \in Addresses : Disclose(r, d)

Fails(r) ==
    \/ \E m \in Mediations : Refuse(r, m) \/ GiveUp(r, m)
    \/ RuntimeCrash(r)
    \/ ResetIdentity(r)

EnrollmentNext ==
    \/ \E r \in Runtimes : Operates(r) \/ Fails(r)
    \/ \E r \in Runtimes, m \in Mediations : Proceeds(r, m)
    \/ \E q \in late : ServeLate(q)

EnrollmentSpec == EnrollmentInit /\ [][EnrollmentNext]_enrollmentVars

-----------------------------------------------------------------------------
(* A replica ID is granted in one arrangement only, in every copy of the   *)
(* vault, though enrollments in two arrangements run at once and each      *)
(* waits for its mediator between the check and the grant.                 *)
OneArrangement ==
    \A r \in Runtimes, p \in Replicas : Cardinality(GrantedIn(vault[r], p)) <= 1

(* What is disclosed is held at its mediator for the account, and a        *)
(* replica is there to be handed its mail: whatever was lost, refused,     *)
(* retired or reset while the address was being added.                     *)
DisclosedIsHeld ==
    \A r \in Runtimes : \A e \in vault[r] :
        e.type = "did.disclosed" =>
            /\ e.address \in held[Route[e.address]]
            /\ roster[Route[e.address]] # {}

(* No runtime asks for an address before the mediator holds the replica it *)
(* is: what reaches the address from then on reaches this runtime.         *)
ReaderFirst ==
    \A r \in Runtimes, m \in Mediations :
        (Waits(r, m) /\ proc[r][m].asked.kind = "recipient-add") => author[r] \in roster[m]

(* An address is disclosed only while its mediator holds it and someone is *)
(* there to be handed its mail, and none is asked for before this runtime  *)
(* is someone.                                                             *)
DisclosedSafely == DisclosedIsHeld /\ ReaderFirst

(* No loss, refusal, crash or reset leaves an enrollment half done: a      *)
(* runtime whose grant is recorded is in the account, knows it and has its *)
(* addresses held there, or its next run of either procedure goes on.      *)
NeverHalfDone ==
    \A r \in Runtimes : \A m \in Sought[r] :
        (MemberOf(vault[r], author[r], m) /\ Turn(r, m)) =>
            \/ /\ author[r] \in roster[m]
               /\ SharedAddresses(vault[r], m) \subseteq held[m]
            \/ ENABLED Enroll(r, m)
            \/ ENABLED AddRecipients(r, m)
=============================================================================
