--------------------------- MODULE MediatorListing ---------------------------
(***************************************************************************)
(* Paging through the roster (replica-list) and the recipients             *)
(* (recipient-list) of a replica-mediation account while others add,       *)
(* remove, delete and register again.  The mediator keeps no listing: what *)
(* the next page needs is in the cursor the client hands back.  A roster   *)
(* cursor counts places; a recipient cursor names the last one returned by *)
(* its time and its DID.  Both carry the registration of the account, a    *)
(* random id each registration gets anew.                                  *)
(***************************************************************************)
EXTENDS MediatorBindings, SequencesExt

CONSTANTS
    Holders,        \* the DIDs that register as accounts; DIDs are ordered, as texts are
    MaxPage,        \* config.maxMembershipPage
    MaxTime,        \* bound: the clock
    MaxRegistration \* bound: how many registrations of accounts there ever are

VARIABLES
    now,              \* the clock recipients are timed by
    nextRegistration, \* the random registration ids handed out, counted
    registration,     \* column registration of replica_accounts
    addedAt,          \* column created_at of replica_recipients
    listing           \* a client's listing: its cursor and what it was given

columnVars == <<now, nextRegistration, registration, addedAt>>

vars == <<bindingVars, columnVars, listing>>

Idle == [kind |-> "none", done |-> FALSE, given |-> <<>>]

TypeOK ==
    /\ BindingsTypeOK
    /\ now \in Nat
    /\ nextRegistration \in Nat
    /\ registration \in [Dids -> Nat]
    /\ addedAt \in [Dids -> Nat]
    /\ listing.given \in Seq(Dids)

Init ==
    /\ BindingsInit
    /\ now = 0
    /\ nextRegistration = 1
    /\ registration = [d \in Dids |-> 0]
    /\ addedAt = [d \in Dids |-> 0]
    /\ listing = Idle

(* A client goes through one listing at a time. *)
Listing(kind) == listing.kind = kind /\ ~listing.done

Free == listing = Idle \/ listing.done

-----------------------------------------------------------------------------
(* replica-list *)

(* The replicas of account a at places after+1 .. through, limit at most,  *)
(* in the order of their places.                                           *)
ReplicaRoster(a, after, through, limit) ==
    LET placed == SetToSortSeq({d \in Enrolled(a) : /\ replicas[d].ordinal > after
                                                   /\ replicas[d].ordinal <= through},
                               LAMBDA x, y : replicas[x].ordinal < replicas[y].ordinal)
    IN  SubSeq(placed, 1, Min({limit, Len(placed)}))

LastPlace(page, through) == IF page = <<>> THEN through ELSE replicas[Last(page)].ordinal

(* With a bug: tells no registration of the account from another. *)
CursorOfAny(l) == BoundTo(l.account, l.mediator) /\ l.through <= Cardinality(Enrolled(l.account))

(* Whether a roster cursor still holds. *)
CursorHolds(l) ==
    /\ BoundTo(l.account, l.mediator)
    /\ registration[l.account] = l.registration
    /\ l.through <= Cardinality(Enrolled(l.account))

RosterStart(a, m, limit) ==
    LET through == Cardinality(Enrolled(a))
        page == ReplicaRoster(a, 0, through, limit)
    IN  /\ Free
        /\ BoundTo(a, m)
        /\ listing' = [kind |-> "replicas", account |-> a, mediator |-> m,
                      registration |-> registration[a],
                      through |-> through, after |-> LastPlace(page, through),
                      given |-> page, owed |-> Enrolled(a),
                      done |-> LastPlace(page, through) >= through]
        /\ UNCHANGED <<bindingVars, columnVars>>

(* A cursor of another registration is refused, and the listing with it. *)
RosterNext(limit) ==
    LET a == listing.account
        page == ReplicaRoster(a, listing.after, listing.through, limit)
    IN  /\ Listing("replicas")
        /\ IF CursorHolds(listing)
             THEN listing' = [listing EXCEPT
                               !.after = LastPlace(page, listing.through),
                               !.given = @ \o page,
                               !.done = LastPlace(page, listing.through) >= listing.through]
             ELSE listing' = Idle
        /\ UNCHANGED <<bindingVars, columnVars>>

-----------------------------------------------------------------------------
(* recipient-list *)

PlacedBefore(x, y) == addedAt[x] < addedAt[y] \/ (addedAt[x] = addedAt[y] /\ x < y)

Beyond(d, time, did) == addedAt[d] > time \/ (addedAt[d] = time /\ d > did)

(* What the query finds: the first limit of the recipients of account a    *)
(* beyond a place, and whether there are more.                             *)
ListSharedRecipients(a, time, did, limit) ==
    LET beyond == SetToSortSeq({d \in SharedBy(a) : Beyond(d, time, did)}, PlacedBefore)
    IN  [page |-> SubSeq(beyond, 1, Min({limit, Len(beyond)})), more |-> Len(beyond) > limit]

BookStart(a, m, limit) ==
    LET found == ListSharedRecipients(a, -1, -1, limit)
    IN  /\ Free
        /\ BoundTo(a, m)
        /\ listing' = [kind |-> "recipients", account |-> a, mediator |-> m,
                    registration |-> registration[a],
                    time |-> IF found.more THEN addedAt[Last(found.page)] ELSE 0,
                    did |-> IF found.more THEN Last(found.page) ELSE 0,
                    given |-> found.page, owed |-> SharedBy(a), done |-> ~found.more]
        /\ UNCHANGED <<bindingVars, columnVars>>

BookNext(limit) ==
    LET a == listing.account
        found == ListSharedRecipients(a, listing.time, listing.did, limit)
    IN  /\ Listing("recipients")
        /\ IF BoundTo(a, listing.mediator) /\ registration[a] = listing.registration
             THEN listing' = [listing EXCEPT
                             !.time = IF found.more THEN addedAt[Last(found.page)] ELSE @,
                             !.did = IF found.more THEN Last(found.page) ELSE @,
                             !.given = @ \o found.page,
                             !.done = ~found.more]
             ELSE listing' = Idle
        /\ UNCHANGED <<bindingVars, columnVars>>

-----------------------------------------------------------------------------
(* The writes of others, with the columns a listing reads.  A recipient    *)
(* removed in between is no longer owed to the listing under way.          *)

Register(a, m) ==
    /\ AccountRegister(a, m)
    /\ nextRegistration <= MaxRegistration
    /\ registration' = [registration EXCEPT ![a] = nextRegistration]
    /\ nextRegistration' = nextRegistration + 1
    /\ UNCHANGED <<now, addedAt, listing>>

NoLongerOwed(ds) ==
    listing' = IF Listing("recipients") THEN [listing EXCEPT !.owed = @ \ ds] ELSE listing

Delete(a, m) ==
    /\ AccountDelete(a, m)
    /\ registration' = [registration EXCEPT ![a] = 0]
    /\ addedAt' = [d \in Dids |-> IF d \in SharedBy(a) THEN 0 ELSE addedAt[d]]
    /\ NoLongerOwed(SharedBy(a))
    /\ UNCHANGED <<now, nextRegistration>>

AddToBook(a, m, d) ==
    /\ RecipientAdd(a, m, d)
    /\ addedAt' = [addedAt EXCEPT ![d] = now]
    /\ UNCHANGED <<now, nextRegistration, registration, listing>>

RemoveFromBook(a, m, d) ==
    /\ RecipientRemove(a, m, d)
    /\ addedAt' = [addedAt EXCEPT ![d] = 0]
    /\ NoLongerOwed({d})
    /\ UNCHANGED <<now, nextRegistration, registration>>

Enrol(a, m, d) ==
    /\ ReplicaAdd(a, m, d) \/ ReplicaRemove(a, m, d)
    /\ UNCHANGED <<columnVars, listing>>

Tick ==
    /\ now < MaxTime
    /\ now' = now + 1
    /\ UNCHANGED <<bindingVars, nextRegistration, registration, addedAt, listing>>

Next ==
    \/ \E a \in Holders, m \in Mediators :
          \/ Register(a, m)
          \/ Delete(a, m)
          \/ \E d \in Dids : Enrol(a, m, d) \/ AddToBook(a, m, d) \/ RemoveFromBook(a, m, d)
          \/ \E limit \in 1 .. MaxPage : RosterStart(a, m, limit) \/ BookStart(a, m, limit)
    \/ \E limit \in 1 .. MaxPage : RosterNext(limit) \/ BookNext(limit)
    \/ Tick

Spec == Init /\ [][Next]_vars

-----------------------------------------------------------------------------
(* Properties. *)

(* A listing of replicas gives none twice, and at its end gave just those  *)
(* enrolled when it began.  A listing of recipients that comes to its end  *)
(* gave each that the account held from its first page to its last exactly *)
(* once, whatever was added, removed, deleted or registered again between; *)
(* of one that came or went meanwhile nothing is said                      *)
(* (README: "A listing gives every recipient the account holds from its    *)
(* first page to its last exactly once").                                  *)
ListedExactlyOnce ==
    /\ listing.kind = "replicas" =>
          /\ IsInjective(listing.given)
          /\ listing.done => ToSet(listing.given) = listing.owed
    /\ listing.kind = "recipients" /\ listing.done =>
          \A d \in listing.owed :
              Cardinality({i \in DOMAIN listing.given : listing.given[i] = d}) = 1

=============================================================================
