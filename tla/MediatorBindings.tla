-------------------------- MODULE MediatorBindings --------------------------
(***************************************************************************)
(* Who is bound to what at one mediator: the tables accounts and keylist   *)
(* of ordinary mediation (coordinate-mediation/3.0), and the tables        *)
(* replica_accounts, replicas and replica_recipients of replica            *)
(* mediation.  One action per request handler; the handler's store write   *)
(* is one SQL transaction, so it is atomic.  A request that is refused     *)
(* changes nothing and is a stuttering step.                               *)
(*                                                                         *)
(* Ordinary mediation keeps a DID as its holder wrote it, so a did:peer:4  *)
(* may sit there in its long or in its short spelling; replica mediation   *)
(* keeps the short one.  A did is therefore the identity, a name one       *)
(* spelling of it.                                                         *)
(*                                                                         *)
(* MediatorMail, MediatorExecutions, MediatorListing and MediatorBlobs     *)
(* extend this module with the tables that hang off these.                 *)
(***************************************************************************)
EXTENDS Integers, FiniteSets

CONSTANTS
    Peers,            \* the DIDs clients can prove, each a did:peer:4
    Mediators,        \* the mediator's own DIDs
    OrdinaryPeers,    \* the DIDs ordinary mediation is asked for or about
    Forms,            \* the spellings requests use, of "short" and "long"
    None,             \* an absent row
    MaxActive,        \* config.maxActiveReplicas
    MaxRecipients,    \* config.maxSharedRecipients
    OpenRegistration, \* config.openRegistration
    MaxPending        \* bound: keylist updates between their check and their write

ASSUME PeersAssumption ==
    /\ IsFiniteSet(Peers)
    /\ IsFiniteSet(Mediators)
    /\ Peers \cap Mediators = {}
    /\ None \notin Peers \cup Mediators
    /\ OrdinaryPeers \subseteq Peers
    /\ Forms \subseteq {"short", "long"}

ASSUME LimitsAssumption ==
    /\ MaxActive \in Nat \ {0}
    /\ MaxRecipients \in Nat \ {0}
    /\ MaxPending \in Nat
    /\ OpenRegistration \in BOOLEAN

Dids == Peers \cup Mediators

Names == Dids \X {"short", "long"}

Did(n) == n[1]

(* The names ordinary requests carry. *)
Asked == (OrdinaryPeers \cup Mediators) \X Forms

(* The rows of table replicas: a replica keeps its place in the roster of  *)
(* its account, and once removed stays bound.                              *)
Enrolments == [account : Dids, ordinal : Nat, state : {"active", "removed"}]

ASSUME NoneAssumption == None \notin Names /\ None \notin Enrolments

VARIABLES
    accounts,         \* table accounts: the names granted ordinary mediation
    keylist,          \* table keylist: a recipient name to its owner's name
    pending,          \* keylist additions checked and not yet written
    replicaAccounts,  \* table replica_accounts: an account to its mediator DID
    replicas,         \* table replicas: a replica to its enrolment
    recipients        \* table replica_recipients: a recipient to its account

ordinaryVars == <<accounts, keylist, pending>>

replicaVars == <<replicaAccounts, replicas, recipients>>

bindingVars == <<accounts, keylist, pending, replicaAccounts, replicas, recipients>>

BindingsTypeOK ==
    /\ accounts \in SUBSET Names
    /\ keylist \in [Names -> Names \cup {None}]
    /\ pending \in SUBSET (Names \X Names)
    /\ replicaAccounts \in [Dids -> Mediators \cup {None}]
    /\ replicas \in [Dids -> Enrolments \cup {None}]
    /\ recipients \in [Dids -> Dids \cup {None}]

BindingsInit ==
    /\ accounts = {}
    /\ keylist = [n \in Names |-> None]
    /\ pending = {}
    /\ replicaAccounts = [d \in Dids |-> None]
    /\ replicas = [d \in Dids |-> None]
    /\ recipients = [d \in Dids |-> None]

-----------------------------------------------------------------------------
(* What the inserts test, inside the write that binds. *)

NotOrdinary(d) ==
    \A n \in Names : Did(n) = d => n \notin accounts /\ keylist[n] = None

NotSharedRecipient(d) == recipients[d] = None

NotReplicaMediation(d) ==
    replicaAccounts[d] = None /\ replicas[d] = None /\ NotSharedRecipient(d)

IsMediatorOwnDid(d) == d \in Mediators

BoundTo(a, m) == replicaAccounts[a] = m

Enrolled(a) == {d \in Dids : replicas[d] # None /\ replicas[d].account = a}

IsActive(d) == replicas[d] # None /\ replicas[d].state = "active"

ActiveOf(a) == {d \in Enrolled(a) : IsActive(d)}

SharedBy(a) == {d \in Dids : recipients[d] = a}

-----------------------------------------------------------------------------
(* The store's writes, each one transaction.                               *)

(* With a bug: does not look at replica mediation. *)
GrantUnchecked(n) ==
    /\ accounts' = accounts \cup {n}
    /\ UNCHANGED <<keylist, pending, replicaVars>>

GrantMediation(n) ==
    /\ NotReplicaMediation(Did(n))
    /\ accounts' = accounts \cup {n}
    /\ UNCHANGED <<keylist, pending, replicaVars>>

(* The account's keylist goes with it, by ON DELETE CASCADE. *)
RevokeMediation(n) ==
    /\ n \in accounts
    /\ accounts' = accounts \ {n}
    /\ keylist' = [r \in Names |-> IF keylist[r] = n THEN None ELSE keylist[r]]
    /\ UNCHANGED <<pending, replicaVars>>

(* What the insert leaves in the keylist.  Of an owner revoked since it    *)
(* was asked for, the foreign key keeps nothing.                           *)
AddRecipient(o, r) ==
    IF o \in accounts /\ NotReplicaMediation(Did(r)) /\ keylist[r] = None
      THEN [keylist EXCEPT ![r] = o]
      ELSE keylist

RemoveRecipient(o, r) ==
    /\ keylist[r] = o
    /\ keylist' = [keylist EXCEPT ![r] = None]
    /\ UNCHANGED <<accounts, pending, replicaVars>>

RegisterReplicaAccount(a, m) ==
    /\ OpenRegistration
    /\ NotOrdinary(a)
    /\ NotReplicaMediation(a)
    /\ replicaAccounts' = [replicaAccounts EXCEPT ![a] = m]
    /\ UNCHANGED <<ordinaryVars, replicas, recipients>>

(* The account and everything that hangs off it. *)
DeleteReplicaAccount(a, m) ==
    /\ BoundTo(a, m)
    /\ replicas' = [d \in Dids |-> IF d \in Enrolled(a) THEN None ELSE replicas[d]]
    /\ recipients' = [d \in Dids |-> IF recipients[d] = a THEN None ELSE recipients[d]]
    /\ replicaAccounts' = [replicaAccounts EXCEPT ![a] = None]
    /\ UNCHANGED ordinaryVars

(* With a bug: an account's removed replica may come back. *)
AddReplicaAgain(a, m, d) ==
    /\ BoundTo(a, m)
    /\ NotOrdinary(d)
    /\ NotReplicaMediation(d) \/ d \in Enrolled(a) \ ActiveOf(a)
    /\ Cardinality(ActiveOf(a)) < MaxActive
    /\ replicas' = [replicas EXCEPT ![d] =
                      [account |-> a, ordinal |-> Cardinality(Enrolled(a)) + 1, state |-> "active"]]
    /\ UNCHANGED <<ordinaryVars, replicaAccounts, recipients>>

(* The place of a new replica counts every replica the account ever        *)
(* enrolled, the removed ones too; the limit counts the active ones.       *)
AddReplica(a, m, d) ==
    /\ BoundTo(a, m)
    /\ NotOrdinary(d)
    /\ NotReplicaMediation(d)
    /\ Cardinality(ActiveOf(a)) < MaxActive
    /\ replicas' = [replicas EXCEPT ![d] =
                      [account |-> a, ordinal |-> Cardinality(Enrolled(a)) + 1, state |-> "active"]]
    /\ UNCHANGED <<ordinaryVars, replicaAccounts, recipients>>

RemoveReplica(a, m, d) ==
    /\ BoundTo(a, m)
    /\ d \in ActiveOf(a)
    /\ replicas' = [replicas EXCEPT ![d].state = "removed"]
    /\ UNCHANGED <<ordinaryVars, replicaAccounts, recipients>>

AddSharedRecipient(a, m, d) ==
    /\ BoundTo(a, m)
    /\ NotOrdinary(d)
    /\ NotReplicaMediation(d)
    /\ Cardinality(SharedBy(a)) < MaxRecipients
    /\ recipients' = [recipients EXCEPT ![d] = a]
    /\ UNCHANGED <<ordinaryVars, replicaAccounts, replicas>>

RemoveSharedRecipient(a, m, d) ==
    /\ BoundTo(a, m)
    /\ recipients[d] = a
    /\ recipients' = [recipients EXCEPT ![d] = None]
    /\ UNCHANGED <<ordinaryVars, replicaAccounts, replicas>>

-----------------------------------------------------------------------------
(* The handlers.  A sender has proved its DID, which is never one of the   *)
(* mediator's own; a DID a request names is tested for that.               *)

MediateRequest(n) ==
    /\ Did(n) \in Peers
    /\ OpenRegistration \/ n \in accounts
    /\ GrantMediation(n)

(* recipient-update, action add: what addDenialReason reads ... *)
RecipientUpdateCheck(o, r) ==
    /\ o \in accounts
    /\ ~IsMediatorOwnDid(Did(r))
    /\ r = o \/ r \notin accounts
    /\ Cardinality(pending) < MaxPending
    /\ pending' = pending \cup {<<o, r>>}
    /\ UNCHANGED <<accounts, keylist, replicaVars>>

(* ... and, in a later transaction, the write. *)
RecipientUpdateAdd(o, r) ==
    /\ <<o, r>> \in pending
    /\ pending' = pending \ {<<o, r>>}
    /\ keylist' = AddRecipient(o, r)
    /\ UNCHANGED <<accounts, replicaVars>>

RecipientUpdateRemove(o, r) == o \in accounts /\ RemoveRecipient(o, r)

AccountRegister(a, m) == a \in Peers /\ RegisterReplicaAccount(a, m)

AccountDelete(a, m) == DeleteReplicaAccount(a, m)

ReplicaAdd(a, m, d) == ~IsMediatorOwnDid(d) /\ AddReplica(a, m, d)

ReplicaRemove(a, m, d) == RemoveReplica(a, m, d)

RecipientAdd(a, m, d) == ~IsMediatorOwnDid(d) /\ AddSharedRecipient(a, m, d)

RecipientRemove(a, m, d) == RemoveSharedRecipient(a, m, d)

-----------------------------------------------------------------------------
OrdinaryNext ==
    \/ \E n \in Asked : MediateRequest(n) \/ RevokeMediation(n)
    \/ \E o, r \in Asked :
          RecipientUpdateCheck(o, r) \/ RecipientUpdateAdd(o, r) \/ RecipientUpdateRemove(o, r)

ReplicaNext ==
    \E a \in Dids, m \in Mediators :
        \/ AccountRegister(a, m)
        \/ AccountDelete(a, m)
        \/ \E d \in Dids :
              \/ ReplicaAdd(a, m, d)
              \/ ReplicaRemove(a, m, d)
              \/ RecipientAdd(a, m, d)
              \/ RecipientRemove(a, m, d)

BindingsNext == OrdinaryNext \/ ReplicaNext

BindingsSpec == BindingsInit /\ [][BindingsNext]_bindingVars

-----------------------------------------------------------------------------
(* Properties. *)

(* A DID is bound under one protocol only and in one role only, whichever  *)
(* spelling each binding used: an ordinary account or keylist entry, a     *)
(* replica-mediation account, a replica (removed ones too), or a shared    *)
(* recipient (the tests inside each insert of sql-store.ts).               *)
BoundOnce ==
    \A d \in Dids :
        /\ NotOrdinary(d) \/ NotReplicaMediation(d)
        /\ replicaAccounts[d] = None \/ replicas[d] = None
        /\ replicaAccounts[d] = None \/ recipients[d] = None
        /\ replicas[d] = None \/ recipients[d] = None

(* Nothing dangles: an enrolment and a shared recipient name an account    *)
(* that exists, a keylist entry an owner that is mediated; so deletion and *)
(* revocation take everything with them.                                   *)
NothingDangles ==
    /\ \A d \in Dids : replicas[d] # None => replicaAccounts[replicas[d].account] # None
    /\ \A d \in Dids : recipients[d] # None => replicaAccounts[recipients[d]] # None
    /\ \A n \in Names : keylist[n] # None => keylist[n] \in accounts

(* The roster of an account numbers its replicas 1..n with no gap and no   *)
(* double, which is what a listing's cursor counts on and what the UNIQUE  *)
(* constraint on (account_did, ordinal) silently relies on: an insert that *)
(* met it would be dropped by ON CONFLICT DO NOTHING and reported as a     *)
(* conflict.                                                               *)
RosterContiguous ==
    \A a \in Dids :
        {replicas[d].ordinal : d \in Enrolled(a)} = 1 .. Cardinality(Enrolled(a))

(* The limits of an account hold whatever was removed and added again.     *)
WithinLimits ==
    \A a \in Dids :
        /\ Cardinality(ActiveOf(a)) <= MaxActive
        /\ Cardinality(SharedBy(a)) <= MaxRecipients

(* The mediator's own DIDs, which route to nobody's inbox, are bound in no *)
(* table.                                                                  *)
OwnDidsUnbound == \A d \in Mediators : NotOrdinary(d) /\ NotReplicaMediation(d)

(* No step hands a binding over: a recipient bound to one owner or account *)
(* is bound to it until it is unbound, an account keeps the mediator it    *)
(* registered with, and a replica its account and its place.               *)
NoTakeover ==
    [][ /\ \A n \in Names : keylist[n] # None => keylist'[n] \in {keylist[n], None}
        /\ \A d \in Dids : recipients[d] # None => recipients'[d] \in {recipients[d], None}
        /\ \A d \in Dids :
              replicaAccounts[d] # None => replicaAccounts'[d] \in {replicaAccounts[d], None}
        /\ \A d \in Dids :
              replicas[d] # None /\ replicas'[d] # None =>
                  /\ replicas'[d].account = replicas[d].account
                  /\ replicas'[d].ordinal = replicas[d].ordinal ]_bindingVars

(* A removed replica stays bound and removed for as long as its account is *)
(* registered: it is never active again and is never free to be bound      *)
(* anew, as long as no deletion takes the whole account.                   *)
RemovalIsFinal ==
    [][ \A d \in Dids :
          replicas[d] # None /\ replicas[d].state = "removed"
            => replicas'[d] = replicas[d] \/ replicaAccounts'[replicas[d].account] = None
      ]_bindingVars

=============================================================================
