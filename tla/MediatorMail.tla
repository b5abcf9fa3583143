---------------------------- MODULE MediatorMail ----------------------------
(***************************************************************************)
(* The mail a mediator holds, over the bindings of MediatorBindings: the   *)
(* table messages of ordinary accounts, and the tables replica_packages    *)
(* and replica_deliveries.  A forwarded envelope for a shared recipient is *)
(* one package and one delivery for every replica active at that moment;   *)
(* each replica acknowledges its own, and the package goes with the last.  *)
(*                                                                         *)
(* The forward handler routes in one read and writes in a later            *)
(* transaction, so bindings may change in between.  Every write that ends  *)
(* a binding ends its mail in the same transaction.                        *)
(***************************************************************************)
EXTENDS MediatorClock, Functions

CONSTANTS
    Ttl,              \* store option messageTtlSeconds
    MaxMessages,      \* store option maxMessagesPerAccount
    MaxRetainedBytes, \* config.maxRetainedBytes
    Sizes,            \* the sizes envelopes come in
    Deadlines,        \* the expires_time a forward may carry; None when it gives none
    MaxForwards,      \* bound: forwards between their routing and their write
    MaxId             \* bound: how many envelopes are ever stored

ASSUME MailAssumption ==
    /\ Ttl \in Nat \ {0}
    /\ MaxMessages \in Nat
    /\ MaxRetainedBytes \in Nat \ {0}
    /\ Sizes \subseteq Nat
    /\ Deadlines \subseteq Nat \cup {None}
    /\ MaxForwards \in Nat
    /\ MaxId \in Nat
    /\ None \notin Nat

VARIABLES
    nextId,     \* the random ids handed out so far, counted
    forwards,   \* forwards routed and not yet stored
    messages,   \* table messages
    packages,   \* table replica_packages
    deliveries  \* table replica_deliveries

mailVars == <<now, nextId, forwards, messages, packages, deliveries>>

allMailVars == <<bindingVars, mailVars>>

Messages == [id : Nat, owner : Names, expires : Nat]

Packages == [id : Nat, account : Dids, next : Dids, bytes : Nat, expires : Nat]

Deliveries == [package : Nat, replica : Dids]

Forwards == [next : Names, owner : Names \cup {None}]

MailTypeOK ==
    /\ BindingsTypeOK
    /\ now \in Nat
    /\ nextId \in Nat
    /\ forwards \in SUBSET Forwards
    /\ messages \in SUBSET Messages
    /\ packages \in SUBSET Packages
    /\ deliveries \in SUBSET Deliveries

MailInit ==
    /\ BindingsInit
    /\ now = 0
    /\ nextId = 0
    /\ forwards = {}
    /\ messages = {}
    /\ packages = {}
    /\ deliveries = {}

-----------------------------------------------------------------------------
(* Routing: a local account wins over any keylist binding. *)

OwnerFor(n) == IF n \in accounts THEN n ELSE keylist[n]

ForwardRoute(n) ==
    /\ Cardinality(forwards) < MaxForwards
    /\ forwards' = forwards \cup {[next |-> n, owner |-> OwnerFor(n)]}
    /\ UNCHANGED <<bindingVars, now, nextId, messages, packages, deliveries>>

Waiting(o) == {m \in messages : m.owner = o /\ m.expires > now}

InboxRoom(o) == Cardinality(Waiting(o)) < MaxMessages

(* A stored envelope's id, random and so never met before. *)
FreshId == nextId

(* An ordinary owner's mail.  Past the quota, or for an account revoked    *)
(* since it was routed, nothing is stored and the forward is refused.      *)
StoreMessage(f) ==
    /\ f.owner # None
    /\ IF f.owner \in accounts /\ InboxRoom(f.owner)
         THEN /\ nextId < MaxId
              /\ messages' = messages \cup
                    {[id |-> FreshId, owner |-> f.owner, expires |-> now + Ttl]}
              /\ nextId' = nextId + 1
         ELSE UNCHANGED <<messages, nextId>>
    /\ forwards' = forwards \ {f}
    /\ UNCHANGED <<bindingVars, now, packages, deliveries>>

(* The account a package for d is counted against: of the shared           *)
(* recipient, or of the active replica the forward names itself.           *)
AccountsFor(d) ==
    {a \in Dids : recipients[d] = a \/ (IsActive(d) /\ replicas[d].account = a)}

(* With a bug: the removed replicas too. *)
TargetsRemovedToo(d) ==
    {r \in Dids : replicas[r] # None /\ (r = d \/ replicas[r].account = recipients[d])}

Targets(d) ==
    {r \in Dids : IsActive(r) /\ (r = d \/ replicas[r].account = recipients[d])}

Retained(a) == {p \in packages : p.account = a /\ p.expires > now}

RetainedBytes(a) == SumFunctionOnSet([p \in Retained(a) |-> p.bytes], Retained(a))

HasRoom(a, bytes) ==
    Cardinality(Retained(a)) < MaxMessages /\ RetainedBytes(a) + bytes <= MaxRetainedBytes

Earlier(x, y) == IF y # None /\ y < x THEN y ELSE x

(* The fan-out: one package and its deliveries, or a refusal (unknown      *)
(* recipient, lapsed deadline, full account) that writes nothing.  A       *)
(* package accepted while no replica is active has no delivery and waits   *)
(* out its retention.                                                      *)
FanOut(f, bytes, deadline) ==
    LET d == Did(f.next)
        expires == Earlier(now + Ttl, deadline)
        counted == {a \in AccountsFor(d) : HasRoom(a, bytes)}
    IN  /\ f.owner = None
        /\ IF expires > now /\ counted # {}
              THEN /\ nextId < MaxId
                   /\ packages' = packages \cup
                         {[id |-> FreshId, account |-> a, next |-> d, bytes |-> bytes,
                           expires |-> expires] : a \in counted}
                   /\ deliveries' = deliveries \cup
                         {[package |-> FreshId, replica |-> r] : r \in Targets(d)}
                   /\ nextId' = nextId + 1
              ELSE UNCHANGED <<packages, deliveries, nextId>>
        /\ forwards' = forwards \ {f}
        /\ UNCHANGED <<bindingVars, now, messages>>

-----------------------------------------------------------------------------
(* Pickup: messages-received. *)

(* What is left of packages and deliveries when the deliveries in ending   *)
(* end: a package goes with its last delivery, and one that never had a    *)
(* delivery stays.                                                         *)
DeliveriesOf(p) == {x \in deliveries : x.package = p.id}

EndDeliveries(ending) ==
    /\ packages' = {p \in packages : DeliveriesOf(p) \cap ending = {}
                                       \/ ~(DeliveriesOf(p) \subseteq ending)}
    /\ deliveries' = deliveries \ ending

(* The ids a replica names may be anyone's; only its own deliveries end. *)
AcknowledgeDeliveries(r, named) ==
    /\ IsActive(r)
    /\ EndDeliveries({x \in named : x.replica = r})
    /\ UNCHANGED <<bindingVars, now, nextId, forwards, messages>>

DeleteMessages(o, named) ==
    /\ o \in accounts
    /\ messages' = {m \in messages : m \notin named \/ m.owner # o}
    /\ UNCHANGED <<bindingVars, now, nextId, forwards, packages, deliveries>>

PurgeExpired ==
    LET expired == {p \in packages : p.expires <= now}
    IN  /\ messages' = {m \in messages : m.expires > now}
        /\ packages' = packages \ expired
        /\ deliveries' = {x \in deliveries : \A p \in expired : x.package # p.id}
        /\ UNCHANGED <<bindingVars, now, nextId, forwards>>

MailTick ==
    /\ now < MaxTime
    /\ now' = now + 1
    /\ UNCHANGED <<bindingVars, nextId, forwards, messages, packages, deliveries>>

-----------------------------------------------------------------------------
(* The writes that end a binding, with the mail they end. *)

RevokeMediationAndMail(n) ==
    /\ RevokeMediation(n)
    /\ messages' = {m \in messages : m.owner # n}
    /\ UNCHANGED <<now, nextId, forwards, packages, deliveries>>

(* With a bug: leaves the replica's deliveries. *)
RemoveReplicaKeepingMail(a, m, d) == ReplicaRemove(a, m, d) /\ UNCHANGED mailVars

RemoveReplicaAndMail(a, m, d) ==
    /\ ReplicaRemove(a, m, d)
    /\ EndDeliveries({x \in deliveries : x.replica = d})
    /\ UNCHANGED <<now, nextId, forwards, messages>>

DeleteAccountAndMail(a, m) ==
    /\ AccountDelete(a, m)
    /\ packages' = {p \in packages : p.account # a}
    /\ deliveries' = {x \in deliveries :
                         /\ x.replica \notin Enrolled(a)
                         /\ \A p \in packages : p.account = a => x.package # p.id}
    /\ UNCHANGED <<now, nextId, forwards, messages>>

(* The requests that only bind. *)
BindOnly ==
    /\ \/ \E n \in Asked : MediateRequest(n)
       \/ \E o, r \in Asked :
             RecipientUpdateCheck(o, r) \/ RecipientUpdateAdd(o, r) \/ RecipientUpdateRemove(o, r)
       \/ \E a \in Dids, m \in Mediators :
             \/ AccountRegister(a, m)
             \/ \E d \in Dids :
                   ReplicaAdd(a, m, d) \/ RecipientAdd(a, m, d) \/ RecipientRemove(a, m, d)
    /\ UNCHANGED mailVars

-----------------------------------------------------------------------------
MailNext ==
    \/ BindOnly
    \/ \E n \in Asked : RevokeMediationAndMail(n)
    \/ \E a \in Dids, m \in Mediators :
          \/ DeleteAccountAndMail(a, m)
          \/ \E d \in Dids : RemoveReplicaAndMail(a, m, d)
    \/ \E n \in Dids \X Forms : ForwardRoute(n)
    \/ \E f \in forwards :
          StoreMessage(f) \/ \E b \in Sizes, t \in Deadlines : FanOut(f, b, t)
    \/ \E r \in Dids, named \in SUBSET deliveries : AcknowledgeDeliveries(r, named)
    \/ \E o \in Names, named \in SUBSET messages : DeleteMessages(o, named)
    \/ PurgeExpired
    \/ MailTick

MailSpec == MailInit /\ [][MailNext]_allMailVars

-----------------------------------------------------------------------------
(* Properties. *)

(* Mail belongs to someone: a message to a mediated account, a package to  *)
(* a registered account, a delivery to a package that is held and to a     *)
(* replica that is active in that package's account.  A replica removed    *)
(* between a fan-out and its pickup, and an account deleted or revoked in  *)
(* between, leave nothing behind.                                          *)
MailBelongs ==
    /\ \A m \in messages : m.owner \in accounts
    /\ \A p \in packages : replicaAccounts[p.account] # None
    /\ \A x \in deliveries : \E p \in packages :
          /\ x.package = p.id
          /\ IsActive(x.replica)
          /\ replicas[x.replica].account = p.account

(* The quotas hold at every moment, however many forwards were routed      *)
(* before any was stored.                                                  *)
MailWithinQuota ==
    /\ \A o \in Names : Cardinality(Waiting(o)) <= MaxMessages
    /\ \A a \in Dids : /\ Cardinality(Retained(a)) <= MaxMessages
                        /\ RetainedBytes(a) <= MaxRetainedBytes

(* Every target of a message is of the party the message is for, and the   *)
(* quota of a party holds by count and by bytes, although forwards are     *)
(* routed in one read and stored in a later transaction.                   *)
MailSound == MailBelongs /\ MailWithinQuota

(* A replica enrolled after a forward was stored is no target of it, and   *)
(* one active then is: deliveries are only ever created with their         *)
(* package, for exactly the replicas active in its account when it was     *)
(* for a shared recipient.                                                 *)
TargetsAtAcceptance ==
    [][ /\ \A x \in deliveries' \ deliveries : \A p \in packages : p.id # x.package
        /\ \A p \in packages' \ packages :
              recipients[p.next] # None =>
                {x.replica : x \in {y \in deliveries' : y.package = p.id}} = ActiveOf(p.account)
      ]_allMailVars

=============================================================================
