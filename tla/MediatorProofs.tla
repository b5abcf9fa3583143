--------------------------- MODULE MediatorProofs ---------------------------
(***************************************************************************)
(* Proofs about the mediator's tables: MediatorBindings, and over the      *)
(* bindings MediatorMail, MediatorBlobs, and ExecutionAnswer with          *)
(* MediatorExecutions, which share the bindings and the clock; and about   *)
(* the runtimes that enroll there, Enrollment.  Each part proves its       *)
(* component's own specification.                                          *)
(***************************************************************************)
EXTENDS MediatorMail, MediatorBlobs, ExecutionAnswer, Enrollment, FiniteSums

-----------------------------------------------------------------------------
(***************************************************************************)
(* The binding tables, for every set of DIDs and every limit.  Each part   *)
(* of what makes the tables correct is inductive once their types are      *)
(* known; only that the mediator's own DIDs stay unbound needs a           *)
(* strengthening, PendingForeign, of the keylist additions that were       *)
(* checked in one transaction and are written in another.                  *)
(***************************************************************************)

(* There are finitely many DIDs, so the tables can be counted. *)
LEMMA DidsFinite == IsFiniteSet(Dids)
BY PeersAssumption, FS_Union DEF Dids

(* The number of replicas an account ever enrolled is a number, whatever   *)
(* the tables hold; it is what a new replica's place is counted from.      *)
LEMMA EnrolledCounted ==
    ASSUME NEW a
    PROVE  IsFiniteSet(Enrolled(a)) /\ Cardinality(Enrolled(a)) \in Nat
<1>1. Enrolled(a) \subseteq Dids
  BY DEF Enrolled
<1> QED
  BY <1>1, DidsFinite, FS_Subset, FS_CardinalityType

(* The request's names are names of DIDs. *)
LEMMA AskedAreNames == Asked \subseteq Names
BY PeersAssumption DEF Asked, Names, Dids

(* Type correctness of the tables is preserved by every request.           *)
LEMMA TypeStep == BindingsTypeOK /\ [BindingsNext]_bindingVars => BindingsTypeOK'
<1> SUFFICES ASSUME BindingsTypeOK, [BindingsNext]_bindingVars
             PROVE  BindingsTypeOK'
  OBVIOUS
<1> USE DEF BindingsTypeOK, ordinaryVars, replicaVars
<1>1. ASSUME NEW n \in Asked, MediateRequest(n)
      PROVE  BindingsTypeOK'
  BY <1>1, AskedAreNames DEF MediateRequest, GrantMediation
<1>2. ASSUME NEW n \in Asked, RevokeMediation(n)
      PROVE  BindingsTypeOK'
  BY <1>2 DEF RevokeMediation
<1>3. ASSUME NEW o \in Asked, NEW r \in Asked, RecipientUpdateCheck(o, r)
      PROVE  BindingsTypeOK'
  BY <1>3, AskedAreNames DEF RecipientUpdateCheck
<1>4. ASSUME NEW o \in Asked, NEW r \in Asked, RecipientUpdateAdd(o, r)
      PROVE  BindingsTypeOK'
  BY <1>4, AskedAreNames DEF RecipientUpdateAdd, AddRecipient
<1>5. ASSUME NEW o \in Asked, NEW r \in Asked, RecipientUpdateRemove(o, r)
      PROVE  BindingsTypeOK'
  BY <1>5 DEF RecipientUpdateRemove, RemoveRecipient
<1>6. ASSUME NEW a \in Dids, NEW m \in Mediators, AccountRegister(a, m)
      PROVE  BindingsTypeOK'
  BY <1>6 DEF AccountRegister, RegisterReplicaAccount
<1>7. ASSUME NEW a \in Dids, NEW m \in Mediators, AccountDelete(a, m)
      PROVE  BindingsTypeOK'
  BY <1>7 DEF AccountDelete, DeleteReplicaAccount
<1>8. ASSUME NEW a \in Dids, NEW m \in Mediators, NEW d \in Dids, ReplicaAdd(a, m, d)
      PROVE  BindingsTypeOK'
  <2>1. Cardinality(Enrolled(a)) + 1 \in Nat
    BY EnrolledCounted
  <2>2. [account |-> a, ordinal |-> Cardinality(Enrolled(a)) + 1, state |-> "active"] \in Enrolments
    BY <2>1 DEF Enrolments
  <2> QED
    BY <1>8, <2>2 DEF ReplicaAdd, AddReplica
<1>9. ASSUME NEW a \in Dids, NEW m \in Mediators, NEW d \in Dids, ReplicaRemove(a, m, d)
      PROVE  BindingsTypeOK'
  <2>1. replicas[d] \in Enrolments
    BY <1>9 DEF ReplicaRemove, RemoveReplica, ActiveOf, Enrolled
  <2>2. [replicas[d] EXCEPT !.state = "removed"] \in Enrolments
    BY <2>1 DEF Enrolments
  <2> QED
    BY <1>9, <2>2 DEF ReplicaRemove, RemoveReplica
<1>10. ASSUME NEW a \in Dids, NEW m \in Mediators, NEW d \in Dids, RecipientAdd(a, m, d)
      PROVE  BindingsTypeOK'
  BY <1>10 DEF RecipientAdd, AddSharedRecipient
<1>11. ASSUME NEW a \in Dids, NEW m \in Mediators, NEW d \in Dids, RecipientRemove(a, m, d)
      PROVE  BindingsTypeOK'
  BY <1>11 DEF RecipientRemove, RemoveSharedRecipient
<1>12. CASE UNCHANGED bindingVars
  BY <1>12 DEF bindingVars
<1> QED
  BY <1>1, <1>2, <1>3, <1>4, <1>5, <1>6, <1>7, <1>8, <1>9, <1>10, <1>11, <1>12
  DEF BindingsNext, OrdinaryNext, ReplicaNext

(* The tables keep their types, in every behaviour. *)
THEOREM BindingsTypeCorrect == BindingsSpec => []BindingsTypeOK
<1>1. BindingsInit => BindingsTypeOK
  BY DEF BindingsInit, BindingsTypeOK
<1> QED
  BY <1>1, TypeStep, PTL DEF BindingsSpec

-----------------------------------------------------------------------------
(* Every insert tests the other tables in the write that binds, and every  *)
(* other request only takes bindings out, so a DID stays bound once.       *)
LEMMA BoundStep ==
    BindingsTypeOK /\ BoundOnce /\ [BindingsNext]_bindingVars => BoundOnce'
<1> SUFFICES ASSUME BindingsTypeOK, BoundOnce, [BindingsNext]_bindingVars
             PROVE  BoundOnce'
  OBVIOUS
<1> USE DEF BindingsTypeOK, ordinaryVars, replicaVars, BoundOnce, NotOrdinary,
            NotReplicaMediation, NotSharedRecipient
<1>1. ASSUME NEW n \in Asked, MediateRequest(n)
      PROVE  BoundOnce'
  BY <1>1, AskedAreNames DEF MediateRequest, GrantMediation
<1>2. ASSUME NEW n \in Asked, RevokeMediation(n)
      PROVE  BoundOnce'
  BY <1>2 DEF RevokeMediation
<1>3. ASSUME NEW o \in Asked, NEW r \in Asked, RecipientUpdateCheck(o, r)
      PROVE  BoundOnce'
  BY <1>3 DEF RecipientUpdateCheck
<1>4. ASSUME NEW o \in Asked, NEW r \in Asked, RecipientUpdateAdd(o, r)
      PROVE  BoundOnce'
  BY <1>4, AskedAreNames DEF RecipientUpdateAdd, AddRecipient
<1>5. ASSUME NEW o \in Asked, NEW r \in Asked, RecipientUpdateRemove(o, r)
      PROVE  BoundOnce'
  BY <1>5 DEF RecipientUpdateRemove, RemoveRecipient
<1>6. ASSUME NEW a \in Dids, NEW m \in Mediators, AccountRegister(a, m)
      PROVE  BoundOnce'
  BY <1>6 DEF AccountRegister, RegisterReplicaAccount
<1>7. ASSUME NEW a \in Dids, NEW m \in Mediators, AccountDelete(a, m)
      PROVE  BoundOnce'
  BY <1>7 DEF AccountDelete, DeleteReplicaAccount
<1>8. ASSUME NEW a \in Dids, NEW m \in Mediators, NEW d \in Dids, ReplicaAdd(a, m, d)
      PROVE  BoundOnce'
  BY <1>8 DEF ReplicaAdd, AddReplica
<1>9. ASSUME NEW a \in Dids, NEW m \in Mediators, NEW d \in Dids, ReplicaRemove(a, m, d)
      PROVE  BoundOnce'
  <2>1. replicas[d] # None
    BY <1>9 DEF ReplicaRemove, RemoveReplica, ActiveOf, Enrolled
  <2>2. \A c \in Dids : c # d => replicas'[c] = replicas[c]
    BY <1>9 DEF ReplicaRemove, RemoveReplica
  <2> QED
    BY <1>9, <2>1, <2>2 DEF ReplicaRemove, RemoveReplica
<1>10. ASSUME NEW a \in Dids, NEW m \in Mediators, NEW d \in Dids, RecipientAdd(a, m, d)
      PROVE  BoundOnce'
  BY <1>10 DEF RecipientAdd, AddSharedRecipient
<1>11. ASSUME NEW a \in Dids, NEW m \in Mediators, NEW d \in Dids, RecipientRemove(a, m, d)
      PROVE  BoundOnce'
  BY <1>11 DEF RecipientRemove, RemoveSharedRecipient
<1>12. CASE UNCHANGED bindingVars
  BY <1>12 DEF bindingVars
<1> QED
  BY <1>1, <1>2, <1>3, <1>4, <1>5, <1>6, <1>7, <1>8, <1>9, <1>10, <1>11, <1>12
  DEF BindingsNext, OrdinaryNext, ReplicaNext

(* The exclusivity of bindings: whatever requests of both protocols        *)
(* interleave, a DID is bound once and under one protocol only.            *)
THEOREM BindingsExclusive == BindingsSpec => []BoundOnce
<1>1. BindingsInit => BoundOnce
  BY DEF BindingsInit, BoundOnce, NotOrdinary, NotReplicaMediation, NotSharedRecipient
<1> QED
  BY <1>1, BindingsTypeCorrect, BoundStep, PTL DEF BindingsSpec

-----------------------------------------------------------------------------
(* Nothing dangles after any request: deletion and revocation take what    *)
(* refers to the row they delete with it, and nothing refers to a row that *)
(* is not there.                                                           *)
LEMMA DanglesStep ==
    BindingsTypeOK /\ NothingDangles /\ [BindingsNext]_bindingVars => NothingDangles'
<1> SUFFICES ASSUME BindingsTypeOK, NothingDangles, [BindingsNext]_bindingVars
             PROVE  NothingDangles'
  OBVIOUS
<1> USE PeersAssumption DEF BindingsTypeOK, ordinaryVars, replicaVars, NothingDangles
<1>1. ASSUME NEW n \in Asked, MediateRequest(n)
      PROVE  NothingDangles'
  BY <1>1 DEF MediateRequest, GrantMediation
<1>2. ASSUME NEW n \in Asked, RevokeMediation(n)
      PROVE  NothingDangles'
  BY <1>2 DEF RevokeMediation
<1>3. ASSUME NEW o \in Asked, NEW r \in Asked, RecipientUpdateCheck(o, r)
      PROVE  NothingDangles'
  BY <1>3 DEF RecipientUpdateCheck
<1>4. ASSUME NEW o \in Asked, NEW r \in Asked, RecipientUpdateAdd(o, r)
      PROVE  NothingDangles'
  BY <1>4, AskedAreNames DEF RecipientUpdateAdd, AddRecipient
<1>5. ASSUME NEW o \in Asked, NEW r \in Asked, RecipientUpdateRemove(o, r)
      PROVE  NothingDangles'
  BY <1>5 DEF RecipientUpdateRemove, RemoveRecipient
<1>6. ASSUME NEW a \in Dids, NEW m \in Mediators, AccountRegister(a, m)
      PROVE  NothingDangles'
  <2>1. m # None
    BY PeersAssumption
  <2>2. \A d \in Dids : replicaAccounts[d] # None => replicaAccounts'[d] # None
    BY <1>6, <2>1 DEF AccountRegister, RegisterReplicaAccount
  <2>3. \A d \in Dids : replicas[d] # None => replicas[d].account \in Dids
    BY DEF Enrolments
  <2> QED
    BY <1>6, <2>2, <2>3 DEF AccountRegister, RegisterReplicaAccount
<1>7. ASSUME NEW a \in Dids, NEW m \in Mediators, AccountDelete(a, m)
      PROVE  NothingDangles'
  <2>1. \A d \in Dids : replicas[d] # None => replicas[d].account \in Dids
    BY DEF Enrolments
  <2>2. \A d \in Dids : replicas'[d] # None => replicas[d] # None /\ replicas'[d] = replicas[d]
                                               /\ replicas[d].account # a
    BY <1>7 DEF AccountDelete, DeleteReplicaAccount, Enrolled
  <2>3. \A d \in Dids : recipients'[d] # None => recipients'[d] = recipients[d] /\ recipients[d] # a
    BY <1>7 DEF AccountDelete, DeleteReplicaAccount
  <2>4. \A d \in Dids : d # a => replicaAccounts'[d] = replicaAccounts[d]
    BY <1>7 DEF AccountDelete, DeleteReplicaAccount
  <2> QED
    BY <1>7, <2>1, <2>2, <2>3, <2>4 DEF AccountDelete, DeleteReplicaAccount
<1>8. ASSUME NEW a \in Dids, NEW m \in Mediators, NEW d \in Dids, ReplicaAdd(a, m, d)
      PROVE  NothingDangles'
  <2>1. replicaAccounts[a] # None
    BY <1>8, PeersAssumption DEF ReplicaAdd, AddReplica, BoundTo
  <2>2. replicas'[d].account = a /\ \A c \in Dids : c # d => replicas'[c] = replicas[c]
    BY <1>8 DEF ReplicaAdd, AddReplica
  <2> QED
    BY <1>8, <2>1, <2>2 DEF ReplicaAdd, AddReplica
<1>9. ASSUME NEW a \in Dids, NEW m \in Mediators, NEW d \in Dids, ReplicaRemove(a, m, d)
      PROVE  NothingDangles'
  <2>1. replicas[d] # None /\ replicas[d] \in Enrolments
    BY <1>9 DEF ReplicaRemove, RemoveReplica, ActiveOf, Enrolled
  <2>2. replicas'[d].account = replicas[d].account
    BY <1>9, <2>1 DEF ReplicaRemove, RemoveReplica, Enrolments
  <2>3. \A c \in Dids : c # d => replicas'[c] = replicas[c]
    BY <1>9 DEF ReplicaRemove, RemoveReplica
  <2> QED
    BY <1>9, <2>1, <2>2, <2>3 DEF ReplicaRemove, RemoveReplica
<1>10. ASSUME NEW a \in Dids, NEW m \in Mediators, NEW d \in Dids, RecipientAdd(a, m, d)
      PROVE  NothingDangles'
  BY <1>10, PeersAssumption DEF RecipientAdd, AddSharedRecipient, BoundTo
<1>11. ASSUME NEW a \in Dids, NEW m \in Mediators, NEW d \in Dids, RecipientRemove(a, m, d)
      PROVE  NothingDangles'
  BY <1>11 DEF RecipientRemove, RemoveSharedRecipient
<1>12. CASE UNCHANGED bindingVars
  BY <1>12 DEF bindingVars
<1> QED
  BY <1>1, <1>2, <1>3, <1>4, <1>5, <1>6, <1>7, <1>8, <1>9, <1>10, <1>11, <1>12
  DEF BindingsNext, OrdinaryNext, ReplicaNext

(* Every binding names an account or an owner that is there, in every      *)
(* behaviour of both protocols.                                            *)
THEOREM BindingsReferential == BindingsSpec => []NothingDangles
<1>1. BindingsInit => NothingDangles
  BY DEF BindingsInit, NothingDangles
<1> QED
  BY <1>1, BindingsTypeCorrect, DanglesStep, PTL DEF BindingsSpec

-----------------------------------------------------------------------------
\* A keylist addition that was checked is not for one of the mediator's DIDs.
PendingForeign == \A p \in pending : Did(p[2]) \notin Mediators

(* No request binds one of the mediator's own DIDs: a sender proves a DID  *)
(* that is a peer's, a DID a request names is tested, and what was tested  *)
(* before the write is remembered in the keylist additions under way.      *)
LEMMA OwnStep ==
    BindingsTypeOK /\ OwnDidsUnbound /\ PendingForeign /\ [BindingsNext]_bindingVars
        => OwnDidsUnbound' /\ PendingForeign'
<1> SUFFICES ASSUME BindingsTypeOK, OwnDidsUnbound, PendingForeign, [BindingsNext]_bindingVars
             PROVE  OwnDidsUnbound' /\ PendingForeign'
  OBVIOUS
<1> USE PeersAssumption
        DEF BindingsTypeOK, ordinaryVars, replicaVars, OwnDidsUnbound, PendingForeign, NotOrdinary,
            NotReplicaMediation, NotSharedRecipient, IsMediatorOwnDid
<1>0. Mediators \subseteq Dids
  BY DEF Dids
<1>1. ASSUME NEW n \in Asked, MediateRequest(n)
      PROVE  OwnDidsUnbound' /\ PendingForeign'
  BY <1>1 DEF MediateRequest, GrantMediation
<1>2. ASSUME NEW n \in Asked, RevokeMediation(n)
      PROVE  OwnDidsUnbound' /\ PendingForeign'
  BY <1>2 DEF RevokeMediation
<1>3. ASSUME NEW o \in Asked, NEW r \in Asked, RecipientUpdateCheck(o, r)
      PROVE  OwnDidsUnbound' /\ PendingForeign'
  BY <1>3 DEF RecipientUpdateCheck
<1>4. ASSUME NEW o \in Asked, NEW r \in Asked, RecipientUpdateAdd(o, r)
      PROVE  OwnDidsUnbound' /\ PendingForeign'
  <2>1. Did(r) \notin Mediators
    BY <1>4 DEF RecipientUpdateAdd
  <2>2. \A n \in Names : n # r => keylist'[n] = keylist[n]
    BY <1>4 DEF RecipientUpdateAdd, AddRecipient
  <2> QED
    BY <1>4, <2>1, <2>2 DEF RecipientUpdateAdd
<1>5. ASSUME NEW o \in Asked, NEW r \in Asked, RecipientUpdateRemove(o, r)
      PROVE  OwnDidsUnbound' /\ PendingForeign'
  BY <1>5 DEF RecipientUpdateRemove, RemoveRecipient
<1>6. ASSUME NEW a \in Dids, NEW m \in Mediators, AccountRegister(a, m)
      PROVE  OwnDidsUnbound' /\ PendingForeign'
  BY <1>0, <1>6 DEF AccountRegister, RegisterReplicaAccount
<1>7. ASSUME NEW a \in Dids, NEW m \in Mediators, AccountDelete(a, m)
      PROVE  OwnDidsUnbound' /\ PendingForeign'
  BY <1>0, <1>7 DEF AccountDelete, DeleteReplicaAccount
<1>8. ASSUME NEW a \in Dids, NEW m \in Mediators, NEW d \in Dids, ReplicaAdd(a, m, d)
      PROVE  OwnDidsUnbound' /\ PendingForeign'
  BY <1>0, <1>8 DEF ReplicaAdd, AddReplica
<1>9. ASSUME NEW a \in Dids, NEW m \in Mediators, NEW d \in Dids, ReplicaRemove(a, m, d)
      PROVE  OwnDidsUnbound' /\ PendingForeign'
  <2>1. d \notin Mediators
    BY <1>9 DEF ReplicaRemove, RemoveReplica, ActiveOf, Enrolled
  <2> QED
    BY <1>0, <1>9, <2>1 DEF ReplicaRemove, RemoveReplica
<1>10. ASSUME NEW a \in Dids, NEW m \in Mediators, NEW d \in Dids, RecipientAdd(a, m, d)
      PROVE  OwnDidsUnbound' /\ PendingForeign'
  BY <1>0, <1>10 DEF RecipientAdd, AddSharedRecipient
<1>11. ASSUME NEW a \in Dids, NEW m \in Mediators, NEW d \in Dids, RecipientRemove(a, m, d)
      PROVE  OwnDidsUnbound' /\ PendingForeign'
  BY <1>0, <1>11 DEF RecipientRemove, RemoveSharedRecipient
<1>12. CASE UNCHANGED bindingVars
  BY <1>12 DEF bindingVars
<1> QED
  BY <1>1, <1>2, <1>3, <1>4, <1>5, <1>6, <1>7, <1>8, <1>9, <1>10, <1>11, <1>12
  DEF BindingsNext, OrdinaryNext, ReplicaNext

(* The mediator's own DIDs stay unbound, in every behaviour. *)
THEOREM BindingsOwnDids == BindingsSpec => []OwnDidsUnbound
<1>1. BindingsInit => OwnDidsUnbound /\ PendingForeign
  BY DEF BindingsInit, OwnDidsUnbound, PendingForeign, NotOrdinary, NotReplicaMediation,
         NotSharedRecipient, Dids
<1> QED
  BY <1>1, BindingsTypeCorrect, OwnStep, PTL DEF BindingsSpec

-----------------------------------------------------------------------------
(* What the store's writes may do with the table of replicas: a row is     *)
(* deleted with its account, marked removed in place, or inserted where    *)
(* there is none.                                                          *)
LEMMA ReplicasStep ==
    ASSUME BindingsTypeOK, [BindingsNext]_bindingVars, NEW d \in Dids, replicas[d] # None
    PROVE  \/ replicas'[d] = replicas[d]
           \/ replicas'[d] = None /\ replicaAccounts'[replicas[d].account] = None
           \/ /\ replicas[d].state = "active"
              /\ replicas'[d].account = replicas[d].account
              /\ replicas'[d].ordinal = replicas[d].ordinal
<1> USE DEF BindingsTypeOK, ordinaryVars, replicaVars
<1>e. replicas[d] \in Enrolments
  OBVIOUS
<1>1. CASE UNCHANGED replicas
  BY <1>1
<1>2. CASE OrdinaryNext
  BY <1>2 DEF OrdinaryNext, MediateRequest, GrantMediation, RevokeMediation,
     RecipientUpdateCheck,
              RecipientUpdateAdd, RecipientUpdateRemove, RemoveRecipient
<1>3. ASSUME NEW a \in Dids, NEW m \in Mediators, AccountRegister(a, m) PROVE UNCHANGED replicas
  BY <1>3 DEF AccountRegister, RegisterReplicaAccount
<1>4. ASSUME NEW a \in Dids, NEW m \in Mediators, AccountDelete(a, m)
      PROVE  \/ replicas'[d] = replicas[d]
             \/ replicas'[d] = None /\ replicaAccounts'[replicas[d].account] = None
  BY <1>4 DEF AccountDelete, DeleteReplicaAccount, Enrolled
<1>5. ASSUME NEW a \in Dids, NEW m \in Mediators, NEW c \in Dids, ReplicaAdd(a, m, c)
      PROVE  replicas'[d] = replicas[d]
  BY <1>5 DEF ReplicaAdd, AddReplica, NotReplicaMediation
<1>6. ASSUME NEW a \in Dids, NEW m \in Mediators, NEW c \in Dids, ReplicaRemove(a, m, c)
      PROVE  \/ replicas'[d] = replicas[d]
             \/ /\ replicas[d].state = "active"
                /\ replicas'[d].account = replicas[d].account
                /\ replicas'[d].ordinal = replicas[d].ordinal
  <2>1. CASE c # d
    BY <1>6, <2>1 DEF ReplicaRemove, RemoveReplica
  <2>2. CASE c = d
    <3>1. replicas[d].state = "active"
      BY <1>6, <2>2 DEF ReplicaRemove, RemoveReplica, ActiveOf, IsActive
    <3>2. replicas'[d] = [replicas[d] EXCEPT !.state = "removed"]
      BY <1>6, <2>2 DEF ReplicaRemove, RemoveReplica
    <3> QED
      BY <1>e, <3>1, <3>2 DEF Enrolments
  <2> QED
    BY <2>1, <2>2
<1>7. ASSUME NEW a \in Dids, NEW m \in Mediators, NEW c \in Dids,
             RecipientAdd(a, m, c) \/ RecipientRemove(a, m, c)
      PROVE  UNCHANGED replicas
  BY <1>7 DEF RecipientAdd, AddSharedRecipient, RecipientRemove, RemoveSharedRecipient
<1> QED
  BY <1>1, <1>2, <1>3, <1>4, <1>5, <1>6, <1>7 DEF BindingsNext, ReplicaNext, bindingVars

(* A removed replica stays removed and bound until its account is deleted. *)
THEOREM BindingsRemovalFinal == BindingsSpec => RemovalIsFinal
<1> DEFINE A == \A d \in Dids :
                    replicas[d] # None /\ replicas[d].state = "removed"
                      => replicas'[d] = replicas[d] \/ replicaAccounts'[replicas[d].account] = None
<1>1. BindingsTypeOK /\ [BindingsNext]_bindingVars => A
  BY ReplicasStep
<1> QED
  BY <1>1, BindingsTypeCorrect, PTL DEF RemovalIsFinal, BindingsSpec

(* No step hands a binding over to another owner, account or mediator.     *)
THEOREM BindingsNoTakeover == BindingsSpec => NoTakeover
<1> DEFINE A ==
      /\ \A n \in Names : keylist[n] # None => keylist'[n] \in {keylist[n], None}
      /\ \A d \in Dids : recipients[d] # None => recipients'[d] \in {recipients[d], None}
      /\ \A d \in Dids :
            replicaAccounts[d] # None => replicaAccounts'[d] \in {replicaAccounts[d], None}
      /\ \A d \in Dids :
            replicas[d] # None /\ replicas'[d] # None =>
                /\ replicas'[d].account = replicas[d].account
                /\ replicas'[d].ordinal = replicas[d].ordinal
<1>1. BindingsTypeOK /\ [BindingsNext]_bindingVars => A
  <2> SUFFICES ASSUME BindingsTypeOK, [BindingsNext]_bindingVars PROVE A
    OBVIOUS
  <2> USE DEF BindingsTypeOK, ordinaryVars, replicaVars
  <2>1. \A d \in Dids : replicas[d] # None /\ replicas'[d] # None =>
            /\ replicas'[d].account = replicas[d].account
            /\ replicas'[d].ordinal = replicas[d].ordinal
    BY ReplicasStep
  <2> DEFINE K == \A n \in Names : keylist[n] # None => keylist'[n] \in {keylist[n], None}
             R == \A d \in Dids : recipients[d] # None => recipients'[d] \in {recipients[d], None}
             M == \A d \in Dids :
                    replicaAccounts[d] # None => replicaAccounts'[d] \in {replicaAccounts[d], None}
  <2>2. CASE OrdinaryNext
    <3>1. ASSUME NEW o \in Asked, NEW r \in Asked, RecipientUpdateAdd(o, r) PROVE K
      BY <3>1 DEF RecipientUpdateAdd, AddRecipient
    <3>2. ASSUME NEW o \in Asked, NEW r \in Asked, RecipientUpdateRemove(o, r) PROVE K
      BY <3>2 DEF RecipientUpdateRemove, RemoveRecipient
    <3>3. ASSUME NEW n \in Asked, RevokeMediation(n) PROVE K
      BY <3>3 DEF RevokeMediation
    <3>4. K
      BY <2>2, <3>1, <3>2, <3>3 DEF OrdinaryNext, MediateRequest, GrantMediation,
         RecipientUpdateCheck
    <3>5. UNCHANGED <<recipients, replicaAccounts>>
      BY <2>2 DEF OrdinaryNext, MediateRequest, GrantMediation, RevokeMediation,
         RecipientUpdateCheck,
                  RecipientUpdateAdd, RecipientUpdateRemove, RemoveRecipient
    <3> QED
      BY <2>1, <3>4, <3>5
  <2>3. ASSUME NEW a \in Dids, NEW m \in Mediators, AccountRegister(a, m) PROVE A
    <3>1. M /\ UNCHANGED <<keylist, recipients>>
      BY <2>3 DEF AccountRegister, RegisterReplicaAccount, NotReplicaMediation
    <3> QED
      BY <2>1, <3>1
  <2>4. ASSUME NEW a \in Dids, NEW m \in Mediators, AccountDelete(a, m) PROVE A
    <3>1. R /\ M /\ UNCHANGED keylist
      BY <2>4 DEF AccountDelete, DeleteReplicaAccount
    <3> QED
      BY <2>1, <3>1
  <2>5. ASSUME NEW a \in Dids, NEW m \in Mediators, NEW d \in Dids,
               ReplicaAdd(a, m, d) \/ ReplicaRemove(a, m, d)
        PROVE  A
    <3>1. UNCHANGED <<keylist, recipients, replicaAccounts>>
      BY <2>5 DEF ReplicaAdd, AddReplica, ReplicaRemove, RemoveReplica
    <3> QED
      BY <2>1, <3>1
  <2>6. ASSUME NEW a \in Dids, NEW m \in Mediators, NEW d \in Dids,
               RecipientAdd(a, m, d) \/ RecipientRemove(a, m, d)
        PROVE  A
    <3>1. R /\ UNCHANGED <<keylist, replicaAccounts>>
      BY <2>6 DEF RecipientAdd, AddSharedRecipient, RecipientRemove, RemoveSharedRecipient,
                  NotReplicaMediation, NotSharedRecipient
    <3> QED
      BY <2>1, <3>1
  <2>7. CASE UNCHANGED bindingVars
    BY <2>1, <2>7 DEF bindingVars
  <2> QED
    BY <2>2, <2>3, <2>4, <2>5, <2>6, <2>7 DEF BindingsNext, ReplicaNext
<1> QED
  BY <1>1, BindingsTypeCorrect, PTL DEF NoTakeover, BindingsSpec

-----------------------------------------------------------------------------
(* The roster and the limits of an account.  What a request does to them:  *)
(* it deletes an account's rows, adds one replica to an account with room, *)
(* removes one in place, or leaves the table.                              *)
LEMMA RosterMoves ==
    ASSUME [BindingsNext]_bindingVars
    PROVE  \/ replicas' = replicas
           \/ \E a \in Dids : replicas' = [d \in Dids |-> IF d \in Enrolled(a) THEN None ELSE replicas[d]]
           \/ \E a, d \in Dids :
                 /\ replicas[d] = None
                 /\ Cardinality(ActiveOf(a)) < MaxActive
                 /\ replicas' = [replicas EXCEPT ![d] =
                      [account |-> a, ordinal |-> Cardinality(Enrolled(a)) + 1, state |-> "active"]]
           \/ \E a, d \in Dids : d \in ActiveOf(a) /\ replicas' = [replicas EXCEPT ![d].state = "removed"]
<1> USE DEF ordinaryVars, replicaVars
<1>1. CASE OrdinaryNext
  BY <1>1 DEF OrdinaryNext, MediateRequest, GrantMediation, RevokeMediation,
     RecipientUpdateCheck,
              RecipientUpdateAdd, RecipientUpdateRemove, RemoveRecipient
<1>2. ASSUME NEW a \in Dids, NEW m \in Mediators, AccountRegister(a, m) PROVE replicas' = replicas
  BY <1>2 DEF AccountRegister, RegisterReplicaAccount
<1>3. ASSUME NEW a \in Dids, NEW m \in Mediators, AccountDelete(a, m)
      PROVE  replicas' = [d \in Dids |-> IF d \in Enrolled(a) THEN None ELSE replicas[d]]
  BY <1>3 DEF AccountDelete, DeleteReplicaAccount
<1>4. ASSUME NEW a \in Dids, NEW m \in Mediators, NEW d \in Dids, ReplicaAdd(a, m, d)
      PROVE  /\ replicas[d] = None
             /\ Cardinality(ActiveOf(a)) < MaxActive
             /\ replicas' = [replicas EXCEPT ![d] =
                  [account |-> a, ordinal |-> Cardinality(Enrolled(a)) + 1, state |-> "active"]]
  BY <1>4 DEF ReplicaAdd, AddReplica, NotReplicaMediation
<1>5. ASSUME NEW a \in Dids, NEW m \in Mediators, NEW d \in Dids, ReplicaRemove(a, m, d)
      PROVE  d \in ActiveOf(a) /\ replicas' = [replicas EXCEPT ![d].state = "removed"]
  BY <1>5 DEF ReplicaRemove, RemoveReplica
<1>6. ASSUME NEW a \in Dids, NEW m \in Mediators, NEW d \in Dids,
             RecipientAdd(a, m, d) \/ RecipientRemove(a, m, d)
      PROVE  replicas' = replicas
  BY <1>6 DEF RecipientAdd, AddSharedRecipient, RecipientRemove, RemoveSharedRecipient
<1>7. CASE UNCHANGED bindingVars
  BY <1>7 DEF bindingVars
<1> QED
  BY <1>1, <1>2, <1>3, <1>4, <1>5, <1>6, <1>7 DEF BindingsNext, ReplicaNext

(* An account's places stay 1..n: a new replica takes the place after all  *)
(* the replicas the account ever had, and none is freed by a removal.      *)
LEMMA RosterStep ==
    BindingsTypeOK /\ RosterContiguous /\ [BindingsNext]_bindingVars => RosterContiguous'
<1> SUFFICES ASSUME BindingsTypeOK, RosterContiguous, [BindingsNext]_bindingVars, NEW b \in Dids
             PROVE  {replicas'[d].ordinal : d \in Enrolled(b)'} = 1 .. Cardinality(Enrolled(b)')
  BY DEF RosterContiguous, Enrolled
<1>t. replicas \in [Dids -> Enrolments \cup {None}]
  BY DEF BindingsTypeOK
<1>h. {replicas[d].ordinal : d \in Enrolled(b)} = 1 .. Cardinality(Enrolled(b))
  BY DEF RosterContiguous
<1>k. ASSUME Enrolled(b)' = Enrolled(b), \A d \in Enrolled(b) : replicas'[d].ordinal = replicas[d].ordinal
      PROVE  {replicas'[d].ordinal : d \in Enrolled(b)'} = 1 .. Cardinality(Enrolled(b)')
  BY <1>h, <1>k
<1>1. CASE replicas' = replicas
  BY <1>1, <1>k DEF Enrolled
<1>2. ASSUME NEW a \in Dids, replicas' = [d \in Dids |-> IF d \in Enrolled(a) THEN None ELSE replicas[d]]
      PROVE  {replicas'[d].ordinal : d \in Enrolled(b)'} = 1 .. Cardinality(Enrolled(b)')
  <2>1. CASE a = b
    <3>1. Enrolled(b)' = {}
      BY <1>2, <2>1 DEF Enrolled
    <3>2. Cardinality(Enrolled(b)') = 0
      BY <3>1, FS_EmptySet
    <3>3. {replicas'[d].ordinal : d \in Enrolled(b)'} = {}
      BY <3>1
    <3>4. 1..0 = {}
      OBVIOUS
    <3> HIDE DEF Enrolled
    <3> QED
      BY <3>2, <3>3, <3>4
  <2>2. CASE a # b
    <3>1. \A d \in Enrolled(b) : d \in Dids /\ d \notin Enrolled(a) /\ replicas'[d] = replicas[d]
      BY <1>2, <2>2 DEF Enrolled
    <3>2. Enrolled(b)' = Enrolled(b)
      BY <1>2, <3>1 DEF Enrolled
    <3> QED
      BY <1>k, <3>1, <3>2
  <2> QED
    BY <2>1, <2>2
<1>3. ASSUME NEW a \in Dids, NEW c \in Dids, replicas[c] = None,
             replicas' = [replicas EXCEPT ![c] =
                  [account |-> a, ordinal |-> Cardinality(Enrolled(a)) + 1, state |-> "active"]]
      PROVE  {replicas'[d].ordinal : d \in Enrolled(b)'} = 1 .. Cardinality(Enrolled(b)')
  <2>e. [account |-> a, ordinal |-> Cardinality(Enrolled(a)) + 1, state |-> "active"] \in Enrolments
    BY EnrolledCounted DEF Enrolments
  <2>n. replicas'[c] # None /\ replicas'[c].account = a
        /\ replicas'[c].ordinal = Cardinality(Enrolled(a)) + 1
    BY <1>3, <1>t, <2>e, NoneAssumption
  <2>o. \A d \in Dids : d # c => replicas'[d] = replicas[d]
    BY <1>3, <1>t
  <2>1. CASE a = b
    <3>1. c \notin Enrolled(b) /\ Enrolled(b)' = Enrolled(b) \cup {c}
      BY <1>3, <2>1, <2>n, <2>o DEF Enrolled
    <3>2. Cardinality(Enrolled(b)') = Cardinality(Enrolled(b)) + 1
      BY <3>1, EnrolledCounted, FS_AddElement
    <3>3. {replicas'[d].ordinal : d \in Enrolled(b)'}
              = {replicas[d].ordinal : d \in Enrolled(b)} \cup {Cardinality(Enrolled(b)) + 1}
      <4>1. \A d \in Enrolled(b) : replicas'[d].ordinal = replicas[d].ordinal
        BY <3>1, <2>o DEF Enrolled
      <4>2. replicas'[c].ordinal = Cardinality(Enrolled(b)) + 1
        BY <2>1, <2>n
      <4> QED
        BY <3>1, <4>1, <4>2
    <3>4. Cardinality(Enrolled(b)) \in Nat
      BY EnrolledCounted
    <3> QED
      BY <1>h, <3>2, <3>3, <3>4
  <2>2. CASE a # b
    <3>1. Enrolled(b)' = Enrolled(b) /\ c \notin Enrolled(b)
      BY <1>3, <2>2, <2>n, <2>o DEF Enrolled
    <3>2. \A d \in Enrolled(b) : replicas'[d].ordinal = replicas[d].ordinal
      BY <3>1, <2>o DEF Enrolled
    <3> QED
      BY <1>k, <3>1, <3>2
  <2> QED
    BY <2>1, <2>2
<1>4. ASSUME NEW a \in Dids, NEW c \in Dids, c \in ActiveOf(a),
             replicas' = [replicas EXCEPT ![c].state = "removed"]
      PROVE  {replicas'[d].ordinal : d \in Enrolled(b)'} = 1 .. Cardinality(Enrolled(b)')
  <2>1. replicas[c] \in Enrolments
    BY <1>4, <1>t DEF ActiveOf, Enrolled
  <2>2. replicas'[c] \in Enrolments /\ replicas'[c].account = replicas[c].account
        /\ replicas'[c].ordinal = replicas[c].ordinal
    BY <1>4, <1>t, <2>1 DEF Enrolments
  <2>3. \A d \in Dids : d # c => replicas'[d] = replicas[d]
    BY <1>4, <1>t
  <2>4. replicas[c] # None /\ replicas'[c] # None
    BY <2>1, <2>2, NoneAssumption
  <2>5. Enrolled(b)' = Enrolled(b)
    BY <2>2, <2>3, <2>4 DEF Enrolled
  <2>6. \A d \in Enrolled(b) : replicas'[d].ordinal = replicas[d].ordinal
    BY <2>2, <2>3 DEF Enrolled
  <2> QED
    BY <1>k, <2>5, <2>6
<1> QED
  BY <1>1, <1>2, <1>3, <1>4, RosterMoves

(* The roster an account pages through has neither gap nor double. *)
THEOREM BindingsRoster == BindingsSpec => []RosterContiguous
<1>1. BindingsInit => RosterContiguous
  <2> SUFFICES ASSUME BindingsInit, NEW a \in Dids
               PROVE  {replicas[d].ordinal : d \in Enrolled(a)} = 1 .. Cardinality(Enrolled(a))
    BY DEF RosterContiguous
  <2>1. Enrolled(a) = {}
    BY DEF BindingsInit, Enrolled
  <2>2. Cardinality(Enrolled(a)) = 0 /\ {replicas[d].ordinal : d \in Enrolled(a)} = {}
    BY <2>1, FS_EmptySet
  <2> QED
    BY <2>2
<1> QED
  BY <1>1, BindingsTypeCorrect, RosterStep, PTL DEF BindingsSpec

(* What the limits count is counted: the active replicas and the shared    *)
(* recipients of an account are finitely many.                             *)
LEMMA LimitsCounted ==
    ASSUME NEW a
    PROVE  /\ IsFiniteSet(ActiveOf(a)) /\ Cardinality(ActiveOf(a)) \in Nat
           /\ IsFiniteSet(SharedBy(a)) /\ Cardinality(SharedBy(a)) \in Nat
<1>1. ActiveOf(a) \subseteq Dids /\ SharedBy(a) \subseteq Dids
  BY DEF ActiveOf, Enrolled, SharedBy
<1> QED
  BY <1>1, DidsFinite, FS_Subset, FS_CardinalityType

(* An account never has more active replicas than its limit. *)
LEMMA ActiveStep ==
    ASSUME BindingsTypeOK, WithinLimits, [BindingsNext]_bindingVars, NEW b \in Dids
    PROVE  Cardinality(ActiveOf(b)') <= MaxActive
<1>t. replicas \in [Dids -> Enrolments \cup {None}]
  BY DEF BindingsTypeOK
<1>h. Cardinality(ActiveOf(b)) <= MaxActive /\ Cardinality(ActiveOf(b)) \in Nat
  BY LimitsCounted DEF WithinLimits
<1>k. ASSUME ActiveOf(b)' \subseteq ActiveOf(b) PROVE Cardinality(ActiveOf(b)') <= MaxActive
  <2>1. Cardinality(ActiveOf(b)') <= Cardinality(ActiveOf(b)) /\ IsFiniteSet(ActiveOf(b)')
    BY <1>k, LimitsCounted, FS_Subset
  <2>2. Cardinality(ActiveOf(b)') \in Nat
    BY <2>1, FS_CardinalityType
  <2> QED
    BY <1>h, <2>1, <2>2, LimitsAssumption
<1>1. CASE replicas' = replicas
  BY <1>1, <1>k DEF ActiveOf, Enrolled, IsActive
<1>2. ASSUME NEW a \in Dids, replicas' = [d \in Dids |-> IF d \in Enrolled(a) THEN None ELSE replicas[d]]
      PROVE  ActiveOf(b)' \subseteq ActiveOf(b)
  BY <1>2 DEF ActiveOf, Enrolled, IsActive
<1>3. ASSUME NEW a \in Dids, NEW c \in Dids, replicas[c] = None, Cardinality(ActiveOf(a)) < MaxActive,
             replicas' = [replicas EXCEPT ![c] =
                  [account |-> a, ordinal |-> Cardinality(Enrolled(a)) + 1, state |-> "active"]]
      PROVE  Cardinality(ActiveOf(b)') <= MaxActive
  <2>1. replicas'[c].account = a /\ \A d \in Dids : d # c => replicas'[d] = replicas[d]
    BY <1>3, <1>t
  <2>2. CASE a # b
    <3>1. ActiveOf(b)' \subseteq ActiveOf(b)
      BY <2>1, <2>2 DEF ActiveOf, Enrolled, IsActive
    <3> QED
      BY <3>1, <1>k
  <2>3. CASE a = b
    <3>1. ActiveOf(b)' \subseteq ActiveOf(b) \cup {c}
      BY <2>1 DEF ActiveOf, Enrolled, IsActive
    <3>2. c \notin ActiveOf(b)
      BY <1>3 DEF ActiveOf, Enrolled
    <3>3. IsFiniteSet(ActiveOf(b) \cup {c}) /\ Cardinality(ActiveOf(b) \cup {c}) = Cardinality(ActiveOf(b)) + 1
      BY <3>2, LimitsCounted, FS_AddElement
    <3>4. Cardinality(ActiveOf(b)') <= Cardinality(ActiveOf(b)) + 1 /\ IsFiniteSet(ActiveOf(b)')
      BY <3>1, <3>3, FS_Subset
    <3>5. Cardinality(ActiveOf(b)') \in Nat
      BY <3>4, FS_CardinalityType
    <3>6. Cardinality(ActiveOf(b)) < MaxActive
      BY <1>3, <2>3
    <3> QED
      BY <1>h, <3>4, <3>5, <3>6, LimitsAssumption
  <2> QED
    BY <2>2, <2>3
<1>4. ASSUME NEW a \in Dids, NEW c \in Dids, c \in ActiveOf(a),
             replicas' = [replicas EXCEPT ![c].state = "removed"]
      PROVE  ActiveOf(b)' \subseteq ActiveOf(b)
  <2>1. replicas[c] \in Enrolments
    BY <1>4, <1>t DEF ActiveOf, Enrolled
  <2>2. replicas'[c].state = "removed"
    BY <1>4, <1>t, <2>1 DEF Enrolments
  <2>3. \A d \in Dids : d # c => replicas'[d] = replicas[d]
    BY <1>4, <1>t
  <2> QED
    BY <2>2, <2>3 DEF ActiveOf, Enrolled, IsActive
<1> QED
  BY <1>1, <1>2, <1>3, <1>4, <1>k, RosterMoves

(* Nor more shared recipients. *)
LEMMA SharedStep ==
    ASSUME BindingsTypeOK, WithinLimits, [BindingsNext]_bindingVars, NEW b \in Dids
    PROVE  Cardinality(SharedBy(b)') <= MaxRecipients
<1> USE DEF ordinaryVars, replicaVars
<1>t. recipients \in [Dids -> Dids \cup {None}]
  BY DEF BindingsTypeOK
<1>h. Cardinality(SharedBy(b)) <= MaxRecipients /\ Cardinality(SharedBy(b)) \in Nat
  BY LimitsCounted DEF WithinLimits
<1>k. ASSUME SharedBy(b)' \subseteq SharedBy(b) PROVE Cardinality(SharedBy(b)') <= MaxRecipients
  <2>1. Cardinality(SharedBy(b)') <= Cardinality(SharedBy(b)) /\ IsFiniteSet(SharedBy(b)')
    BY <1>k, LimitsCounted, FS_Subset
  <2>2. Cardinality(SharedBy(b)') \in Nat
    BY <2>1, FS_CardinalityType
  <2> QED
    BY <1>h, <2>1, <2>2, LimitsAssumption
<1>1. CASE recipients' = recipients
  BY <1>1, <1>k DEF SharedBy
<1>2. CASE OrdinaryNext
  BY <1>1, <1>2 DEF OrdinaryNext, MediateRequest, GrantMediation, RevokeMediation,
     RecipientUpdateCheck,
              RecipientUpdateAdd, RecipientUpdateRemove, RemoveRecipient
<1>3. ASSUME NEW a \in Dids, NEW m \in Mediators, AccountRegister(a, m) PROVE recipients' = recipients
  BY <1>3 DEF AccountRegister, RegisterReplicaAccount
<1>4. ASSUME NEW a \in Dids, NEW m \in Mediators, AccountDelete(a, m)
      PROVE  SharedBy(b)' \subseteq SharedBy(b)
  <2>1. \A d \in Dids : recipients'[d] = recipients[d] \/ recipients'[d] = None
    BY <1>4 DEF AccountDelete, DeleteReplicaAccount
  <2>2. b # None
    BY PeersAssumption DEF Dids
  <2> QED
    BY <2>1, <2>2 DEF SharedBy
<1>5. ASSUME NEW a \in Dids, NEW m \in Mediators, NEW d \in Dids,
             ReplicaAdd(a, m, d) \/ ReplicaRemove(a, m, d)
      PROVE  recipients' = recipients
  BY <1>5 DEF ReplicaAdd, AddReplica, ReplicaRemove, RemoveReplica
<1>6. ASSUME NEW a \in Dids, NEW m \in Mediators, NEW d \in Dids, RecipientRemove(a, m, d)
      PROVE  SharedBy(b)' \subseteq SharedBy(b)
  <2>1. \A c \in Dids : recipients'[c] = recipients[c] \/ recipients'[c] = None
    BY <1>6, <1>t DEF RecipientRemove, RemoveSharedRecipient
  <2>2. b # None
    BY PeersAssumption DEF Dids
  <2> QED
    BY <2>1, <2>2 DEF SharedBy
<1>7. ASSUME NEW a \in Dids, NEW m \in Mediators, NEW d \in Dids, RecipientAdd(a, m, d)
      PROVE  Cardinality(SharedBy(b)') <= MaxRecipients
  <2>1. /\ recipients' = [recipients EXCEPT ![d] = a] /\ Cardinality(SharedBy(a)) < MaxRecipients
        /\ recipients[d] = None
    BY <1>7 DEF RecipientAdd, AddSharedRecipient, NotReplicaMediation, NotSharedRecipient
  <2>2. CASE a # b
    <3>1. SharedBy(b)' \subseteq SharedBy(b)
      BY <1>t, <2>1, <2>2 DEF SharedBy
    <3> QED
      BY <3>1, <1>k
  <2>3. CASE a = b
    <3>1. SharedBy(b)' \subseteq SharedBy(b) \cup {d}
      BY <1>t, <2>1 DEF SharedBy
    <3>2. d \notin SharedBy(b)
      <4>1. b # None
        BY PeersAssumption DEF Dids
      <4> QED
        BY <2>1, <4>1 DEF SharedBy
    <3>3. IsFiniteSet(SharedBy(b) \cup {d}) /\ Cardinality(SharedBy(b) \cup {d}) = Cardinality(SharedBy(b)) + 1
      BY <3>2, LimitsCounted, FS_AddElement
    <3>4. Cardinality(SharedBy(b)') <= Cardinality(SharedBy(b)) + 1 /\ IsFiniteSet(SharedBy(b)')
      BY <3>1, <3>3, FS_Subset
    <3>5. Cardinality(SharedBy(b)') \in Nat
      BY <3>4, FS_CardinalityType
    <3>6. Cardinality(SharedBy(b)) < MaxRecipients
      BY <2>1, <2>3
    <3> QED
      BY <1>h, <3>4, <3>5, <3>6, LimitsAssumption
  <2> QED
    BY <2>2, <2>3
<1>8. CASE UNCHANGED bindingVars
  BY <1>1, <1>8 DEF bindingVars
<1> QED
  BY <1>1, <1>2, <1>3, <1>4, <1>5, <1>6, <1>7, <1>8, <1>k DEF BindingsNext, ReplicaNext

(* The limits of an account hold in every behaviour, whatever was removed  *)
(* and added again.                                                        *)
THEOREM BindingsLimited == BindingsSpec => []WithinLimits
<1>1. BindingsInit => WithinLimits
  <2> SUFFICES ASSUME BindingsInit, NEW a \in Dids
               PROVE  Cardinality(ActiveOf(a)) <= MaxActive /\ Cardinality(SharedBy(a)) <= MaxRecipients
    BY DEF WithinLimits
  <2>1. a # None
    BY PeersAssumption DEF Dids
  <2>2. ActiveOf(a) = {} /\ SharedBy(a) = {}
    BY <2>1 DEF BindingsInit, ActiveOf, Enrolled, SharedBy
  <2>3. Cardinality(ActiveOf(a)) = 0 /\ Cardinality(SharedBy(a)) = 0
    BY <2>2, FS_EmptySet
  <2> QED
    BY <2>3, LimitsAssumption
<1>2. BindingsTypeOK /\ WithinLimits /\ [BindingsNext]_bindingVars => WithinLimits'
  <2> SUFFICES ASSUME BindingsTypeOK, WithinLimits, [BindingsNext]_bindingVars PROVE WithinLimits'
    OBVIOUS
  <2>1. \A b \in Dids : Cardinality(ActiveOf(b)') <= MaxActive /\ Cardinality(SharedBy(b)') <= MaxRecipients
    BY ActiveStep, SharedStep
  <2> QED
    BY <2>1 DEF WithinLimits
<1> QED
  BY <1>1, <1>2, BindingsTypeCorrect, PTL DEF BindingsSpec

-----------------------------------------------------------------------------
(***************************************************************************)
(* Mail: the bindings under it behave as MediatorBindings says, the mail   *)
(* belongs to someone, the quotas hold, by count and by bytes, and a       *)
(* package goes to the replicas active when it was accepted.               *)
(***************************************************************************)

\* Ids are handed out once: whatever is stored has one given before.
MailIdsBelow ==
    /\ \A p \in packages : p.id < nextId
    /\ \A x \in deliveries : x.package < nextId

StoredFinite == IsFiniteSet(messages) /\ IsFiniteSet(packages)

BindingsInv == BindingsTypeOK /\ BoundOnce /\ NothingDangles

MailInv == MailTypeOK /\ BindingsInv /\ MailIdsBelow /\ StoredFinite /\ MailBelongs /\ MailWithinQuota

-----------------------------------------------------------------------------
(* What a step does to the bindings is a request of MediatorBindings.      *)
LEMMA MailBindsAsBindings == MailNext => [BindingsNext]_bindingVars
<1> SUFFICES ASSUME MailNext PROVE [BindingsNext]_bindingVars
  OBVIOUS
<1> USE DEF BindingsNext, OrdinaryNext, ReplicaNext
<1>1. CASE BindOnly
  BY <1>1 DEF BindOnly
<1>2. ASSUME NEW n \in Asked, RevokeMediationAndMail(n) PROVE BindingsNext
  BY <1>2 DEF RevokeMediationAndMail
<1>3. ASSUME NEW a \in Dids, NEW m \in Mediators, DeleteAccountAndMail(a, m) PROVE BindingsNext
  BY <1>3 DEF DeleteAccountAndMail
<1>4. ASSUME NEW a \in Dids, NEW m \in Mediators, NEW d \in Dids, RemoveReplicaAndMail(a, m, d)
      PROVE  BindingsNext
  BY <1>4 DEF RemoveReplicaAndMail
<1>5. ASSUME NEW n \in Dids \X Forms, ForwardRoute(n) PROVE UNCHANGED bindingVars
  BY <1>5 DEF ForwardRoute
<1>6. ASSUME NEW f \in forwards, StoreMessage(f) PROVE UNCHANGED bindingVars
  BY <1>6 DEF StoreMessage
<1>7. ASSUME NEW f \in forwards, NEW b \in Sizes, NEW t \in Deadlines, FanOut(f, b, t)
      PROVE  UNCHANGED bindingVars
  BY <1>7 DEF FanOut
<1>8. ASSUME NEW r \in Dids, NEW named \in SUBSET deliveries, AcknowledgeDeliveries(r, named)
      PROVE  UNCHANGED bindingVars
  BY <1>8 DEF AcknowledgeDeliveries
<1>9. ASSUME NEW o \in Names, NEW named \in SUBSET messages, DeleteMessages(o, named)
      PROVE  UNCHANGED bindingVars
  BY <1>9 DEF DeleteMessages
<1>10. CASE PurgeExpired
  BY <1>10 DEF PurgeExpired
<1>11. CASE MailTick
  BY <1>11 DEF MailTick
<1> HIDE DEF BindingsNext
<1> QED
  BY <1>1, <1>2, <1>3, <1>4, <1>5, <1>6, <1>7, <1>8, <1>9, <1>10, <1>11 DEF MailNext

(* The mediator's mail implements its bindings: all that is proved of      *)
(* BindingsSpec holds while forwards, fan-outs and endings go on beside.   *)
THEOREM MailImplementsBindings == MailSpec => BindingsSpec
<1>1. MailInit => BindingsInit
  BY DEF MailInit
<1>2. [MailNext]_allMailVars => [BindingsNext]_bindingVars
  BY MailBindsAsBindings DEF allMailVars, bindingVars
<1> QED
  BY <1>1, <1>2, PTL DEF MailSpec, BindingsSpec

(* The bindings' invariants are kept with the mail beside, as each step is *)
(* one of theirs.                                                          *)
LEMMA BindingsInvStep == BindingsInv /\ MailNext => BindingsInv'
BY MailBindsAsBindings, TypeStep, BoundStep, DanglesStep DEF BindingsInv

-----------------------------------------------------------------------------
(* Types.                                                                  *)
LEMMA MailTypeStep == MailTypeOK /\ MailNext => MailTypeOK'
<1> SUFFICES ASSUME MailTypeOK, MailNext PROVE MailTypeOK'
  OBVIOUS
<1>b. BindingsTypeOK'
  BY MailBindsAsBindings, TypeStep DEF MailTypeOK
<1>m. nextId \in Nat /\ now \in Nat /\ nextId + 1 \in Nat
  BY DEF MailTypeOK
<1>r. UNCHANGED mailVars => MailTypeOK'
  BY <1>b DEF MailTypeOK, mailVars
<1>1. CASE BindOnly
  BY <1>1, <1>r DEF BindOnly
<1>2. ASSUME NEW n \in Asked, RevokeMediationAndMail(n) PROVE MailTypeOK'
  BY <1>2, <1>b DEF RevokeMediationAndMail, MailTypeOK
<1>3. ASSUME NEW a \in Dids, NEW m \in Mediators, DeleteAccountAndMail(a, m) PROVE MailTypeOK'
  BY <1>3, <1>b DEF DeleteAccountAndMail, MailTypeOK
<1>4. ASSUME NEW a \in Dids, NEW m \in Mediators, NEW d \in Dids, RemoveReplicaAndMail(a, m, d)
      PROVE  MailTypeOK'
  BY <1>4, <1>b DEF RemoveReplicaAndMail, EndDeliveries, MailTypeOK
<1>5. ASSUME NEW n \in Dids \X Forms, ForwardRoute(n) PROVE MailTypeOK'
  <2>1. n \in Names
    BY PeersAssumption DEF Names
  <2>2. OwnerFor(n) \in Names \cup {None}
    BY <2>1 DEF OwnerFor, MailTypeOK, BindingsTypeOK
  <2>3. forwards' \in SUBSET Forwards
    BY <1>5, <2>1, <2>2 DEF ForwardRoute, Forwards, MailTypeOK
  <2> QED
    BY <1>5, <1>b, <2>3 DEF ForwardRoute, MailTypeOK
<1>6. ASSUME NEW f \in forwards, StoreMessage(f) PROVE MailTypeOK'
  <2>1. now + Ttl \in Nat
    BY <1>m, MailAssumption
  <2>2. f.owner \in Names
    BY <1>6 DEF StoreMessage, MailTypeOK, Forwards
  <2>3. messages' \in SUBSET Messages /\ nextId' \in Nat
    BY <1>6, <1>m, <2>1, <2>2 DEF StoreMessage, MailTypeOK, Messages, FreshId
  <2> QED
    BY <1>6, <1>b, <2>3 DEF StoreMessage, MailTypeOK
<1>7. ASSUME NEW f \in forwards, NEW b \in Sizes, NEW t \in Deadlines, FanOut(f, b, t)
      PROVE  MailTypeOK'
  <2>1. Earlier(now + Ttl, t) \in Nat
    BY <1>m, MailAssumption DEF Earlier
  <2>2. Did(f.next) \in Dids /\ b \in Nat
    BY MailAssumption DEF MailTypeOK, Forwards, Names, Did
  <2>3. packages' \in SUBSET Packages /\ deliveries' \in SUBSET Deliveries /\ nextId' \in Nat
    BY <1>7, <1>m, <2>1, <2>2 DEF FanOut, MailTypeOK, Packages, Deliveries, FreshId,
       AccountsFor, Targets
  <2> QED
    BY <1>7, <1>b, <2>3 DEF FanOut, MailTypeOK
<1>8. ASSUME NEW r \in Dids, NEW named \in SUBSET deliveries, AcknowledgeDeliveries(r, named)
      PROVE  MailTypeOK'
  BY <1>8, <1>b DEF AcknowledgeDeliveries, EndDeliveries, MailTypeOK
<1>9. ASSUME NEW o \in Names, NEW named \in SUBSET messages, DeleteMessages(o, named)
      PROVE  MailTypeOK'
  BY <1>9, <1>b DEF DeleteMessages, MailTypeOK
<1>10. CASE PurgeExpired
  BY <1>10, <1>b DEF PurgeExpired, MailTypeOK
<1>11. CASE MailTick
  BY <1>11, <1>b DEF MailTick, MailTypeOK
<1> QED
  BY <1>1, <1>2, <1>3, <1>4, <1>5, <1>6, <1>7, <1>8, <1>9, <1>10, <1>11 DEF MailNext

-----------------------------------------------------------------------------
(* What is stored only shrinks, but by a forward: this is all that a step  *)
(* adds.                                                                   *)
Fanned(f, b, t, a) == [id |-> FreshId, account |-> a, next |-> Did(f.next), bytes |-> b,
                       expires |-> Earlier(now + Ttl, t)]


StoredOne(f) ==
    /\ f.owner \in accounts
    /\ InboxRoom(f.owner)
    /\ messages' = messages \cup {[id |-> FreshId, owner |-> f.owner, expires |-> now + Ttl]}
    /\ UNCHANGED <<bindingVars, now, packages, deliveries>>

FannedOut(f, b, t, a) ==
    /\ a \in AccountsFor(Did(f.next))
    /\ HasRoom(a, b)
    /\ packages' = packages \cup {Fanned(f, b, t, a)}
    /\ deliveries' = deliveries \cup {[package |-> FreshId, replica |-> r] : r \in Targets(Did(f.next))}
    /\ nextId' = nextId + 1
    /\ UNCHANGED <<bindingVars, now, messages>>

MessagesMove == messages' \subseteq messages \/ \E f \in forwards : StoredOne(f)

PackagesMove ==
    \/ packages' \subseteq packages /\ deliveries' \subseteq deliveries
    \/ \E f \in forwards, b \in Sizes, t \in Deadlines, a \in Dids : FannedOut(f, b, t, a)

ClocksMove == now' \in {now, now + 1} /\ nextId' \in {nextId, nextId + 1}

(* A DID is a shared recipient or a replica and never both, so a package   *)
(* is counted against one account.                                         *)
LEMMA OneAccount ==
    ASSUME BoundOnce, NEW d \in Dids, NEW a \in AccountsFor(d), NEW c \in AccountsFor(d)
    PROVE  a = c
BY PeersAssumption DEF BoundOnce, AccountsFor, IsActive, Dids

(* A fan-out adds one package, for one account, or nothing.                *)
LEMMA FannedOne ==
    ASSUME MailTypeOK, BoundOnce, NEW f \in forwards, NEW b \in Sizes, NEW t \in Deadlines,
           FanOut(f, b, t)
    PROVE  \/ UNCHANGED <<packages, deliveries, nextId>>
           \/ \E a \in Dids : FannedOut(f, b, t, a)
<1> DEFINE d == Did(f.next)
           counted == {a \in AccountsFor(d) : HasRoom(a, b)}
<1>1. d \in Dids
  BY DEF MailTypeOK, Forwards, Names, Did
<1>2. ASSUME NEW a \in counted,
             packages' = packages \cup {Fanned(f, b, t, c) : c \in counted},
             deliveries' = deliveries \cup {[package |-> FreshId, replica |-> r] : r \in Targets(d)},
             nextId' = nextId + 1
      PROVE  \E c \in Dids : FannedOut(f, b, t, c)
  <2>1. counted = {a}
    BY <1>1, OneAccount
  <2>2. a \in Dids /\ {Fanned(f, b, t, c) : c \in counted} = {Fanned(f, b, t, a)}
    BY <2>1 DEF AccountsFor
  <2>3. FannedOut(f, b, t, a)
    BY <1>2, <2>2 DEF FanOut, FannedOut
  <2> QED
    BY <2>2, <2>3
<1> QED
  BY <1>2 DEF FanOut, Fanned

(* What a step does to the clocks, the messages and the packages.          *)
LEMMA MailMoves == MailTypeOK /\ BoundOnce /\ MailNext => ClocksMove /\ MessagesMove /\ PackagesMove
<1> SUFFICES ASSUME MailTypeOK, BoundOnce, MailNext PROVE ClocksMove /\ MessagesMove /\ PackagesMove
  OBVIOUS
<1> USE DEF ClocksMove, MessagesMove, PackagesMove
<1>1. CASE BindOnly
  BY <1>1 DEF BindOnly, mailVars
<1>2. ASSUME NEW n \in Asked, RevokeMediationAndMail(n)
      PROVE  ClocksMove /\ MessagesMove /\ PackagesMove
  BY <1>2 DEF RevokeMediationAndMail
<1>3. ASSUME NEW a \in Dids, NEW m \in Mediators, DeleteAccountAndMail(a, m)
      PROVE  ClocksMove /\ MessagesMove /\ PackagesMove
  BY <1>3 DEF DeleteAccountAndMail
<1>4. ASSUME NEW a \in Dids, NEW m \in Mediators, NEW d \in Dids, RemoveReplicaAndMail(a, m, d)
      PROVE  ClocksMove /\ MessagesMove /\ PackagesMove
  BY <1>4 DEF RemoveReplicaAndMail, EndDeliveries
<1>5. ASSUME NEW n \in Dids \X Forms, ForwardRoute(n)
      PROVE  ClocksMove /\ MessagesMove /\ PackagesMove
  BY <1>5 DEF ForwardRoute
<1>6. ASSUME NEW f \in forwards, StoreMessage(f)
      PROVE  ClocksMove /\ MessagesMove /\ PackagesMove
  <2>1. messages' = messages \/ StoredOne(f)
    BY <1>6 DEF StoreMessage, StoredOne
  <2> QED
    BY <1>6, <2>1 DEF StoreMessage
<1>7. ASSUME NEW f \in forwards, NEW b \in Sizes, NEW t \in Deadlines, FanOut(f, b, t)
      PROVE  ClocksMove /\ MessagesMove /\ PackagesMove
  BY <1>7, FannedOne DEF FanOut, FannedOut
<1>8. ASSUME NEW r \in Dids, NEW named \in SUBSET deliveries, AcknowledgeDeliveries(r, named)
      PROVE  ClocksMove /\ MessagesMove /\ PackagesMove
  BY <1>8 DEF AcknowledgeDeliveries, EndDeliveries
<1>9. ASSUME NEW o \in Names, NEW named \in SUBSET messages, DeleteMessages(o, named)
      PROVE  ClocksMove /\ MessagesMove /\ PackagesMove
  BY <1>9 DEF DeleteMessages
<1>10. CASE PurgeExpired
  BY <1>10 DEF PurgeExpired
<1>11. CASE MailTick
  BY <1>11 DEF MailTick
<1> HIDE DEF ClocksMove, MessagesMove, PackagesMove
<1> QED
  BY <1>1, <1>2, <1>3, <1>4, <1>5, <1>6, <1>7, <1>8, <1>9, <1>10, <1>11 DEF MailNext

-----------------------------------------------------------------------------
(* Ids are fresh.                                                          *)
LEMMA MailIdsStep == MailTypeOK /\ BoundOnce /\ MailIdsBelow /\ MailNext => MailIdsBelow'
<1> SUFFICES ASSUME MailTypeOK, BoundOnce, MailIdsBelow, MailNext PROVE MailIdsBelow'
  OBVIOUS
<1>1. ClocksMove /\ PackagesMove
  BY MailMoves
<1>n. nextId \in Nat /\ (\A p \in packages : p.id \in Nat) /\ (\A x \in deliveries : x.package \in Nat)
  BY DEF MailTypeOK, Packages, Deliveries
<1>2. CASE packages' \subseteq packages /\ deliveries' \subseteq deliveries
  BY <1>1, <1>2, <1>n DEF MailIdsBelow, ClocksMove
<1>3. ASSUME NEW f \in forwards, NEW b \in Sizes, NEW t \in Deadlines, NEW a \in Dids,
             FannedOut(f, b, t, a)
      PROVE  MailIdsBelow'
  BY <1>3, <1>n DEF MailIdsBelow, FannedOut, Fanned, FreshId
<1> QED
  BY <1>1, <1>2, <1>3 DEF PackagesMove

(* What is stored stays finite, so it can be counted and added up.         *)
LEMMA FiniteStep == MailTypeOK /\ BoundOnce /\ StoredFinite /\ MailNext => StoredFinite'
<1> SUFFICES ASSUME MailTypeOK, BoundOnce, StoredFinite, MailNext PROVE StoredFinite'
  OBVIOUS
<1>1. MessagesMove /\ PackagesMove
  BY MailMoves
<1>2. IsFiniteSet(messages')
  BY <1>1, FS_Subset, FS_AddElement DEF StoredFinite, MessagesMove, StoredOne
<1>3. IsFiniteSet(packages')
  BY <1>1, FS_Subset, FS_AddElement DEF StoredFinite, PackagesMove, FannedOut
<1> QED
  BY <1>2, <1>3 DEF StoredFinite

-----------------------------------------------------------------------------
(* Mail belongs to someone.                                                *)
LEMMA BelongsStep ==
    MailTypeOK /\ BindingsInv /\ MailIdsBelow /\ MailBelongs /\ MailNext => MailBelongs'
<1> SUFFICES ASSUME MailTypeOK, BindingsInv, MailIdsBelow, MailBelongs, MailNext PROVE MailBelongs'
  OBVIOUS
<1>a. BindingsTypeOK /\ BoundOnce /\ NothingDangles
  BY DEF BindingsInv
<1>n. None \notin Mediators /\ None \notin Dids
  BY PeersAssumption DEF Dids
<1> USE DEF MailBelongs, IsActive, ordinaryVars, replicaVars, mailVars
<1>1. CASE BindOnly
  <2> USE DEF BindOnly
  <2>1. ASSUME NEW n \in Asked, MediateRequest(n) PROVE MailBelongs'
    BY <1>1, <2>1 DEF MediateRequest, GrantMediation
  <2>2. ASSUME NEW o \in Asked, NEW r \in Asked,
               RecipientUpdateCheck(o, r) \/ RecipientUpdateAdd(o, r) \/ RecipientUpdateRemove(o, r)
        PROVE  MailBelongs'
    BY <1>1, <2>2 DEF RecipientUpdateCheck, RecipientUpdateAdd, RecipientUpdateRemove,
       RemoveRecipient
  <2>3. ASSUME NEW a \in Dids, NEW m \in Mediators, AccountRegister(a, m) PROVE MailBelongs'
    <3>1. \A p \in packages : p.account \in Dids
      BY DEF MailTypeOK, Packages
    <3> QED
      BY <1>1, <1>a, <1>n, <2>3, <3>1 DEF AccountRegister, RegisterReplicaAccount,
         BindingsTypeOK
  <2>4. ASSUME NEW a \in Dids, NEW m \in Mediators, NEW d \in Dids, ReplicaAdd(a, m, d)
        PROVE  MailBelongs'
    <3>1. \A x \in deliveries : replicas[x.replica] # None
      OBVIOUS
    <3>2. \A x \in deliveries : x.replica # d
      BY <2>4, <3>1 DEF ReplicaAdd, AddReplica, NotReplicaMediation
    <3>3. \A x \in deliveries : replicas'[x.replica] = replicas[x.replica]
      BY <2>4, <3>2, <1>a DEF ReplicaAdd, AddReplica, BindingsTypeOK
    <3> QED
      BY <1>1, <2>4, <3>3 DEF ReplicaAdd, AddReplica
  <2>5. ASSUME NEW a \in Dids, NEW m \in Mediators, NEW d \in Dids,
               RecipientAdd(a, m, d) \/ RecipientRemove(a, m, d)
        PROVE  MailBelongs'
    BY <1>1, <2>5 DEF RecipientAdd, AddSharedRecipient, RecipientRemove, RemoveSharedRecipient
  <2> QED
    BY <1>1, <2>1, <2>2, <2>3, <2>4, <2>5
<1>2. ASSUME NEW n \in Asked, RevokeMediationAndMail(n) PROVE MailBelongs'
  BY <1>2 DEF RevokeMediationAndMail, RevokeMediation
<1>3. ASSUME NEW a \in Dids, NEW m \in Mediators, DeleteAccountAndMail(a, m) PROVE MailBelongs'
  <2>1. \A p \in packages : p.account \in Dids
    BY DEF MailTypeOK, Packages
  <2>2. \A p \in packages' : p \in packages /\ replicaAccounts'[p.account] # None
    BY <1>3, <1>a, <2>1 DEF DeleteAccountAndMail, AccountDelete, DeleteReplicaAccount,
       BindingsTypeOK
  <2>3. ASSUME NEW x \in deliveries'
        PROVE  \E p \in packages' : /\ x.package = p.id
                                    /\ replicas'[x.replica] # None /\ replicas'[x.replica].state = "active"
                                    /\ replicas'[x.replica].account = p.account
    <3>1. x \in deliveries /\ x.replica \notin Enrolled(a) /\ x.replica \in Dids
      BY <1>3 DEF DeleteAccountAndMail, MailTypeOK, Deliveries
    <3>2. PICK p \in packages : x.package = p.id /\ IsActive(x.replica) /\ replicas[x.replica].account = p.account
      BY <3>1
    <3>3. p \in packages'
      BY <1>3, <3>2, <2>3 DEF DeleteAccountAndMail
    <3>4. replicas'[x.replica] = replicas[x.replica]
      BY <1>3, <3>1 DEF DeleteAccountAndMail, AccountDelete, DeleteReplicaAccount
    <3> QED
      BY <3>2, <3>3, <3>4
  <2> QED
    BY <1>3, <2>2, <2>3 DEF DeleteAccountAndMail, AccountDelete, DeleteReplicaAccount
<1>4. ASSUME NEW a \in Dids, NEW m \in Mediators, NEW d \in Dids, RemoveReplicaAndMail(a, m, d)
      PROVE  MailBelongs'
  <2>1. ASSUME NEW x \in deliveries'
        PROVE  \E p \in packages' : /\ x.package = p.id
                                    /\ replicas'[x.replica] # None /\ replicas'[x.replica].state = "active"
                                    /\ replicas'[x.replica].account = p.account
    <3>1. x \in deliveries /\ x.replica # d /\ x.replica \in Dids
      BY <1>4 DEF RemoveReplicaAndMail, EndDeliveries, MailTypeOK, Deliveries
    <3>2. PICK p \in packages : x.package = p.id /\ IsActive(x.replica) /\ replicas[x.replica].account = p.account
      BY <3>1
    <3>3. p \in packages'
      BY <1>4, <3>1, <3>2 DEF RemoveReplicaAndMail, EndDeliveries, DeliveriesOf
    <3>4. replicas'[x.replica] = replicas[x.replica]
      BY <1>4, <3>1, <1>a DEF RemoveReplicaAndMail, ReplicaRemove, RemoveReplica, BindingsTypeOK
    <3> QED
      BY <3>2, <3>3, <3>4
  <2> QED
    BY <1>4, <2>1 DEF RemoveReplicaAndMail, ReplicaRemove, RemoveReplica, EndDeliveries
<1>5. ASSUME NEW n \in Dids \X Forms, ForwardRoute(n) PROVE MailBelongs'
  BY <1>5 DEF ForwardRoute, bindingVars
<1>6. ASSUME NEW f \in forwards, StoreMessage(f) PROVE MailBelongs'
  BY <1>6 DEF StoreMessage, bindingVars
<1>7. ASSUME NEW f \in forwards, NEW b \in Sizes, NEW t \in Deadlines, FanOut(f, b, t)
      PROVE  MailBelongs'
  <2> DEFINE d == Did(f.next)
  <2>1. d \in Dids
    BY DEF MailTypeOK, Forwards, Names, Did
  <2>2. UNCHANGED bindingVars
    BY <1>7 DEF FanOut
  <2>4. CASE packages' = packages /\ deliveries' = deliveries
    BY <1>7, <2>2, <2>4 DEF FanOut, bindingVars
  <2>5. ASSUME NEW a \in Dids, FannedOut(f, b, t, a) PROVE MailBelongs'
    <3> USE DEF FannedOut, Fanned
    <3>1. replicaAccounts[a] # None
      BY <1>a, <1>n, <2>1, <2>5 DEF AccountsFor, NothingDangles, BindingsTypeOK
    <3>2. ASSUME NEW r \in Targets(d) PROVE IsActive(r) /\ replicas[r].account = a
      <4>1. CASE r = d
        BY <1>a, <2>1, <2>5, <3>2, <4>1, <1>n DEF AccountsFor, Targets, BoundOnce
      <4>2. CASE replicas[r].account = recipients[d]
        <5>1. r \in Dids /\ replicas[r] # None
          BY <3>2 DEF Targets
        <5>2. replicas[r].account \in Dids
          BY <1>a, <5>1 DEF BindingsTypeOK, Enrolments
        <5>3. recipients[d] # None
          BY <4>2, <5>2, <1>n
        <5>4. replicas[d] = None
          BY <1>a, <2>1, <5>3 DEF BoundOnce
        <5>5. recipients[d] = a
          BY <2>5, <5>4 DEF AccountsFor
        <5> QED
          BY <3>2, <4>2, <5>5 DEF Targets
      <4> QED
        BY <3>2, <4>1, <4>2 DEF Targets
    <3>3. \A p \in packages' : replicaAccounts'[p.account] # None
      BY <2>2, <2>5, <3>1 DEF bindingVars
    <3>4. ASSUME NEW x \in deliveries'
          PROVE  \E p \in packages' : /\ x.package = p.id
                                      /\ IsActive(x.replica)
                                      /\ replicas[x.replica].account = p.account
      <4>1. CASE x \in deliveries
        BY <2>5, <4>1
      <4>2. CASE x \notin deliveries
        <5>1. PICK r \in Targets(d) : x = [package |-> FreshId, replica |-> r]
          BY <2>5, <4>2
        <5>2. Fanned(f, b, t, a) \in packages'
          BY <2>5
        <5> QED
          BY <3>2, <5>1, <5>2
      <4> QED
        BY <4>1, <4>2
    <3> QED
      BY <2>2, <2>5, <3>3, <3>4 DEF bindingVars
  <2> QED
    BY <1>7, <1>a, <2>4, <2>5, FannedOne
<1>8. ASSUME NEW r \in Dids, NEW named \in SUBSET deliveries, AcknowledgeDeliveries(r, named)
      PROVE  MailBelongs'
  BY <1>8 DEF AcknowledgeDeliveries, EndDeliveries, DeliveriesOf, bindingVars
<1>9. ASSUME NEW o \in Names, NEW named \in SUBSET messages, DeleteMessages(o, named)
      PROVE  MailBelongs'
  BY <1>9 DEF DeleteMessages, bindingVars
<1>10. CASE PurgeExpired
  BY <1>10 DEF PurgeExpired, bindingVars
<1>11. CASE MailTick
  BY <1>11 DEF MailTick, bindingVars
<1> QED
  BY <1>1, <1>2, <1>3, <1>4, <1>5, <1>6, <1>7, <1>8, <1>9, <1>10, <1>11 DEF MailNext
-----------------------------------------------------------------------------
(* The quotas.                                                             *)

\* What the quotas count only shrinks as time passes and rows end.
LEMMA InboxesStep ==
    MailTypeOK /\ BoundOnce /\ StoredFinite /\ MailWithinQuota /\ MailNext
        => \A o \in Names : Cardinality(Waiting(o))' <= MaxMessages
<1> SUFFICES ASSUME MailTypeOK, BoundOnce, StoredFinite, MailWithinQuota, MailNext, NEW o \in Names
             PROVE  Cardinality(Waiting(o))' <= MaxMessages
  OBVIOUS
<1>1. ClocksMove /\ MessagesMove
  BY MailMoves
<1>n. now \in Nat /\ now' \in Nat /\ now <= now' /\ \A m \in messages : m.expires \in Nat
  BY <1>1 DEF ClocksMove, MailTypeOK, Messages
<1>f. IsFiniteSet(Waiting(o)) /\ Cardinality(Waiting(o)) \in Nat
  BY FS_Subset, FS_CardinalityType DEF Waiting, StoredFinite
<1>q. Cardinality(Waiting(o)) <= MaxMessages /\ MaxMessages \in Nat
  BY MailAssumption DEF MailWithinQuota
<1>2. ASSUME Waiting(o)' \subseteq Waiting(o) PROVE Cardinality(Waiting(o)') <= MaxMessages
  <2>1. Cardinality(Waiting(o)') <= Cardinality(Waiting(o)) /\ Cardinality(Waiting(o)') \in Nat
    BY <1>2, <1>f, FS_Subset, FS_CardinalityType
  <2> QED
    BY <1>f, <1>q, <2>1
<1>3. CASE messages' \subseteq messages
  <2>1. Waiting(o)' \subseteq Waiting(o)
    BY <1>n, <1>3 DEF Waiting
  <2> QED
    BY <1>2, <2>1
<1>4. ASSUME NEW f \in forwards, StoredOne(f) PROVE Cardinality(Waiting(o)') <= MaxMessages
  <2> DEFINE m == [id |-> FreshId, owner |-> f.owner, expires |-> now + Ttl]
  <2>1. CASE o # f.owner
    <3>1. Waiting(o)' \subseteq Waiting(o)
      BY <1>4, <2>1 DEF Waiting, StoredOne
    <3> QED
      BY <1>2, <3>1
  <2>2. CASE o = f.owner
    <3>1. Waiting(o)' \subseteq Waiting(o) \cup {m}
      BY <1>4 DEF Waiting, StoredOne
    <3> HIDE DEF m
    <3>2. /\ IsFiniteSet(Waiting(o) \cup {m})
          /\ Cardinality(Waiting(o) \cup {m}) <= Cardinality(Waiting(o)) + 1
          /\ Cardinality(Waiting(o) \cup {m}) \in Nat
      <4> DEFINE W == Waiting(o)
      <4> HIDE DEF W
      <4>1. IsFiniteSet(W \cup {m}) /\ Cardinality(W \cup {m}) \in Nat
        BY <1>f, FS_AddElement, FS_CardinalityType DEF W
      <4>2. CASE m \in W
        <5>1. Cardinality(W \cup {m}) = Cardinality(W)
          BY <1>f, <4>2, FS_AddElement DEF W
        <5> QED
          BY <1>f, <4>1, <5>1 DEF W
      <4>3. CASE m \notin W
        <5>1. Cardinality(W \cup {m}) = Cardinality(W) + 1
          BY <1>f, <4>3, FS_AddElement DEF W
        <5> QED
          BY <1>f, <4>1, <5>1 DEF W
      <4> QED
        BY <4>2, <4>3
    <3>3. Cardinality(Waiting(o)') <= Cardinality(Waiting(o) \cup {m}) /\ Cardinality(Waiting(o)') \in Nat
      BY <3>1, <3>2, FS_Subset, FS_CardinalityType
    <3>4. Cardinality(Waiting(o)) < MaxMessages
      BY <1>4, <2>2 DEF StoredOne, InboxRoom
    <3> QED
      BY <1>f, <1>q, <3>2, <3>3, <3>4
  <2> QED
    BY <2>1, <2>2
<1> QED
  BY <1>1, <1>3, <1>4 DEF MessagesMove

(* The bytes of some packages, in whatever larger collection they are.     *)
BytesOf(S) == SumFunctionOnSet([p \in S |-> p.bytes], S)

(* The bytes of a finite set of packages: a number, less for fewer, more   *)
(* by each one added.                                                      *)
LEMMA BytesFacts ==
    ASSUME NEW S, IsFiniteSet(S), \A p \in S : p.bytes \in Nat
    PROVE  /\ BytesOf(S) \in Nat
           /\ \A T \in SUBSET S : BytesOf(T) \in Nat /\ BytesOf(T) <= BytesOf(S)
           /\ \A p : p \notin S /\ p.bytes \in Nat => BytesOf(S \cup {p}) = BytesOf(S) + p.bytes
<1> DEFINE F(T) == [p \in T |-> p.bytes]
<1>1. BytesOf(S) \in Nat
  BY SumType DEF BytesOf
<1>2. ASSUME NEW T \in SUBSET S PROVE BytesOf(T) \in Nat /\ BytesOf(T) <= BytesOf(S)
  <2>1. IsFiniteSet(T) /\ \A p \in T : F(T)[p] = F(S)[p] /\ F(T)[p] \in Nat
    BY FS_Subset
  <2>2. SumFunctionOnSet(F(T), T) = SumFunctionOnSet(F(S), T)
    BY <2>1, SumSame
  <2>3. SumFunctionOnSet(F(S), T) <= SumFunctionOnSet(F(S), S)
    <3>1. \A p \in S : F(S)[p] \in Nat
      OBVIOUS
    <3> HIDE DEF F
    <3> QED
      BY <3>1, SumMonotone
  <2>4. SumFunctionOnSet(F(T), T) \in Nat
    BY <2>1, SumType
  <2> QED
    BY <2>2, <2>3, <2>4 DEF BytesOf
<1>3. ASSUME NEW p, p \notin S, p.bytes \in Nat PROVE BytesOf(S \cup {p}) = BytesOf(S) + p.bytes
  <2>1. \A q \in S \cup {p} : F(S \cup {p})[q] = q.bytes /\ q.bytes \in Nat
    BY <1>3
  <2>2. \A q \in S : F(S)[q] = F(S \cup {p})[q] /\ F(S)[q] \in Nat
    BY <2>1
  <2> DEFINE g == F(S \cup {p})
  <2>3. g[p] = p.bytes /\ \A q \in S : g[q] \in Nat
    BY <2>1
  <2>4. SumFunctionOnSet(F(S), S) = SumFunctionOnSet(g, S)
    <3> HIDE DEF F, g
    <3> QED
      BY <2>2, SumSame DEF g
  <2>5. SumFunctionOnSet(g, S \cup {p}) = g[p] + SumFunctionOnSet(g, S)
    <3> HIDE DEF g
    <3> QED
      BY <1>3, <2>3, SumAdd
  <2>6. BytesOf(S) = SumFunctionOnSet(g, S) /\ BytesOf(S \cup {p}) = SumFunctionOnSet(g, S \cup {p})
    BY <2>4 DEF BytesOf
  <2> HIDE DEF g
  <2> QED
    BY <1>1, <1>3, <2>3, <2>5, <2>6
<1> QED
  BY <1>1, <1>2, <1>3

(* The quotas of an account hold after every step.                         *)
LEMMA PackagesStep ==
    MailTypeOK /\ BoundOnce /\ MailIdsBelow /\ StoredFinite /\ MailWithinQuota /\ MailNext
        => \A a \in Dids : /\ Cardinality(Retained(a))' <= MaxMessages
                            /\ RetainedBytes(a)' <= MaxRetainedBytes
<1> SUFFICES ASSUME MailTypeOK, BoundOnce, MailIdsBelow, StoredFinite, MailWithinQuota, MailNext, NEW a \in Dids
             PROVE  Cardinality(Retained(a)') <= MaxMessages /\ BytesOf(Retained(a)') <= MaxRetainedBytes
  BY DEF RetainedBytes, BytesOf
<1>1. ClocksMove /\ PackagesMove
  BY MailMoves
<1>n. now \in Nat /\ now' \in Nat /\ now <= now' /\ nextId \in Nat
  BY <1>1 DEF ClocksMove, MailTypeOK
<1>p. \A p \in packages : p.expires \in Nat /\ p.bytes \in Nat /\ p.id < nextId
  BY DEF MailTypeOK, Packages, MailIdsBelow
<1>f. IsFiniteSet(Retained(a)) /\ Cardinality(Retained(a)) \in Nat
  BY FS_Subset, FS_CardinalityType DEF Retained, StoredFinite
<1>b. \A p \in Retained(a) : p.bytes \in Nat
  BY <1>p DEF Retained
<1>q. /\ Cardinality(Retained(a)) <= MaxMessages /\ BytesOf(Retained(a)) <= MaxRetainedBytes
      /\ BytesOf(Retained(a)) \in Nat /\ MaxMessages \in Nat /\ MaxRetainedBytes \in Nat
  BY <1>f, <1>b, BytesFacts, MailAssumption DEF MailWithinQuota, RetainedBytes, BytesOf
<1>2. ASSUME Retained(a)' \subseteq Retained(a)
      PROVE  Cardinality(Retained(a)') <= MaxMessages /\ BytesOf(Retained(a)') <= MaxRetainedBytes
  <2>1. Cardinality(Retained(a)') <= Cardinality(Retained(a)) /\ Cardinality(Retained(a)') \in Nat
    BY <1>2, <1>f, FS_Subset, FS_CardinalityType
  <2>2. BytesOf(Retained(a)') <= BytesOf(Retained(a)) /\ BytesOf(Retained(a)') \in Nat
    BY <1>2, <1>f, <1>b, BytesFacts
  <2> QED
    BY <1>f, <1>q, <2>1, <2>2
<1>3. CASE packages' \subseteq packages
  <2>1. Retained(a)' \subseteq Retained(a)
    BY <1>n, <1>p, <1>3 DEF Retained
  <2> QED
    BY <1>2, <2>1
<1>4. ASSUME NEW f \in forwards, NEW b \in Sizes, NEW t \in Deadlines, NEW c \in Dids,
             FannedOut(f, b, t, c)
      PROVE  Cardinality(Retained(a)') <= MaxMessages /\ BytesOf(Retained(a)') <= MaxRetainedBytes
  <2> DEFINE p == Fanned(f, b, t, c)
  <2>0. packages' = packages \cup {p} /\ now' = now
    BY <1>4 DEF FannedOut
  <2>1. CASE a # c
    <3>1. Retained(a)' \subseteq Retained(a)
      BY <2>0, <2>1 DEF Retained, Fanned
    <3> QED
      BY <1>2, <3>1
  <2>2. CASE a = c
    <3>1. Retained(a)' \subseteq Retained(a) \cup {p}
      BY <2>0 DEF Retained
    <3>2. p.bytes = b /\ b \in Nat /\ p.id = nextId
      BY MailAssumption DEF Fanned, FreshId
    <3>3. p \notin Retained(a)
      BY <1>n, <1>p, <3>2 DEF Retained
    <3>4. Cardinality(Retained(a)) < MaxMessages /\ BytesOf(Retained(a)) + b <= MaxRetainedBytes
      BY <1>4, <2>2 DEF FannedOut, HasRoom, RetainedBytes, BytesOf
    <3> HIDE DEF p
    <3> DEFINE R == Retained(a) \cup {p}
    <3>5. IsFiniteSet(R) /\ Cardinality(R) = Cardinality(Retained(a)) + 1
      BY <1>f, <3>3, FS_AddElement
    <3>6. BytesOf(R) = BytesOf(Retained(a)) + b
      BY <1>f, <1>b, <3>2, <3>3, BytesFacts
    <3>7. \A x \in R : x.bytes \in Nat
      BY <1>b, <3>2
    <3> HIDE DEF R
    <3>8. Retained(a)' \in SUBSET R
      BY <3>1 DEF R
    <3>9. Cardinality(Retained(a)') <= Cardinality(R) /\ Cardinality(Retained(a)') \in Nat
      BY <3>5, <3>8, FS_Subset, FS_CardinalityType
    <3>10. BytesOf(Retained(a)') <= BytesOf(R) /\ BytesOf(Retained(a)') \in Nat
      BY <3>5, <3>7, <3>8, BytesFacts
    <3> QED
      BY <1>f, <1>q, <3>2, <3>4, <3>5, <3>6, <3>9, <3>10
  <2> QED
    BY <2>1, <2>2
<1> QED
  BY <1>1, <1>3, <1>4 DEF PackagesMove

-----------------------------------------------------------------------------
(* The inductive invariant.                                                *)
LEMMA MailStarts == MailInit => MailInv
<1> SUFFICES ASSUME MailInit PROVE MailInv
  OBVIOUS
<1>1. BindingsInv
  BY DEF MailInit, BindingsInv, BindingsInit, BindingsTypeOK, BoundOnce, NothingDangles,
     NotOrdinary,
         NotReplicaMediation, NotSharedRecipient
<1>2. MailTypeOK /\ MailIdsBelow /\ MailBelongs
  BY <1>1 DEF MailInit, MailTypeOK, BindingsInv, MailIdsBelow, MailBelongs
<1>3. StoredFinite
  BY FS_EmptySet DEF MailInit, StoredFinite
<1>4. MailWithinQuota
  <2>1. \A a : Retained(a) = {} /\ Waiting(a) = {}
    BY DEF MailInit, Retained, Waiting
  <2>2. Cardinality({}) = 0
    BY FS_EmptySet
  <2>3. \A a : RetainedBytes(a) = 0
    BY <2>1, SumEmpty DEF RetainedBytes
  <2>4. ASSUME NEW o PROVE Cardinality(Waiting(o)) <= MaxMessages
    BY <2>1, <2>2, MailAssumption
  <2>5. ASSUME NEW a PROVE Cardinality(Retained(a)) <= MaxMessages /\ RetainedBytes(a) <= MaxRetainedBytes
    BY <2>1, <2>2, <2>3, MailAssumption
  <2> QED
    BY <2>4, <2>5 DEF MailWithinQuota
<1> QED
  BY <1>1, <1>2, <1>3, <1>4 DEF MailInv

(* Every step keeps the mail's invariant.                                  *)
LEMMA MailStep == MailInv /\ [MailNext]_allMailVars => MailInv'
<1> SUFFICES ASSUME MailInv, [MailNext]_allMailVars PROVE MailInv'
  OBVIOUS
<1> USE DEF MailInv
<1>1. CASE MailNext
  <2>1. BoundOnce
    BY DEF BindingsInv
  <2>2. MailTypeOK' /\ BindingsInv'
    BY <1>1, MailTypeStep, BindingsInvStep
  <2>3. MailIdsBelow' /\ StoredFinite' /\ MailBelongs'
    BY <1>1, <2>1, MailIdsStep, FiniteStep, BelongsStep
  <2>4. MailWithinQuota'
    BY <1>1, <2>1, InboxesStep, PackagesStep DEF MailWithinQuota
  <2> QED
    BY <2>2, <2>3, <2>4
<1>2. CASE UNCHANGED allMailVars
  BY <1>2 DEF allMailVars, mailVars, bindingVars, MailTypeOK, BindingsTypeOK, BindingsInv,
     BoundOnce, NothingDangles,
              NotOrdinary, NotReplicaMediation, NotSharedRecipient, MailIdsBelow, StoredFinite,
              MailBelongs, IsActive, MailWithinQuota, Waiting, Retained, RetainedBytes
<1> QED
  BY <1>1, <1>2

(* In every behaviour what is stored is typed, numbered, of someone and    *)
(* within the quotas (routing.ts, sql-store.ts storeMessage).              *)
THEOREM MailInvariant == MailSpec => []MailInv
BY MailStarts, MailStep, PTL DEF MailSpec

(* Queues, deliveries and forwards keep their types (sql-store.ts).        *)
THEOREM MailTypeCorrect == MailSpec => []MailTypeOK
<1>1. MailInv => MailTypeOK
  BY DEF MailInv
<1> QED
  BY <1>1, MailInvariant, PTL

(* Mail belongs to someone and the quotas hold, in every behaviour of      *)
(* every set of accounts, replicas, sizes and limits.                      *)
THEOREM MailSoundness == MailSpec => []MailSound
<1>1. MailInv => MailSound
  BY DEF MailInv, MailSound
<1> QED
  BY <1>1, MailInvariant, PTL

(* Deliveries come with their package, for exactly the replicas active     *)
(* when it was accepted.                                                   *)
THEOREM MailTargets == MailSpec => TargetsAtAcceptance
<1> DEFINE A == /\ \A x \in deliveries' \ deliveries : \A p \in packages : p.id # x.package
                /\ \A p \in packages' \ packages :
                      recipients[p.next] # None =>
                        {x.replica : x \in {y \in deliveries' : y.package = p.id}} = ActiveOf(p.account)
<1>1. MailInv /\ [MailNext]_allMailVars => A
  <2> SUFFICES ASSUME MailInv, [MailNext]_allMailVars PROVE A
    OBVIOUS
  <2> USE DEF MailInv
  <2>b. BindingsTypeOK /\ BoundOnce
    BY DEF BindingsInv
  <2>n. nextId \in Nat /\ (\A p \in packages : p.id \in Nat /\ p.id < nextId)
        /\ (\A x \in deliveries : x.package \in Nat /\ x.package < nextId)
    BY DEF MailTypeOK, Packages, Deliveries, MailIdsBelow
  <2>m. None \notin Dids
    BY PeersAssumption DEF Dids
  <2>1. CASE packages' \subseteq packages /\ deliveries' \subseteq deliveries
    BY <2>1
  <2>2. ASSUME NEW f \in forwards, NEW b \in Sizes, NEW t \in Deadlines, NEW a \in Dids,
               FannedOut(f, b, t, a)
        PROVE  A
    <3> DEFINE d == Did(f.next)
               q == Fanned(f, b, t, a)
    <3>0. d \in Dids
      BY DEF MailTypeOK, Forwards, Names, Did
    <3>1. packages' = packages \cup {q} /\ q.id = nextId /\ q.next = d /\ q.account = a
      BY <2>2 DEF FannedOut, Fanned, FreshId
    <3>2. deliveries' = deliveries \cup {[package |-> nextId, replica |-> r] : r \in Targets(d)}
      BY <2>2 DEF FannedOut, FreshId
    <3>3. \A x \in deliveries' \ deliveries : \A p \in packages : p.id # x.package
      BY <3>2, <2>n
    <3>4. {x.replica : x \in {y \in deliveries' : y.package = nextId}} = Targets(d)
      <4>1. \A y \in deliveries' :
               y.package = nextId <=> \E r \in Targets(d) : y = [package |-> nextId, replica |-> r]
        BY <3>2, <2>n
      <4>2. \A r \in Targets(d) : [package |-> nextId, replica |-> r] \in deliveries'
        BY <3>2
      <4> DEFINE S == {y \in deliveries' : y.package = nextId}
      <4>3. \A y \in S : y.replica \in Targets(d)
        BY <4>1
      <4>4. \A r \in Targets(d) : \E y \in S : y.replica = r
        <5>1. ASSUME NEW r \in Targets(d) PROVE \E y \in S : y.replica = r
          <6>1. [package |-> nextId, replica |-> r] \in S
            BY <4>2
          <6> QED
            BY <6>1
        <5> QED
          BY <5>1
      <4> HIDE DEF S
      <4>5. {x.replica : x \in S} = Targets(d)
        BY <4>3, <4>4
      <4> QED
        BY <4>5 DEF S
    <3>5. ASSUME recipients[d] # None PROVE Targets(d) = ActiveOf(a)
      <4>1. replicas[d] = None
        BY <2>b, <3>0, <3>5 DEF BoundOnce
      <4>2. recipients[d] = a
        BY <2>2, <4>1 DEF FannedOut, AccountsFor, IsActive
      <4> QED
        BY <4>1, <4>2 DEF Targets, ActiveOf, Enrolled, IsActive
    <3> HIDE DEF q
    <3> QED
      BY <3>1, <3>3, <3>4, <3>5
  <2> QED
    BY <2>b, <2>1, <2>2, MailMoves DEF PackagesMove, allMailVars, mailVars
<1> QED
  BY <1>1, MailInvariant, PTL DEF MailSpec, TargetsAtAcceptance

-----------------------------------------------------------------------------
(***************************************************************************)
(* Blobs: what is served has its bytes, live blobs stay within the quota,  *)
(* and the bindings under them behave as MediatorBindings says.            *)
(***************************************************************************)

\* A row is the only one of its id, and of its owner and hash.
KeptOnce ==
    \A b, c \in blobs : b.id = c.id \/ (b.owner = c.owner /\ b.hash = c.hash) => b = c

\* Ids are handed out once: whatever names a blob has an id given before.
BlobIdsBelow ==
    /\ \A b \in blobs : b.id < nextBlob
    /\ \A id \in ended \cup deleting : id < nextBlob
    /\ \A t \in tokens \cup granting \cup uploads : t.blob < nextBlob

\* What is to be deleted from the storage has no row any more.
GoneIsGone == \A b \in blobs : b.id \notin ended \cup deleting

\* An upload that stored its bytes finds them there, or no row to mark.
StoredKept ==
    \A u \in uploads : u.stored => u.blob \in bytes \/ \A b \in blobs : b.id # u.blob

BlobsInv ==
    /\ BlobsTypeOK
    /\ IsFiniteSet(blobs)
    /\ KeptOnce
    /\ BlobIdsBelow
    /\ GoneIsGone
    /\ StoredKept
    /\ UploadedHasBytes
    /\ BlobsWithinQuota

-----------------------------------------------------------------------------
(* What a step does to the bindings is a request of MediatorBindings.      *)
LEMMA BlobsBindsAsBindings == BlobsNext => [BindingsNext]_bindingVars
<1> SUFFICES ASSUME BlobsNext PROVE [BindingsNext]_bindingVars
  OBVIOUS
<1> USE DEF BindingsNext, OrdinaryNext, ReplicaNext
<1>1. ASSUME NEW n \in Asked, RevokeMediationAndBlobs(n) PROVE BindingsNext
  BY <1>1 DEF RevokeMediationAndBlobs
<1>2. ASSUME NEW a \in Dids, NEW m \in Mediators, DeleteAccountAndBlobs(a, m) PROVE BindingsNext
  BY <1>2 DEF DeleteAccountAndBlobs
<1>3. ASSUME NEW a \in Dids, NEW m \in Mediators, NEW d \in Dids, RemoveReplicaAndBlobs(a, m, d)
      PROVE  BindingsNext
  BY <1>3 DEF RemoveReplicaAndBlobs
<1>4. CASE BindKeepingBlobs
  BY <1>4 DEF BindKeepingBlobs
<1>5. ASSUME NEW o \in Names, NEW h \in Hashes, DropBlob(o, h) PROVE UNCHANGED bindingVars
  BY <1>5 DEF DropBlob
<1>6. ASSUME NEW o \in Names, NEW h \in Hashes, NEW s \in BlobSizes, Put(o, h, s)
      PROVE  UNCHANGED bindingVars
  BY <1>6 DEF Put
<1>7. ASSUME NEW g \in granting, GrantUpload(g) PROVE UNCHANGED bindingVars
  BY <1>7 DEF GrantUpload
<1>8. ASSUME NEW t \in tokens, ClaimUpload(t) PROVE UNCHANGED bindingVars
  BY <1>8 DEF ClaimUpload
<1>9. ASSUME NEW u \in uploads, StoragePut(u) \/ StorageMismatch(u) \/ MarkUploaded(u)
      PROVE  UNCHANGED bindingVars
  BY <1>9 DEF StoragePut, StorageMismatch, MarkUploaded
<1>10. CASE PurgeBlobs
  BY <1>10 DEF PurgeBlobs
<1>11. ASSUME NEW id \in deleting, StorageDelete(id) PROVE UNCHANGED bindingVars
  BY <1>11 DEF StorageDelete
<1>12. CASE Crash \/ BlobsTick
  BY <1>12 DEF Crash, BlobsTick
<1> HIDE DEF BindingsNext
<1> QED
  BY <1>1, <1>2, <1>3, <1>4, <1>5, <1>6, <1>7, <1>8, <1>9, <1>10, <1>11, <1>12
     DEF BlobsNext, BlobRequests

(* The mediator's blobs implement its bindings: all that is proved of      *)
(* BindingsSpec holds while puts, uploads and deletions go on beside.      *)
THEOREM BlobsImplementsBindings == BlobsSpec => BindingsSpec
<1>1. BlobsInit => BindingsInit
  BY DEF BlobsInit
<1>2. [BlobsNext]_allBlobVars => [BindingsNext]_bindingVars
  BY BlobsBindsAsBindings DEF allBlobVars, bindingVars
<1> QED
  BY <1>1, <1>2, PTL DEF BlobsSpec, BindingsSpec

-----------------------------------------------------------------------------
(* What a step does to the rows: it loses some, keeps a new one, or puts   *)
(* one in another's place.                                                 *)
LosesRows == blobs' \subseteq blobs /\ nextBlob' = nextBlob /\ now' \in {now, now + 1}

KeepsNew(c) ==
    /\ c \in BlobRows
    /\ c.id = nextBlob
    /\ ~c.uploaded
    /\ BlobOf(c.owner, c.hash) = {}
    /\ Room(c.owner, c.size)
    /\ blobs' = blobs \cup {c}
    /\ nextBlob' = nextBlob + 1
    /\ now' = now

\* A row's retention is renewed, past it only if the size fits; or it is marked.
Replaces(b, c) ==
    /\ c \in BlobRows
    /\ c.id = b.id /\ c.owner = b.owner /\ c.hash = b.hash /\ c.size = b.size
    /\ b.retainUntil > now \/ Room(b.owner, b.size) \/ c.retainUntil = b.retainUntil
    /\ blobs' = (blobs \ {b}) \cup {c}
    /\ nextBlob' = nextBlob
    /\ now' = now

RowsMove ==
    \/ LosesRows
    \/ \E c : KeepsNew(c)
    \/ \E b \in blobs, c \in BlobRows : Replaces(b, c)

(* A put keeps a new row, or renews the one there is.                      *)
LEMMA PutMoves ==
    ASSUME BlobsTypeOK, KeptOnce, NEW o \in Names, NEW h \in Hashes, NEW s \in BlobSizes, Put(o, h, s)
    PROVE  (\E c : KeepsNew(c)) \/ (\E b \in blobs, c \in BlobRows : Replaces(b, c))
<1>n. /\ now \in Nat /\ nextBlob \in Nat /\ Retain \in Nat /\ s \in Nat /\ now + Retain \in Nat
      /\ blobs \subseteq BlobRows
  BY BlobsAssumption DEF BlobsTypeOK
<1>1. CASE BlobOf(o, h) = {}
  <2> DEFINE c == [id |-> nextBlob, owner |-> o, hash |-> h, size |-> s,
                   uploaded |-> FALSE, retainUntil |-> now + Retain]
  <2>1. Room(o, s) /\ KeepBlob(o, h, s) = {c}
    BY <1>1 DEF Put, KeepBlob
  <2>2. blobs' = blobs \cup {c} /\ nextBlob' = nextBlob + 1 /\ now' = now
    BY <1>1, <1>n, <2>1 DEF Put
  <2>3. c \in BlobRows
    BY <1>n DEF BlobRows
  <2>4. c.id = nextBlob /\ ~c.uploaded /\ c.owner = o /\ c.hash = h /\ c.size = s
    OBVIOUS
  <2> HIDE DEF c
  <2>5. KeepsNew(c)
    BY <1>1, <2>1, <2>2, <2>3, <2>4 DEF KeepsNew
  <2> QED
    BY <2>5
<1>2. CASE BlobOf(o, h) # {}
  <2>1. PICK b \in BlobOf(o, h) : Renews(b, s)
    BY <1>2 DEF Put, KeepBlob
  <2>2. b \in blobs /\ b \in BlobRows /\ b.owner = o /\ b.hash = h
    BY <1>n DEF BlobOf
  <2>3. BlobOf(o, h) = {b}
    BY <2>2 DEF KeptOnce, BlobOf
  <2> DEFINE c == [b EXCEPT !.retainUntil = Later(b.retainUntil, now + Retain)]
  <2>4. KeepBlob(o, h, s) = {c}
    BY <1>2, <2>1, <2>3 DEF KeepBlob
  <2>5. blobs' = (blobs \ {b}) \cup {c} /\ nextBlob' = nextBlob /\ now' = now
    BY <1>2, <1>n, <2>3, <2>4 DEF Put
  <2>6. Later(b.retainUntil, now + Retain) \in Nat
    BY <1>n, <2>2 DEF Later, BlobRows
  <2>7. c \in BlobRows /\ c.id = b.id /\ c.owner = b.owner /\ c.hash = b.hash /\ c.size = b.size
    BY <2>2, <2>6 DEF BlobRows
  <2>8. b.retainUntil > now \/ Room(b.owner, b.size)
    BY <2>1 DEF Renews
  <2> HIDE DEF c
  <2>9. Replaces(b, c)
    BY <2>5, <2>7, <2>8 DEF Replaces
  <2> QED
    BY <2>2, <2>7, <2>9
<1> QED
  BY <1>1, <1>2

(* Marking is of the one row of the blob, if it still has one.             *)
LEMMA MarkMoves ==
    ASSUME BlobsTypeOK, KeptOnce, NEW u \in uploads, MarkUploaded(u)
    PROVE  \/ LosesRows /\ blobs' = blobs /\ \A b \in blobs : b.id # u.blob
           \/ \E b \in blobs, c \in BlobRows : b.id = u.blob /\ Replaces(b, c)
<1>1. nextBlob' = nextBlob /\ now' = now /\ blobs \subseteq BlobRows
  BY DEF MarkUploaded, BlobsTypeOK
<1> DEFINE Marked(b) == IF b.id = u.blob THEN [b EXCEPT !.uploaded = TRUE] ELSE b
<1>2. blobs' = {Marked(b) : b \in blobs}
  BY DEF MarkUploaded
<1>3. CASE \A b \in blobs : b.id # u.blob
  <2>1. blobs' = blobs
    BY <1>2, <1>3
  <2> QED
    BY <1>1, <1>3, <2>1 DEF LosesRows
<1>4. ASSUME NEW b \in blobs, b.id = u.blob
      PROVE  \E x \in blobs, c \in BlobRows : x.id = u.blob /\ Replaces(x, c)
  <2> DEFINE c == [b EXCEPT !.uploaded = TRUE]
  <2>1. /\ c \in BlobRows /\ c.id = b.id /\ c.owner = b.owner /\ c.hash = b.hash /\ c.size = b.size
        /\ c.retainUntil = b.retainUntil
    BY <1>1 DEF BlobRows
  <2>2. Marked(b) = c /\ \A x \in blobs \ {b} : Marked(x) = x
    BY <1>4 DEF KeptOnce
  <2> HIDE DEF c, Marked
  <2>3. blobs' = (blobs \ {b}) \cup {c}
    BY <1>2, <2>2
  <2>4. Replaces(b, c)
    BY <1>1, <2>1, <2>3 DEF Replaces
  <2> QED
    BY <1>4, <2>1, <2>4
<1> QED
  BY <1>3, <1>4

(* A step loses rows, adds one there was room for, or replaces one by      *)
(* another of its id, owner and size.                                      *)
LEMMA RowsMoves == BlobsTypeOK /\ KeptOnce /\ BlobsNext => RowsMove
<1> SUFFICES ASSUME BlobsTypeOK, KeptOnce, BlobsNext PROVE RowsMove
  OBVIOUS
<1> USE DEF LosesRows, TakeOut, EndBlobs
<1>1. ASSUME NEW n \in Asked, RevokeMediationAndBlobs(n) PROVE LosesRows
  BY <1>1 DEF RevokeMediationAndBlobs
<1>2. ASSUME NEW a \in Dids, NEW m \in Mediators, DeleteAccountAndBlobs(a, m) PROVE LosesRows
  BY <1>2 DEF DeleteAccountAndBlobs
<1>3. ASSUME NEW a \in Dids, NEW m \in Mediators, NEW d \in Dids, RemoveReplicaAndBlobs(a, m, d)
      PROVE  LosesRows
  BY <1>3 DEF RemoveReplicaAndBlobs
<1>4. CASE BindKeepingBlobs
  BY <1>4 DEF BindKeepingBlobs, blobVars, RowsMove
<1>5. ASSUME NEW o \in Names, NEW h \in Hashes, DropBlob(o, h) PROVE LosesRows
  BY <1>5 DEF DropBlob
<1>6. ASSUME NEW o \in Names, NEW h \in Hashes, NEW s \in BlobSizes, Put(o, h, s) PROVE RowsMove
  BY <1>6, PutMoves DEF RowsMove
<1>7. ASSUME NEW g \in granting, GrantUpload(g) PROVE LosesRows
  BY <1>7 DEF GrantUpload
<1>8. ASSUME NEW t \in tokens, ClaimUpload(t) PROVE LosesRows
  BY <1>8 DEF ClaimUpload
<1>9. ASSUME NEW u \in uploads, StoragePut(u) \/ StorageMismatch(u) PROVE LosesRows
  BY <1>9 DEF StoragePut, StorageMismatch, tableVars
<1>10. ASSUME NEW u \in uploads, MarkUploaded(u) PROVE RowsMove
  <2> HIDE DEF LosesRows, TakeOut, EndBlobs
  <2>1. LosesRows \/ \E b \in blobs, c \in BlobRows : Replaces(b, c)
    BY <1>10, MarkMoves
  <2> QED
    BY <2>1 DEF RowsMove
<1>11. CASE PurgeBlobs
  BY <1>11 DEF PurgeBlobs, RowsMove
<1>12. ASSUME NEW id \in deleting, StorageDelete(id) PROVE LosesRows
  BY <1>12 DEF StorageDelete, tableVars
<1>13. CASE Crash \/ BlobsTick
  BY <1>13 DEF Crash, BlobsTick, tableVars, RowsMove
<1> HIDE DEF LosesRows
<1> QED
  BY <1>1, <1>2, <1>3, <1>4, <1>5, <1>6, <1>7, <1>8, <1>9, <1>10, <1>11, <1>12, <1>13
     DEF BlobsNext, BlobRequests, RowsMove

-----------------------------------------------------------------------------
(* Types.                                                                  *)
LEMMA RowsTypeStep ==
    BlobsTypeOK /\ RowsMove => blobs' \in SUBSET BlobRows /\ nextBlob' \in Nat /\ now' \in Nat
<1> SUFFICES ASSUME BlobsTypeOK, RowsMove
             PROVE  blobs' \in SUBSET BlobRows /\ nextBlob' \in Nat /\ now' \in Nat
  OBVIOUS
<1>1. nextBlob \in Nat /\ now \in Nat /\ blobs \subseteq BlobRows
  BY DEF BlobsTypeOK
<1> QED
  BY <1>1 DEF RowsMove, LosesRows, KeepsNew, Replaces

(* What a step leaves of the ids under way, beside the rows.               *)
IdsTypeOK ==
    /\ nextToken \in Nat
    /\ ended \in SUBSET Nat
    /\ tokens \in SUBSET [token : Nat, blob : Nat, expires : Nat]
    /\ bytes \in SUBSET Nat
    /\ granting \in SUBSET [blob : Nat, expires : Nat]
    /\ uploads \in SUBSET [token : Nat, blob : Nat, stored : BOOLEAN]
    /\ deleting \in SUBSET Nat

(* The types under every step, the ids' first.                             *)
LEMMA IdsTypeStep == BlobsTypeOK /\ KeptOnce /\ BlobsNext => IdsTypeOK'
<1> SUFFICES ASSUME BlobsTypeOK, KeptOnce, BlobsNext PROVE IdsTypeOK'
  OBVIOUS
<1>i. IdsTypeOK /\ now \in Nat /\ GrantTime \in Nat /\ \A b \in blobs : b.id \in Nat
  BY BlobsAssumption DEF BlobsTypeOK, IdsTypeOK, BlobRows
<1> USE <1>i DEF IdsTypeOK, TakeOut, EndBlobs, requestVars, tableVars
<1>1. ASSUME NEW n \in Asked, RevokeMediationAndBlobs(n) PROVE IdsTypeOK'
  BY <1>1 DEF RevokeMediationAndBlobs
<1>2. ASSUME NEW a \in Dids, NEW m \in Mediators, DeleteAccountAndBlobs(a, m) PROVE IdsTypeOK'
  BY <1>2 DEF DeleteAccountAndBlobs
<1>3. ASSUME NEW a \in Dids, NEW m \in Mediators, NEW d \in Dids, RemoveReplicaAndBlobs(a, m, d)
      PROVE  IdsTypeOK'
  BY <1>3 DEF RemoveReplicaAndBlobs
<1>4. CASE BindKeepingBlobs
  BY <1>4 DEF BindKeepingBlobs, blobVars
<1>5. ASSUME NEW o \in Names, NEW h \in Hashes, DropBlob(o, h) PROVE IdsTypeOK'
  BY <1>5 DEF DropBlob, BlobOf
<1>6. ASSUME NEW o \in Names, NEW h \in Hashes, NEW s \in BlobSizes, Put(o, h, s) PROVE IdsTypeOK'
  <2>1. \A b \in KeepBlob(o, h, s) : b \in blobs'
    BY <1>6 DEF Put
  <2>2. blobs' \in SUBSET BlobRows
    BY <1>6, PutMoves, RowsTypeStep DEF RowsMove
  <2>3. \A b \in KeepBlob(o, h, s) : b.id \in Nat
    BY <2>1, <2>2 DEF BlobRows
  <2>4. now + GrantTime \in Nat
    OBVIOUS
  <2> QED
    BY <1>6, <2>3, <2>4 DEF Put
<1>7. ASSUME NEW g \in granting, GrantUpload(g) PROVE IdsTypeOK'
  <2>1. /\ granting' \subseteq granting /\ g.blob \in Nat /\ g.expires \in Nat
        /\ UNCHANGED <<ended, bytes, uploads, deleting>>
    BY <1>7 DEF GrantUpload
  <2>2. nextToken' \in Nat
    BY <1>7 DEF GrantUpload
  <2>3. tokens' \subseteq tokens \cup {[token |-> nextToken, blob |-> g.blob, expires |-> g.expires]}
    BY <1>7 DEF GrantUpload
  <2> QED
    BY <2>1, <2>2, <2>3
<1>8. ASSUME NEW t \in tokens, ClaimUpload(t) PROVE IdsTypeOK'
  <2>1. /\ tokens' \subseteq tokens /\ t.token \in Nat /\ t.blob \in Nat
        /\ UNCHANGED <<nextToken, ended, bytes, granting, deleting>>
    BY <1>8 DEF ClaimUpload
  <2>2. uploads' \subseteq uploads \cup {[token |-> t.token, blob |-> t.blob, stored |-> FALSE]}
    BY <1>8 DEF ClaimUpload
  <2>3. [token |-> t.token, blob |-> t.blob, stored |-> FALSE] \in [token : Nat, blob : Nat, stored : BOOLEAN]
    BY <2>1
  <2>4. uploads' \in SUBSET [token : Nat, blob : Nat, stored : BOOLEAN]
    BY <2>2, <2>3
  <2> QED
    BY <2>1, <2>4
<1>9. ASSUME NEW u \in uploads, StoragePut(u) PROVE IdsTypeOK'
  BY <1>9 DEF StoragePut
<1>10. ASSUME NEW u \in uploads, StorageMismatch(u) \/ MarkUploaded(u) PROVE IdsTypeOK'
  BY <1>10 DEF StorageMismatch, MarkUploaded
<1>11. CASE PurgeBlobs
  BY <1>11 DEF PurgeBlobs
<1>12. ASSUME NEW id \in deleting, StorageDelete(id) PROVE IdsTypeOK'
  BY <1>12 DEF StorageDelete
<1>13. CASE Crash \/ BlobsTick
  BY <1>13 DEF Crash, BlobsTick
<1> HIDE DEF IdsTypeOK
<1> QED
  BY <1>1, <1>2, <1>3, <1>4, <1>5, <1>6, <1>7, <1>8, <1>9, <1>10, <1>11, <1>12, <1>13
     DEF BlobsNext, BlobRequests

LEMMA BlobsTypeStep == BlobsTypeOK /\ KeptOnce /\ BlobsNext => BlobsTypeOK'
<1> SUFFICES ASSUME BlobsTypeOK, KeptOnce, BlobsNext PROVE BlobsTypeOK'
  OBVIOUS
<1>1. BindingsTypeOK'
  BY BlobsBindsAsBindings, TypeStep DEF BlobsTypeOK
<1>2. blobs' \in SUBSET BlobRows /\ nextBlob' \in Nat /\ now' \in Nat
  BY RowsMoves, RowsTypeStep
<1>3. IdsTypeOK'
  BY IdsTypeStep
<1> QED
  BY <1>1, <1>2, <1>3 DEF BlobsTypeOK, IdsTypeOK

-----------------------------------------------------------------------------
(* BlobRows stay finite and one of a kind.                                     *)
LEMMA RowsStep ==
    BlobsTypeOK /\ IsFiniteSet(blobs) /\ KeptOnce /\ BlobIdsBelow /\ RowsMove
        => IsFiniteSet(blobs)' /\ KeptOnce'
<1> SUFFICES ASSUME BlobsTypeOK, IsFiniteSet(blobs), KeptOnce, BlobIdsBelow, RowsMove
             PROVE  IsFiniteSet(blobs') /\ KeptOnce'
  OBVIOUS
<1>n. nextBlob \in Nat /\ (\A b \in blobs : b.id \in Nat /\ b.id < nextBlob)
  BY DEF BlobsTypeOK, BlobRows, BlobIdsBelow
<1>1. CASE LosesRows
  BY <1>1, FS_Subset DEF LosesRows, KeptOnce
<1>2. ASSUME NEW c, KeepsNew(c) PROVE IsFiniteSet(blobs') /\ KeptOnce'
  <2>1. \A b \in blobs : b.id # c.id /\ ~(b.owner = c.owner /\ b.hash = c.hash)
    BY <1>2, <1>n DEF KeepsNew, BlobOf
  <2>2. blobs' = blobs \cup {c}
    BY <1>2 DEF KeepsNew
  <2> QED
    BY <2>1, <2>2, FS_AddElement DEF KeptOnce
<1>3. ASSUME NEW b \in blobs, NEW c \in BlobRows, Replaces(b, c)
      PROVE  IsFiniteSet(blobs') /\ KeptOnce'
  <2>1. blobs' = (blobs \ {b}) \cup {c} /\ c.id = b.id /\ c.owner = b.owner /\ c.hash = b.hash
    BY <1>3 DEF Replaces
  <2>2. IsFiniteSet(blobs')
    BY <2>1, FS_RemoveElement, FS_AddElement
  <2>3. \A x \in blobs \ {b} : x.id # c.id /\ ~(x.owner = c.owner /\ x.hash = c.hash)
    BY <2>1 DEF KeptOnce
  <2> QED
    BY <2>1, <2>2, <2>3 DEF KeptOnce
<1> QED
  BY <1>1, <1>2, <1>3 DEF RowsMove

(* No step gives a row an id but a fresh one.                              *)
LEMMA RowIds ==
    ASSUME BlobsTypeOK, RowsMove
    PROVE  /\ nextBlob' \in {nextBlob, nextBlob + 1}
           /\ \A c \in blobs' :
                 \/ \E b \in blobs : b.id = c.id
                 \/ c.id = nextBlob /\ nextBlob' = nextBlob + 1
BY DEF RowsMove, LosesRows, KeepsNew, Replaces

(* Where the ids under way come from: those before, a row's, and for       *)
(* grants the rows a put leaves.                                           *)
IdsMove ==
    /\ \A id \in ended' \cup deleting' :
          \/ id \in ended \cup deleting
          \/ (\E b \in blobs : b.id = id) /\ \A c \in blobs' : c.id # id
    /\ \A t \in tokens' \cup granting' \cup uploads' :
          \/ \E s \in tokens \cup granting \cup uploads : s.blob = t.blob
          \/ \E c \in blobs' : c.id = t.blob

(* Ids are handed out in order, and an id that ended stays ended.          *)
LEMMA IdsMoves == BlobsTypeOK /\ KeptOnce /\ BlobsNext => IdsMove
<1> SUFFICES ASSUME BlobsTypeOK, KeptOnce, BlobsNext PROVE IdsMove
  OBVIOUS
<1> USE DEF KeptOnce, IdsMove, TakeOut, EndBlobs, requestVars, tableVars
<1>1. ASSUME NEW n \in Asked, RevokeMediationAndBlobs(n) PROVE IdsMove
  BY <1>1 DEF RevokeMediationAndBlobs
<1>2. ASSUME NEW a \in Dids, NEW m \in Mediators, DeleteAccountAndBlobs(a, m) PROVE IdsMove
  BY <1>2 DEF DeleteAccountAndBlobs
<1>3. ASSUME NEW a \in Dids, NEW m \in Mediators, NEW d \in Dids, RemoveReplicaAndBlobs(a, m, d)
      PROVE  IdsMove
  BY <1>3 DEF RemoveReplicaAndBlobs
<1>4. CASE BindKeepingBlobs
  BY <1>4 DEF BindKeepingBlobs, blobVars
<1>5. ASSUME NEW o \in Names, NEW h \in Hashes, DropBlob(o, h) PROVE IdsMove
  BY <1>5 DEF DropBlob, BlobOf
<1>6. ASSUME NEW o \in Names, NEW h \in Hashes, NEW s \in BlobSizes, Put(o, h, s) PROVE IdsMove
  BY <1>6 DEF Put
<1>7. ASSUME NEW g \in granting, GrantUpload(g) PROVE IdsMove
  BY <1>7 DEF GrantUpload
<1>8. ASSUME NEW t \in tokens, ClaimUpload(t) PROVE IdsMove
  BY <1>8 DEF ClaimUpload
<1>9. ASSUME NEW u \in uploads, StoragePut(u) PROVE IdsMove
  <2>1. \A x \in uploads' : \E y \in uploads : y.blob = x.blob
    BY <1>9 DEF StoragePut, BlobsTypeOK
  <2> QED
    BY <1>9, <2>1 DEF StoragePut
<1>10. ASSUME NEW u \in uploads, StorageMismatch(u) \/ MarkUploaded(u) PROVE IdsMove
  BY <1>10 DEF StorageMismatch, MarkUploaded
<1>11. CASE PurgeBlobs
  BY <1>11 DEF PurgeBlobs
<1>12. ASSUME NEW id \in deleting, StorageDelete(id) PROVE IdsMove
  BY <1>12 DEF StorageDelete
<1>13. CASE Crash \/ BlobsTick
  BY <1>13 DEF Crash, BlobsTick
<1> HIDE DEF IdsMove
<1> QED
  BY <1>1, <1>2, <1>3, <1>4, <1>5, <1>6, <1>7, <1>8, <1>9, <1>10, <1>11, <1>12, <1>13
     DEF BlobsNext, BlobRequests

(* No id is above the last one handed out.                                 *)
LEMMA BlobIdsStep == BlobsTypeOK /\ KeptOnce /\ BlobIdsBelow /\ BlobsNext => BlobIdsBelow'
<1> SUFFICES ASSUME BlobsTypeOK, KeptOnce, BlobIdsBelow, BlobsNext PROVE BlobIdsBelow'
  OBVIOUS
<1>1. /\ nextBlob' \in {nextBlob, nextBlob + 1}
      /\ \A c \in blobs' : \/ \E b \in blobs : b.id = c.id
                           \/ c.id = nextBlob /\ nextBlob' = nextBlob + 1
  BY RowsMoves, RowIds
<1>2. IdsMove
  BY IdsMoves
<1>3. nextBlob \in Nat /\ (\A b \in blobs : b.id \in Nat) /\ \A id \in ended \cup deleting : id \in Nat
  BY DEF BlobsTypeOK, BlobRows
<1>4. \A t \in tokens \cup granting \cup uploads : t.blob \in Nat
  BY DEF BlobsTypeOK
<1>5. \A c \in blobs' : c.id < nextBlob'
  BY <1>1, <1>3 DEF BlobIdsBelow
<1>6. \A id \in ended' \cup deleting' : id < nextBlob'
  BY <1>1, <1>2, <1>3 DEF BlobIdsBelow, IdsMove
<1>7. \A t \in tokens' \cup granting' \cup uploads' : t.blob < nextBlob'
  BY <1>1, <1>2, <1>3, <1>4, <1>5 DEF BlobIdsBelow, IdsMove
<1> QED
  BY <1>5, <1>6, <1>7 DEF BlobIdsBelow

(* A row comes back under no id that is gone.                              *)
LEMMA GoneStep == BlobsTypeOK /\ KeptOnce /\ BlobIdsBelow /\ GoneIsGone /\ BlobsNext => GoneIsGone'
<1> SUFFICES ASSUME BlobsTypeOK, KeptOnce, BlobIdsBelow, GoneIsGone, BlobsNext,
                    NEW c \in blobs', NEW id \in ended' \cup deleting', c.id = id
             PROVE  FALSE
  BY DEF GoneIsGone
<1>1. RowsMove /\ IdsMove
  BY RowsMoves, IdsMoves
<1>n. nextBlob \in Nat /\ (\A b \in blobs : b.id \in Nat /\ b.id < nextBlob)
      /\ \A i \in ended \cup deleting : i \in Nat /\ i < nextBlob
  BY DEF BlobsTypeOK, BlobRows, BlobIdsBelow
<1>2. CASE id \in ended \cup deleting
  BY <1>1, <1>2, <1>n, RowIds DEF GoneIsGone
<1> QED
  BY <1>1, <1>2 DEF IdsMove

-----------------------------------------------------------------------------
(* What a step does to the bytes: it stores some, whatever else it does,   *)
(* or deletes those of a blob that is gone.                                *)
BytesKept ==
    /\ bytes \subseteq bytes'
    /\ \A u \in uploads' : u.stored => u \in uploads \/ u.blob \in bytes'

BytesDeleted(id) ==
    /\ id \in deleting
    /\ bytes' = bytes \ {id}
    /\ UNCHANGED <<blobs, uploads>>

(* A row is served that was served before, or whose bytes an upload stored.*)
ServedBefore(c) ==
    \E b \in blobs : b.id = c.id /\ (b.uploaded \/ \E u \in uploads : u.stored /\ u.blob = b.id)

BytesMove ==
    /\ BytesKept \/ \E id \in deleting : BytesDeleted(id)
    /\ \A c \in blobs' : c.uploaded => ServedBefore(c)

(* A put serves nothing that was not served before.                        *)
LEMMA PutServes ==
    ASSUME BlobsTypeOK, NEW o \in Names, NEW h \in Hashes, NEW s \in BlobSizes, Put(o, h, s)
    PROVE  \A c \in blobs' : c.uploaded => ServedBefore(c)
<1> SUFFICES ASSUME NEW c \in blobs', c.uploaded PROVE ServedBefore(c)
  OBVIOUS
<1>1. c \in blobs \/ c \in KeepBlob(o, h, s)
  BY DEF Put
<1>2. CASE c \in blobs
  BY <1>2 DEF ServedBefore
<1>3. CASE c \in KeepBlob(o, h, s)
  <2>1. BlobOf(o, h) # {}
    BY <1>3 DEF KeepBlob
  <2>2. PICK b \in BlobOf(o, h) : c = [b EXCEPT !.retainUntil = Later(b.retainUntil, now + Retain)]
    BY <1>3, <2>1 DEF KeepBlob
  <2>3. b \in blobs /\ c.id = b.id /\ c.uploaded = b.uploaded
    BY <2>2 DEF BlobOf, BlobsTypeOK, BlobRows
  <2> QED
    BY <2>3 DEF ServedBefore
<1> QED
  BY <1>1, <1>2, <1>3

(* Bytes are stored by an upload, and deleted only when no row has their   *)
(* id.                                                                     *)
LEMMA BytesMoves == BlobsTypeOK /\ KeptOnce /\ BlobsNext => BytesMove
<1> SUFFICES ASSUME BlobsTypeOK, KeptOnce, BlobsNext PROVE BytesMove
  OBVIOUS
<1> USE DEF BytesMove, BytesKept, TakeOut, EndBlobs, requestVars, tableVars
<1>0. \A c \in blobs : c.uploaded => ServedBefore(c)
  BY DEF ServedBefore
<1>1. ASSUME NEW n \in Asked, RevokeMediationAndBlobs(n) PROVE BytesMove
  BY <1>0, <1>1 DEF RevokeMediationAndBlobs
<1>2. ASSUME NEW a \in Dids, NEW m \in Mediators, DeleteAccountAndBlobs(a, m) PROVE BytesMove
  BY <1>0, <1>2 DEF DeleteAccountAndBlobs
<1>3. ASSUME NEW a \in Dids, NEW m \in Mediators, NEW d \in Dids, RemoveReplicaAndBlobs(a, m, d)
      PROVE  BytesMove
  BY <1>0, <1>3 DEF RemoveReplicaAndBlobs
<1>4. CASE BindKeepingBlobs
  BY <1>0, <1>4 DEF BindKeepingBlobs, blobVars
<1>5. ASSUME NEW o \in Names, NEW h \in Hashes, DropBlob(o, h) PROVE BytesMove
  BY <1>0, <1>5 DEF DropBlob
<1>6. ASSUME NEW o \in Names, NEW h \in Hashes, NEW s \in BlobSizes, Put(o, h, s) PROVE BytesMove
  BY <1>6, PutServes DEF Put
<1>7. ASSUME NEW g \in granting, GrantUpload(g) PROVE BytesMove
  BY <1>0, <1>7 DEF GrantUpload
<1>8. ASSUME NEW t \in tokens, ClaimUpload(t) PROVE BytesMove
  BY <1>0, <1>8 DEF ClaimUpload
<1>9. ASSUME NEW u \in uploads, StoragePut(u) PROVE BytesMove
  <2>1. [u EXCEPT !.stored = TRUE].blob = u.blob
    BY DEF BlobsTypeOK
  <2> QED
    BY <1>0, <1>9, <2>1 DEF StoragePut
<1>10. ASSUME NEW u \in uploads, StorageMismatch(u) PROVE BytesMove
  BY <1>0, <1>10 DEF StorageMismatch
<1>11. ASSUME NEW u \in uploads, MarkUploaded(u) PROVE BytesMove
  <2>1. ASSUME NEW c \in blobs', c.uploaded PROVE ServedBefore(c)
    <3>1. PICK b \in blobs : c = IF b.id = u.blob THEN [b EXCEPT !.uploaded = TRUE] ELSE b
      BY <1>11 DEF MarkUploaded
    <3>2. CASE b.id = u.blob
      <4>1. c.id = b.id
        BY <3>1, <3>2 DEF BlobsTypeOK, BlobRows
      <4> QED
        BY <1>11, <3>2, <4>1 DEF MarkUploaded, ServedBefore
    <3>3. CASE b.id # u.blob
      BY <1>0, <2>1, <3>1, <3>3
    <3> QED
      BY <3>2, <3>3
  <2> QED
    BY <1>11, <2>1 DEF MarkUploaded
<1>12. CASE PurgeBlobs
  BY <1>0, <1>12 DEF PurgeBlobs
<1>13. ASSUME NEW id \in deleting, StorageDelete(id) PROVE BytesMove
  BY <1>0, <1>13 DEF StorageDelete, BytesDeleted
<1>14. CASE Crash \/ BlobsTick
  BY <1>0, <1>14 DEF Crash, BlobsTick
<1> HIDE DEF BytesMove
<1> QED
  BY <1>1, <1>2, <1>3, <1>4, <1>5, <1>6, <1>7, <1>8, <1>9, <1>10, <1>11, <1>12, <1>13, <1>14
     DEF BlobsNext, BlobRequests

(* Bytes stored for an upload are deleted only once its row is gone.       *)
LEMMA StoredStep ==
    BlobsTypeOK /\ KeptOnce /\ BlobIdsBelow /\ GoneIsGone /\ StoredKept /\ BlobsNext => StoredKept'
<1> SUFFICES ASSUME BlobsTypeOK, KeptOnce, BlobIdsBelow, GoneIsGone, StoredKept, BlobsNext,
                    NEW u \in uploads', u.stored, u.blob \notin bytes',
                    NEW c \in blobs', c.id = u.blob
             PROVE  FALSE
  BY DEF StoredKept
<1>1. BytesMove
  BY BytesMoves
<1>2. CASE BytesKept
  <2>1. u \in uploads /\ u.blob \notin bytes
    BY <1>2 DEF BytesKept
  <2>2. \A b \in blobs : b.id # u.blob
    BY <2>1 DEF StoredKept
  <2>3. u.blob < nextBlob /\ u.blob \in Nat /\ nextBlob \in Nat
    BY <2>1 DEF BlobIdsBelow, BlobsTypeOK
  <2> QED
    BY <2>2, <2>3, RowsMoves, RowIds
<1>3. ASSUME NEW id \in deleting, BytesDeleted(id) PROVE FALSE
  BY <1>3 DEF BytesDeleted, StoredKept, GoneIsGone
<1> QED
  BY <1>1, <1>2, <1>3 DEF BytesMove

(* What is served has its bytes.                                           *)
LEMMA ServedStep ==
    BlobsTypeOK /\ KeptOnce /\ GoneIsGone /\ StoredKept /\ UploadedHasBytes /\ BlobsNext => UploadedHasBytes'
<1> SUFFICES ASSUME BlobsTypeOK, KeptOnce, GoneIsGone, StoredKept, UploadedHasBytes, BlobsNext,
                    NEW c \in blobs', c.uploaded
             PROVE  c.id \in bytes'
  BY DEF UploadedHasBytes
<1>1. BytesMove
  BY BytesMoves
<1>2. PICK b \in blobs : b.id = c.id /\ (b.uploaded \/ \E u \in uploads : u.stored /\ u.blob = b.id)
  BY <1>1 DEF BytesMove, ServedBefore
<1>3. b.id \in bytes
  BY <1>2 DEF UploadedHasBytes, StoredKept
<1> QED
  BY <1>1, <1>2, <1>3 DEF BytesMove, BytesKept, BytesDeleted, GoneIsGone

-----------------------------------------------------------------------------
(* The quota.                                                              *)
SizeOf(S) == SumFunctionOnSet([b \in S |-> b.size], S)

(* The sizes of a finite set of blobs: a number, less for fewer, more by   *)
(* each one added.                                                         *)
LEMMA SizeFacts ==
    ASSUME NEW S, IsFiniteSet(S), \A b \in S : b.size \in Nat
    PROVE  /\ SizeOf(S) \in Nat
           /\ \A T \in SUBSET S : SizeOf(T) \in Nat /\ SizeOf(T) <= SizeOf(S)
           /\ \A b : b \notin S /\ b.size \in Nat => SizeOf(S \cup {b}) = SizeOf(S) + b.size
<1> DEFINE F(T) == [b \in T |-> b.size]
<1>1. SizeOf(S) \in Nat
  BY SumType DEF SizeOf
<1>2. ASSUME NEW T \in SUBSET S PROVE SizeOf(T) \in Nat /\ SizeOf(T) <= SizeOf(S)
  <2>1. IsFiniteSet(T) /\ \A b \in T : F(T)[b] = F(S)[b] /\ F(T)[b] \in Nat
    BY FS_Subset
  <2>2. SumFunctionOnSet(F(T), T) = SumFunctionOnSet(F(S), T)
    BY <2>1, SumSame
  <2>3. SumFunctionOnSet(F(S), T) <= SumFunctionOnSet(F(S), S)
    <3>1. \A b \in S : F(S)[b] \in Nat
      OBVIOUS
    <3> HIDE DEF F
    <3> QED
      BY <3>1, SumMonotone
  <2>4. SumFunctionOnSet(F(T), T) \in Nat
    BY <2>1, SumType
  <2> QED
    BY <2>2, <2>3, <2>4 DEF SizeOf
<1>3. ASSUME NEW b, b \notin S, b.size \in Nat PROVE SizeOf(S \cup {b}) = SizeOf(S) + b.size
  <2> DEFINE g == F(S \cup {b})
  <2>1. /\ g[b] = b.size /\ g[b] \in Nat
        /\ \A x \in S : g[x] \in Nat /\ F(S)[x] = g[x] /\ F(S)[x] \in Nat
    BY <1>3
  <2>2. SizeOf(S \cup {b}) = SumFunctionOnSet(g, S \cup {b})
    BY DEF SizeOf
  <2>3. SumFunctionOnSet(F(S), S) = SumFunctionOnSet(g, S)
    <3> HIDE DEF F, g
    <3> QED
      BY <2>1, SumSame
  <2>4. SumFunctionOnSet(g, S \cup {b}) = g[b] + SumFunctionOnSet(g, S)
    <3> HIDE DEF F, g
    <3> QED
      BY <1>3, <2>1, SumAdd
  <2>5. SizeOf(S) = SumFunctionOnSet(g, S)
    BY <2>3 DEF SizeOf
  <2> HIDE DEF g
  <2> QED
    BY <1>1, <1>3, <2>1, <2>2, <2>4, <2>5
<1> QED
  BY <1>1, <1>2, <1>3

(* The live blobs of an owner stay within the quota.                       *)
LEMMA QuotaStep ==
    BlobsTypeOK /\ IsFiniteSet(blobs) /\ KeptOnce /\ BlobIdsBelow /\ BlobsWithinQuota /\ BlobsNext => BlobsWithinQuota'
<1> SUFFICES ASSUME BlobsTypeOK, IsFiniteSet(blobs), KeptOnce, BlobIdsBelow, BlobsWithinQuota, BlobsNext,
                    NEW o \in Names
             PROVE  SizeOf(Live(o)') <= Quota
  BY DEF BlobsWithinQuota, LiveBytes, SizeOf
<1> DEFINE L == Live(o)
<1>1. RowsMove
  BY RowsMoves
<1>n. /\ now \in Nat /\ nextBlob \in Nat /\ Quota \in Nat
      /\ \A b \in BlobRows : b.id \in Nat /\ b.size \in Nat /\ b.retainUntil \in Nat
      /\ blobs \subseteq BlobRows
  <2>1. \A b \in BlobRows : b.id \in Nat /\ b.size \in Nat /\ b.retainUntil \in Nat
    BY BlobsAssumption DEF BlobRows
  <2> QED
    BY <2>1, BlobsAssumption DEF BlobsTypeOK
<1>f. IsFiniteSet(L) /\ L \subseteq blobs /\ \A b \in L : b.size \in Nat
  BY <1>n, FS_Subset DEF Live
<1>q. SizeOf(L) \in Nat /\ SizeOf(L) <= Quota
  BY <1>f, SizeFacts DEF BlobsWithinQuota, LiveBytes, SizeOf
\* What is live is within a set that is within the quota.
<1>w. ASSUME NEW R, IsFiniteSet(R), \A b \in R : b.size \in Nat, SizeOf(R) <= Quota, Live(o)' \subseteq R
      PROVE  SizeOf(Live(o)') <= Quota
  <2>1. SizeOf(Live(o)') \in Nat /\ SizeOf(Live(o)') <= SizeOf(R) /\ SizeOf(R) \in Nat
    BY <1>w, SizeFacts
  <2> QED
    BY <1>n, <1>w, <2>1
\* One more row, if there is room for it.
<1>a. ASSUME NEW c \in BlobRows, c \notin L, Room(o, c.size), Live(o)' \subseteq L \cup {c}
      PROVE  SizeOf(Live(o)') <= Quota
  <2>1. SizeOf(L \cup {c}) = SizeOf(L) + c.size
    BY <1>a, <1>f, <1>n, SizeFacts
  <2>2. SizeOf(L) + c.size <= Quota
    BY <1>a DEF Room, LiveBytes, SizeOf
  <2>3. IsFiniteSet(L \cup {c}) /\ \A b \in L \cup {c} : b.size \in Nat
    BY <1>f, <1>n, FS_AddElement
  <2> HIDE DEF L
  <2> QED
    BY <1>a, <1>w, <2>1, <2>2, <2>3
<1>2. CASE LosesRows
  <2>1. Live(o)' \subseteq L
    BY <1>2, <1>n DEF LosesRows, Live
  <2> HIDE DEF L
  <2> QED
    BY <1>f, <1>q, <1>w, <2>1
<1>3. ASSUME NEW c, KeepsNew(c) PROVE SizeOf(Live(o)') <= Quota
  <2>1. blobs' = blobs \cup {c} /\ now' = now /\ c \in BlobRows /\ c.id = nextBlob /\ Room(c.owner, c.size)
    BY <1>3 DEF KeepsNew
  <2>2. c \notin L
    BY <1>n, <2>1 DEF Live, BlobIdsBelow
  <2>3. CASE c.owner = o
    <3>1. Live(o)' \subseteq L \cup {c}
      BY <2>1 DEF Live
    <3> HIDE DEF L
    <3> QED
      BY <1>a, <2>1, <2>2, <2>3, <3>1
  <2>4. CASE c.owner # o
    <3>1. Live(o)' \subseteq L
      BY <2>1, <2>4 DEF Live
    <3> HIDE DEF L
    <3> QED
      BY <1>f, <1>q, <1>w, <3>1
  <2> QED
    BY <2>3, <2>4
<1>4. ASSUME NEW b \in blobs, NEW c \in BlobRows, Replaces(b, c) PROVE SizeOf(Live(o)') <= Quota
  <2>1. /\ blobs' = (blobs \ {b}) \cup {c} /\ now' = now
        /\ c.id = b.id /\ c.owner = b.owner /\ c.size = b.size
        /\ b.retainUntil > now \/ Room(b.owner, b.size) \/ c.retainUntil = b.retainUntil
    BY <1>4 DEF Replaces
  <2>2. c \in blobs => c = b
    BY <2>1 DEF KeptOnce
  <2>3. CASE b.owner # o \/ c.retainUntil <= now
    <3>1. Live(o)' \subseteq L
      BY <1>n, <2>1, <2>3 DEF Live
    <3> HIDE DEF L
    <3> QED
      BY <1>f, <1>q, <1>w, <3>1
  <2>4. CASE b \in L
    <3> DEFINE R == L \ {b}
    <3>1. IsFiniteSet(R) /\ (\A x \in R : x.size \in Nat) /\ b \notin R /\ R \cup {b} = L
      BY <1>f, <2>4, FS_RemoveElement
    <3>2. c \notin R
      BY <1>f, <2>2
    <3>3. b.size \in Nat /\ c.size \in Nat
      BY <1>n
    <3>4. Live(o)' \subseteq R \cup {c}
      BY <2>1 DEF Live
    <3> HIDE DEF L, R
    <3>5. SizeOf(R \cup {b}) = SizeOf(R) + b.size /\ SizeOf(R \cup {c}) = SizeOf(R) + c.size
      BY <3>1, <3>2, <3>3, SizeFacts
    <3>6. SizeOf(R \cup {c}) <= Quota
      BY <1>q, <2>1, <3>1, <3>5
    <3>7. IsFiniteSet(R \cup {c}) /\ \A x \in R \cup {c} : x.size \in Nat
      BY <3>1, <3>3, FS_AddElement
    <3> QED
      BY <1>w, <3>4, <3>6, <3>7
  <2>5. CASE b.owner = o /\ b \notin L /\ c.retainUntil > now
    <3>1. Live(o)' \subseteq L \cup {c} /\ c \notin L
      BY <2>1, <2>2, <2>5 DEF Live
    <3>2. Room(o, c.size)
      BY <1>n, <2>1, <2>5 DEF Live
    <3> HIDE DEF L
    <3> QED
      BY <1>a, <3>1, <3>2
  <2> QED
    BY <1>n, <2>3, <2>4, <2>5
<1> QED
  BY <1>1, <1>2, <1>3, <1>4 DEF RowsMove

-----------------------------------------------------------------------------
(* At first there is no blob.                                              *)
LEMMA BlobsStart == BlobsInit => BlobsInv
<1> SUFFICES ASSUME BlobsInit PROVE BlobsInv
  OBVIOUS
<1>1. BindingsTypeOK
  BY DEF BlobsInit, BindingsInit, BindingsTypeOK
<1>2. BlobsTypeOK
  BY <1>1 DEF BlobsInit, BlobsTypeOK
<1>3. IsFiniteSet(blobs) /\ \A o : Live(o) = {}
  BY FS_EmptySet DEF BlobsInit, Live
<1>4. \A o : LiveBytes(o) = 0
  BY <1>3, SumEmpty DEF LiveBytes
<1>5. BlobsWithinQuota
  BY <1>4, BlobsAssumption DEF BlobsWithinQuota
<1> QED
  BY <1>2, <1>3, <1>5
     DEF BlobsInit, BlobsInv, KeptOnce, BlobIdsBelow, GoneIsGone, StoredKept, UploadedHasBytes

(* Every step keeps the blobs' invariant.                                  *)
LEMMA BlobsStep == BlobsInv /\ [BlobsNext]_allBlobVars => BlobsInv'
<1> SUFFICES ASSUME BlobsInv, [BlobsNext]_allBlobVars PROVE BlobsInv'
  OBVIOUS
<1> USE DEF BlobsInv
<1>1. CASE BlobsNext
  <2>1. BlobsTypeOK'
    BY <1>1, BlobsTypeStep
  <2>2. IsFiniteSet(blobs)' /\ KeptOnce'
    BY <1>1, RowsMoves, RowsStep
  <2>3. BlobIdsBelow' /\ GoneIsGone'
    BY <1>1, BlobIdsStep, GoneStep
  <2>4. StoredKept' /\ UploadedHasBytes'
    BY <1>1, StoredStep, ServedStep
  <2>5. BlobsWithinQuota'
    BY <1>1, QuotaStep
  <2> QED
    BY <2>1, <2>2, <2>3, <2>4, <2>5
<1>2. CASE UNCHANGED allBlobVars
  BY <1>2 DEF allBlobVars, bindingVars, blobVars, BlobsTypeOK, BindingsTypeOK, KeptOnce,
     BlobIdsBelow, GoneIsGone,
              StoredKept, UploadedHasBytes, BlobsWithinQuota, LiveBytes, Live
<1> QED
  BY <1>1, <1>2

\* The invariant of the blobs, which the theorems below are parts of: rows are
\* unique, ids fresh, what is gone is gone, and stored uploads have their bytes.
THEOREM BlobsInvariant == BlobsSpec => []BlobsInv
BY BlobsStart, BlobsStep, PTL DEF BlobsSpec

\* The tables of blobs, tokens and ended ids hold rows of their types.
THEOREM BlobsTypeCorrect == BlobsSpec => []BlobsTypeOK
<1>1. BlobsInv => BlobsTypeOK
  BY DEF BlobsInv
<1> QED
  BY <1>1, BlobsInvariant, PTL

\* A blob served has its bytes and live blobs stay within the quota, through
\* uploads of one blob at once, renewals, deletions, purges and crashes
\* (service.ts keeps rows and storage in no common transaction).
THEOREM BlobsServedWithinQuota == BlobsSpec => []BlobsSound
<1>1. BlobsInv => BlobsSound
  BY DEF BlobsInv, BlobsSound
<1> QED
  BY <1>1, BlobsInvariant, PTL

-----------------------------------------------------------------------------
(***************************************************************************)
(* Answers, for every set of replicas and executions, every clock and      *)
(* every limit: one registration has one answerer, and of the replicas it  *)
(* lists not all leave the input to another.                               *)
(*                                                                         *)
(* A registration, once made, is headed by the replica that made it, in    *)
(* every list of it that is kept, on its way or was read; rows only grow   *)
(* at their end, and an id is never handed out again.                      *)
(***************************************************************************)

-----------------------------------------------------------------------------
(* The mediator binds as MediatorBindings says, with registrations too.    *)
LEMMA AnswerBinds == AnswerNext => [BindingsNext]_bindingVars
<1> SUFFICES ASSUME AnswerNext PROVE [BindingsNext]_bindingVars
  OBVIOUS
<1>1. ASSUME NEW a \in Dids, NEW m \in Mediators, Bind(a, m) \/ DeleteAccount(a, m)
      PROVE  [BindingsNext]_bindingVars
  BY <1>1 DEF Bind, Enrol, DeleteAccount, DeleteAccountAndExecutions, BindingsNext, ReplicaNext
<1>2. ASSUME NEW a \in Dids, NEW d \in Dids, NEW m \in Mediators, RemoveFromAccount(a, m, d)
      PROVE  [BindingsNext]_bindingVars
  BY <1>2 DEF RemoveFromAccount, RemoveReplicaKeepingExecutions, BindingsNext, ReplicaNext
<1>3. ASSUME NEW q \in requests, ExecutionRegister(q)
      PROVE  [BindingsNext]_bindingVars
  BY <1>3 DEF ExecutionRegister, RegisterExecution
<1>4. CASE Purge \/ AnswerTick
  BY <1>4 DEF Purge, PurgeExecutions, AnswerTick, ExecutionsTick, answerVars
<1>5. ASSUME NEW r \in Dids, NEW m \in Mediators, NEW e \in Executions, FindResponder(r, m, e) \/ Unanswered(r, m, e)
      PROVE  [BindingsNext]_bindingVars
  BY <1>5 DEF FindResponder, Unanswered
<1>6. ASSUME NEW r \in Dids, NEW e \in Executions, NoLine(r, e) \/ LinkClosed(r, e)
      PROVE  [BindingsNext]_bindingVars
  BY <1>6 DEF NoLine, LinkClosed
<1>7. ASSUME NEW y \in replies, Answered(y)
      PROVE  [BindingsNext]_bindingVars
  BY <1>7 DEF Answered
<1>8. ASSUME NEW a \in Dids, NEW e \in Executions, Arrive(a, e)
      PROVE  [BindingsNext]_bindingVars
  BY <1>8 DEF Arrive
<1> QED
  BY <1>1, <1>2, <1>3, <1>4, <1>5, <1>6, <1>7, <1>8 DEF AnswerNext

(* Executions and their answers are a mediator's bindings and more: every  *)
(* theorem of the bindings holds with them.                                *)
THEOREM AnswerImplementsBindings == AnswerSpec => BindingsSpec
<1>1. AnswerInit => BindingsInit
  BY DEF AnswerInit, ExecutionsInit
<1>2. [AnswerNext]_allAnswerVars => [BindingsNext]_bindingVars
  BY AnswerBinds DEF allAnswerVars, bindingVars
<1> QED
  BY <1>1, <1>2, PTL DEF AnswerSpec, BindingsSpec

-----------------------------------------------------------------------------
(* Types.                                                                  *)
LEMMA SecondType ==
    ASSUME now \in Nat
    PROVE  Second \in Nat
BY ExecutionsAssumption DEF Second

\* The rows a registration leaves are rows, with the caller at the end of
\* the list of each, or where it was.
LEMMA ListFacts ==
    ASSUME NEW x \in Registrations, NEW r \in Dids
    PROVE  /\ List(x, r) \in Registrations
           /\ List(x, r).id = x.id /\ List(x, r).account = x.account /\ List(x, r).execution = x.execution
           /\ x.listed # <<>> => List(x, r).listed # <<>> /\ Head(List(x, r).listed) = Head(x.listed)
           /\ x.listed = <<>> => List(x, r).listed = <<r>>
<1>1. CASE r \in ToSet(x.listed) \/ Len(x.listed) >= MaxListed
  <2>1. List(x, r) = x
    BY <1>1 DEF List
  <2>2. x.listed # <<>>
    <3>1. MaxListed \in Nat \ {0} /\ ToSet(<<>>) = {} /\ Len(<<>>) = 0
      BY ExecutionsAssumption DEF ToSet
    <3> QED
      BY <1>1, <3>1
  <2> QED
    BY <2>1, <2>2
<1>2. CASE ~(r \in ToSet(x.listed) \/ Len(x.listed) >= MaxListed)
  <2>1. List(x, r) = [x EXCEPT !.listed = Append(@, r)]
    BY <1>2 DEF List
  <2>2. x.listed \in Seq(Dids) /\ Append(x.listed, r) \in Seq(Dids)
    BY DEF Registrations
  <2>3. List(x, r).listed = Append(x.listed, r)
    BY <2>1 DEF Registrations
  <2>4. x.listed # <<>> => Append(x.listed, r) # <<>> /\ Head(Append(x.listed, r)) = Head(x.listed)
    BY <2>2
  <2>5. x.listed = <<>> => Append(x.listed, r) = <<r>>
    BY <2>2
  <2> QED
    BY <2>1, <2>2, <2>3, <2>4, <2>5 DEF Registrations
<1> QED
  BY <1>1, <1>2

\* What Registering leaves: old rows of the execution, longer or not, or
\* one new row with the caller alone.
LEMMA RegisteringFacts ==
    ASSUME ExecutionsTypeOK, NEW r \in Dids, NEW e \in Executions, IsActive(r)
    PROVE  /\ replicas[r].account \in Dids
           /\ Registering(r, e) \subseteq Registrations
           /\ \/ Registering(r, e) = {List(x, r) : x \in RowsOf(replicas[r].account, e)}
              \/ /\ RowsOf(replicas[r].account, e) = {}
                 /\ \E y \in Registrations : /\ Registering(r, e) = {y}
                                    /\ y.id = nextRegistration /\ y.listed = <<r>>
<1> DEFINE a == replicas[r].account
           new == [id |-> nextRegistration, account |-> a, execution |-> e,
                   retainUntil |-> Second + RetainSeconds, listed |-> <<>>]
<1>1. a \in Dids
  BY DEF ExecutionsTypeOK, BindingsTypeOK, IsActive, Enrolments
<1>2. new \in Registrations
  <2>1. Second + RetainSeconds \in Nat /\ <<>> \in Seq(Dids) /\ nextRegistration \in Nat
    BY SecondType, ExecutionsAssumption DEF ExecutionsTypeOK
  <2> QED
    BY <1>1, <2>1 DEF Registrations
<1>3. \A x \in RowsOf(a, e) : x \in Registrations
  BY DEF RowsOf, ExecutionsTypeOK
<1>4. CASE RowsOf(a, e) # {} \/ Full(a)
  <2>1. Registering(r, e) = {List(x, r) : x \in RowsOf(a, e)}
    BY <1>4 DEF Registering
  <2> QED
    BY <1>1, <1>3, <2>1, ListFacts
<1>5. CASE ~(RowsOf(a, e) # {} \/ Full(a))
  <2>1. Registering(r, e) = {List(x, r) : x \in {new}}
    BY <1>5 DEF Registering
  <2>2. Registering(r, e) = {List(new, r)}
    BY <2>1
  <2>3. List(new, r) \in Registrations /\ List(new, r).id = nextRegistration /\ List(new, r).listed = <<r>>
    BY <1>2, ListFacts
  <2> QED
    BY <1>1, <1>5, <2>2, <2>3
<1> QED
  BY <1>4, <1>5

(* What the mediator answers is a reply.                                   *)
LEMMA ReplyFacts ==
    ASSUME AnswerTypeOK, NEW q \in Requests, NEW rows, rows \subseteq Registrations
    PROVE  \A y : y \in {[request |-> q, registration |-> x.id, listed |-> x.listed] :
                            x \in {z \in rows : status[q.replica][q.execution] = q.attempt}}
                    => y \in Replies
BY DEF Registrations, Replies

(* Responders, requests and replies keep their types under every step.     *)
LEMMA AnswerTypeStep == AnswerTypeOK /\ AnswerNext => AnswerTypeOK'
<1> SUFFICES ASSUME AnswerTypeOK, AnswerNext PROVE AnswerTypeOK'
  OBVIOUS
<1>b. BindingsTypeOK'
  BY AnswerBinds, TypeStep DEF AnswerTypeOK, ExecutionsTypeOK
<1>i. ExecutionsTypeOK
  BY DEF AnswerTypeOK
<1>s. /\ Attempts \subseteq Statuses /\ {"none", "self", "other", "unknown"} \subseteq Statuses
      /\ Attempts = {"first", "second"}
  BY DEF Attempts, Statuses
<1>c. \A r \in Dids, e \in Executions, s \in Statuses :
        Become(r, e, s) => status' \in [Dids -> [Executions -> Statuses]]
  BY DEF Become, AnswerTypeOK
<1>k. \A r \in Dids, m \in Mediators, e \in Executions, w \in Attempts :
        Ask(r, m, e, w) => requests' \in SUBSET Requests
  BY DEF Ask, AnswerTypeOK, Requests
<1>u. \A r, e : Unread(r, e) => replies' \in SUBSET Replies
  BY DEF Unread, AnswerTypeOK
<1>a. \A a : ActiveOf(a) \subseteq Dids
  BY DEF ActiveOf, Enrolled
<1>t. \A ds : Untarget(ds) => inputs' \in [Executions -> [expires : Nat, targets : SUBSET Dids] \cup {None}]
  BY DEF Untarget, AnswerTypeOK
<1>1. ASSUME NEW a \in Dids, NEW m \in Mediators, Bind(a, m) PROVE AnswerTypeOK'
  BY <1>1, <1>b DEF Bind, Enrol, answerVars, executionVars, AnswerTypeOK, ExecutionsTypeOK
<1>2. ASSUME NEW a \in Dids, NEW m \in Mediators, DeleteAccount(a, m) PROVE AnswerTypeOK'
  BY <1>2, <1>b, <1>t DEF DeleteAccount, DeleteAccountAndExecutions, AnswerTypeOK,
     ExecutionsTypeOK
<1>3. ASSUME NEW a \in Dids, NEW d \in Dids, NEW m \in Mediators, RemoveFromAccount(a, m, d) PROVE AnswerTypeOK'
  BY <1>3, <1>b, <1>t DEF RemoveFromAccount, RemoveReplicaKeepingExecutions, executionVars,
     AnswerTypeOK, ExecutionsTypeOK
<1>4. ASSUME NEW a \in Dids, NEW e \in Executions, Arrive(a, e) PROVE AnswerTypeOK'
  <2>1. now + MailTtl \in Nat
    BY <1>i, AnswerAssumption DEF ExecutionsTypeOK
  <2>2. inputs' \in [Executions -> [expires : Nat, targets : SUBSET Dids] \cup {None}]
    BY <1>4, <1>a, <2>1 DEF Arrive, AnswerTypeOK
  <2> QED
    BY <1>4, <1>b, <2>2 DEF Arrive, executionVars, AnswerTypeOK, ExecutionsTypeOK
<1>5. ASSUME NEW r \in Dids, NEW m \in Mediators, NEW e \in Executions, FindResponder(r, m, e) PROVE AnswerTypeOK'
  BY <1>5, <1>b, <1>c, <1>k, <1>s DEF FindResponder, executionVars, AnswerTypeOK,
     ExecutionsTypeOK
<1>6. ASSUME NEW r \in Dids, NEW m \in Mediators, NEW e \in Executions, Unanswered(r, m, e) PROVE AnswerTypeOK'
  <2>1. status' \in [Dids -> [Executions -> Statuses]] /\ requests' \in SUBSET Requests /\ replies' \in SUBSET Replies
    BY <1>6, <1>c, <1>k, <1>s, <1>u DEF Unanswered, AnswerTypeOK
  <2> QED
    BY <1>6, <1>b, <2>1 DEF Unanswered, executionVars, AnswerTypeOK, ExecutionsTypeOK
<1>7. ASSUME NEW r \in Dids, NEW e \in Executions, NoLine(r, e) PROVE AnswerTypeOK'
  BY <1>7, <1>b, <1>c, <1>s DEF NoLine, executionVars, AnswerTypeOK, ExecutionsTypeOK
<1>8. ASSUME NEW r \in Dids, NEW e \in Executions, LinkClosed(r, e) PROVE AnswerTypeOK'
  BY <1>8, <1>b, <1>c, <1>s, <1>u DEF LinkClosed, executionVars, AnswerTypeOK, ExecutionsTypeOK
<1>9. ASSUME NEW y \in replies, Answered(y) PROVE AnswerTypeOK'
  <2>1. y \in Replies /\ y.request \in Requests /\ y.registration \in Nat \cup {None}
        /\ y.request.replica \in Dids /\ y.request.execution \in Executions
    BY DEF AnswerTypeOK, Replies, Requests
  <2>2. ResponderOf(y.request.replica, y.listed) \in Statuses
    BY <1>s DEF ResponderOf
  <2>3. status' \in [Dids -> [Executions -> Statuses]]
    BY <1>9, <1>c, <2>1, <2>2 DEF Answered
  <2>4. found' \in [Dids -> [Executions -> Nat \cup {None}]] /\ replies' \in SUBSET Replies
    BY <1>9, <2>1 DEF Answered, AnswerTypeOK
  <2> QED
    BY <1>9, <1>b, <2>3, <2>4 DEF Answered, executionVars, AnswerTypeOK, ExecutionsTypeOK
<1>10. ASSUME NEW q \in requests, ExecutionRegister(q) PROVE AnswerTypeOK'
  <2> DEFINE r == q.replica
             e == q.execution
             stands == {x \in Registering(r, e) : r \in ToSet(x.listed)}
             refusal == [id |-> None, listed |-> <<>>]
  <2>1. q \in Requests /\ r \in Dids /\ e \in Executions
    BY DEF AnswerTypeOK, Requests
  <2>2. requests' \in SUBSET Requests /\ UNCHANGED <<inputs, status, found>>
    BY <1>10 DEF ExecutionRegister, AnswerTypeOK
  <2>3. [request |-> q, registration |-> refusal.id, listed |-> refusal.listed] \in Replies
    BY <2>1 DEF Replies
  <2>4. Reply(q, {refusal}) => replies' \in SUBSET Replies
    BY <2>3 DEF Reply, AnswerTypeOK
  <2>5. CASE IsMember(r, q.mediator)
    <3>1. IsActive(r) /\ RegisterExecution(r, q.mediator, e) /\ Reply(q, IF stands = {} THEN {refusal} ELSE stands)
      BY <1>10, <2>5 DEF ExecutionRegister, IsMember
    <3>2. Registering(r, e) \subseteq Registrations
      BY <1>i, <2>1, <3>1, RegisteringFacts
    <3>3. replies' \in SUBSET Replies
      <4>1. Reply(q, stands) => replies' \in SUBSET Replies
        <5>1. stands \subseteq Registrations
          BY <3>2
        <5> HIDE DEF stands
        <5> QED
          BY <2>1, <5>1, ReplyFacts DEF Reply, AnswerTypeOK
      <4> QED
        BY <2>4, <3>1, <4>1
    <3>4. executions' \in SUBSET Registrations /\ nextRegistration' \in Nat /\ now' = now
      <4>1. executions' \in SUBSET Registrations /\ now' = now
        BY <1>i, <3>1, <3>2 DEF RegisterExecution, ExecutionsTypeOK
      <4>2. nextRegistration' = nextRegistration + 1 \/ nextRegistration' = nextRegistration + 0
        BY <3>1 DEF RegisterExecution
      <4> QED
        BY <1>i, <4>1, <4>2 DEF ExecutionsTypeOK
    <3> QED
      BY <1>b, <1>i, <2>2, <3>3, <3>4 DEF AnswerTypeOK, ExecutionsTypeOK
  <2>6. CASE ~IsMember(r, q.mediator)
    BY <1>10, <1>b, <2>2, <2>4, <2>6 DEF ExecutionRegister, executionVars, AnswerTypeOK,
       ExecutionsTypeOK
  <2> QED
    BY <2>5, <2>6
<1>11. CASE Purge
  BY <1>11, <1>b DEF Purge, PurgeExecutions, answerVars, AnswerTypeOK, ExecutionsTypeOK
<1>12. CASE AnswerTick
  BY <1>12, <1>b DEF AnswerTick, ExecutionsTick, answerVars, AnswerTypeOK, ExecutionsTypeOK
<1> QED
  BY <1>1, <1>2, <1>3, <1>4, <1>5, <1>6, <1>7, <1>8, <1>9, <1>10, <1>11, <1>12 DEF AnswerNext

-----------------------------------------------------------------------------
(* The head of a registration.                                             *)

\* h heads a list of registration i: a row's, one on its way to a replica,
\* or one h itself read.
Heads(i, h) ==
    \/ \E x \in executions : x.id = i /\ Head(x.listed) = h
    \/ \E y \in replies : y.registration = i /\ y.listed # <<>> /\ Head(y.listed) = h
    \/ \E e \in Executions : h \in Dids /\ status[h][e] = "self" /\ found[h][e] = i

\* No row is without a list, and what was handed out is below what is next.
Numbered ==
    /\ \A x \in executions : x.listed # <<>>
    /\ \A i, h : Heads(i, h) => i \in Nat /\ i < nextRegistration
    /\ \A r \in Dids, e \in Executions :
          status[r][e] = "other" => found[r][e] \in Nat /\ found[r][e] < nextRegistration

OneHead == \A i, g, h : Heads(i, g) /\ Heads(i, h) => g = h

\* A replica that leaves an input to another does not head the list it read.
OtherHeads ==
    \A r \in Dids, e \in Executions : status[r][e] = "other" => ~Heads(found[r][e], r)

AnswerInv == AnswerTypeOK /\ Numbered /\ OneHead /\ OtherHeads

(* That a registration has one head, and who left the input is not it,     *)
(* decides who answers.                                                    *)
LEMMA HeadsDecide ==
    ASSUME AnswerInv
    PROVE  OneAnswererPerRegistration /\ NotAllLeaveIt
<1>1. OneAnswererPerRegistration
  BY DEF AnswerInv, OneHead, Heads, OneAnswererPerRegistration
<1>2. NotAllLeaveIt
  <2>1. SUFFICES ASSUME NEW x \in executions, x.execution \in Executions
                 PROVE  \E r \in ToSet(x.listed) :
                            ~(status[r][x.execution] = "other" /\ found[r][x.execution] = x.id)
    BY DEF NotAllLeaveIt
  <2>2. x.listed \in Seq(Dids) /\ x.listed # <<>>
    BY DEF AnswerInv, AnswerTypeOK, ExecutionsTypeOK, Registrations, Numbered
  <2>3. Head(x.listed) \in ToSet(x.listed) /\ Head(x.listed) \in Dids
    BY <2>2 DEF ToSet
  <2>4. Heads(x.id, Head(x.listed))
    BY DEF Heads
  <2> QED
    BY <2>1, <2>3, <2>4 DEF AnswerInv, OtherHeads
<1> QED
  BY <1>1, <1>2

(* A step that makes no registration and reads no answer.                  *)
LEMMA AnswerFewer ==
    ASSUME AnswerInv, AnswerTypeOK', executions' \subseteq executions, replies' \subseteq replies,
           UNCHANGED <<nextRegistration, found>>,
           \A r \in Dids, e \in Executions :
              status'[r][e] \in {"self", "other"} => status'[r][e] = status[r][e]
    PROVE  AnswerInv'
<1>1. \A i, h : Heads(i, h)' => Heads(i, h)
  BY DEF Heads
<1>2. Numbered' /\ OneHead' /\ OtherHeads'
  BY <1>1 DEF AnswerInv, Numbered, OneHead, OtherHeads
<1> QED
  BY <1>2 DEF AnswerInv

(* A responder reads the answer to its request.                            *)
LEMMA AnsweredKeeps ==
    ASSUME AnswerInv, AnswerTypeOK', NEW y \in replies, Answered(y)
    PROVE  AnswerInv'
<1> DEFINE p == y.request.replica
           f == y.request.execution
           i == y.registration
<1>i. AnswerTypeOK /\ Numbered /\ OneHead /\ OtherHeads
  BY DEF AnswerInv
<1>y. p \in Dids /\ f \in Executions /\ y.listed \in Seq(Dids)
  BY <1>i DEF AnswerTypeOK, Replies, Requests
<1>u. UNCHANGED <<executions, nextRegistration>> /\ replies' \subseteq replies
  BY DEF Answered, executionVars
<1>m. /\ \A r \in Dids, e \in Executions :
            r # p \/ e # f => status'[r][e] = status[r][e] /\ found'[r][e] = found[r][e]
      /\ status'[p][f] = ResponderOf(p, y.listed) /\ found'[p][f] = i
  BY <1>i, <1>y DEF Answered, Become, AnswerTypeOK
<1>h. y.listed # <<>> => Heads(i, Head(y.listed))
  BY DEF Heads
<1>e. p \in ToSet(y.listed) => y.listed # <<>>
  BY <1>y DEF ToSet
<1>s. status'[p][f] = "self" => y.listed # <<>> /\ Head(y.listed) = p
  BY <1>e, <1>m DEF ResponderOf
<1>o. status'[p][f] = "other" => y.listed # <<>> /\ Head(y.listed) # p
  BY <1>e, <1>m DEF ResponderOf
<1>1. ASSUME NEW j, NEW h, Heads(j, h)' PROVE Heads(j, h)
  <2>1. CASE \E e \in Executions : h \in Dids /\ status'[h][e] = "self" /\ found'[h][e] = j
    <3>1. PICK e \in Executions : h \in Dids /\ status'[h][e] = "self" /\ found'[h][e] = j
      BY <2>1
    <3>2. CASE h = p /\ e = f
      BY <1>h, <1>m, <1>s, <3>1, <3>2
    <3>3. CASE h # p \/ e # f
      BY <1>m, <3>1, <3>3 DEF Heads
    <3> QED
      BY <3>2, <3>3
  <2>2. CASE (\E x \in executions : x.id = j /\ Head(x.listed) = h)
             \/ (\E z \in replies : z.registration = j /\ z.listed # <<>> /\ Head(z.listed) = h)
    BY <2>2 DEF Heads
  <2> QED
    BY <1>1, <1>u, <2>1, <2>2 DEF Heads
<1>2. Numbered'
  <2>1. \A r \in Dids, e \in Executions :
          status'[r][e] = "other" => found'[r][e] \in Nat /\ found'[r][e] < nextRegistration
    BY <1>h, <1>i, <1>m, <1>o DEF Numbered
  <2> QED
    BY <1>1, <1>i, <1>u, <2>1 DEF Numbered
<1>3. OneHead'
  BY <1>1, <1>i DEF OneHead
<1>4. OtherHeads'
  <2>1. status'[p][f] = "other" => ~Heads(i, p)
    BY <1>h, <1>i, <1>o DEF OneHead
  <2>2. \A r \in Dids, e \in Executions : status'[r][e] = "other" => ~Heads(found'[r][e], r)
    BY <1>i, <1>m, <2>1 DEF OtherHeads
  <2> QED
    BY <1>1, <2>2 DEF OtherHeads
<1> QED
  BY <1>2, <1>3, <1>4 DEF AnswerInv

(* The mediator registers and answers: rows grow at their end, and a new   *)
(* one takes the next id.                                                  *)
LEMMA RegisterKeeps ==
    ASSUME AnswerInv, AnswerTypeOK', NEW q \in requests, ExecutionRegister(q)
    PROVE  AnswerInv'
<1> DEFINE r == q.replica
           e == q.execution
           left == Registering(r, e)
           stands == {x \in left : r \in ToSet(x.listed)}
           refusal == [id |-> None, listed |-> <<>>]
<1>i. AnswerTypeOK /\ Numbered /\ OneHead /\ OtherHeads /\ ExecutionsTypeOK
  BY DEF AnswerInv, AnswerTypeOK
<1>q. q \in Requests /\ r \in Dids /\ e \in Executions
  BY <1>i DEF AnswerTypeOK, Requests
<1>u. UNCHANGED <<status, found>>
  BY DEF ExecutionRegister
<1>r. Reply(q, {refusal}) =>
        \A y \in replies' : y \in replies \/ y.listed = <<>>
  BY DEF Reply
<1>k. Reply(q, stands) =>
        \A y \in replies' : y \in replies \/ \E x \in stands : y.registration = x.id /\ y.listed = x.listed
  BY DEF Reply
<1>1. CASE ~IsMember(r, q.mediator)
  <2>1. UNCHANGED <<executions, nextRegistration>> /\ \A y \in replies' : y \in replies \/ y.listed = <<>>
    BY <1>1, <1>r DEF ExecutionRegister, executionVars
  <2>2. \A i, h : Heads(i, h)' => Heads(i, h)
    BY <1>u, <2>1 DEF Heads
  <2>3. Numbered' /\ OneHead' /\ OtherHeads'
    BY <1>i, <1>u, <2>1, <2>2 DEF Numbered, OneHead, OtherHeads
  <2> QED
    BY <2>3 DEF AnswerInv
<1>2. CASE IsMember(r, q.mediator)
  <2> DEFINE a == replicas[r].account
  <2>1. /\ IsActive(r) /\ executions' = (executions \ RowsOf(a, e)) \cup left
        /\ nextRegistration' = nextRegistration + IF RowsOf(a, e) = {} /\ left # {} THEN 1 ELSE 0
        /\ Reply(q, IF stands = {} THEN {refusal} ELSE stands)
    BY <1>2 DEF ExecutionRegister, RegisterExecution, IsMember
  <2>2. \A y \in replies' :
          \/ y \in replies \/ y.listed = <<>>
          \/ \E x \in stands : y.registration = x.id /\ y.listed = x.listed
    <3> HIDE DEF stands
    <3> QED
      BY <1>k, <1>r, <2>1
  <2>3. \A x \in RowsOf(a, e) : x \in executions /\ x \in Registrations /\ x.listed # <<>>
    BY <1>i DEF RowsOf, ExecutionsTypeOK, Numbered
  <2>n. nextRegistration \in Nat
    BY <1>i DEF ExecutionsTypeOK
  <2>4. CASE left = {List(x, r) : x \in RowsOf(a, e)}
    <3>1. ASSUME NEW x \in left
          PROVE  x.listed # <<>> /\ \E z \in executions : z.id = x.id /\ Head(z.listed) = Head(x.listed)
      <4>1. PICK z \in RowsOf(a, e) : x = List(z, r)
        BY <2>4
      <4> QED
        BY <1>q, <2>3, <4>1, ListFacts
    <3>2. nextRegistration' = nextRegistration
      <4>1. RowsOf(a, e) = {} => left = {}
        BY <2>4
      <4> HIDE DEF left
      <4> QED
        BY <2>1, <2>n, <4>1
    <3>3. \A i, h : Heads(i, h)' => Heads(i, h)
      <4> HIDE DEF left
      <4>1. \A x \in executions' : x \in executions \/ x \in left
        BY <2>1
      <4>2. \A x \in stands : x \in left
        OBVIOUS
      <4> HIDE DEF stands
      <4> QED
        BY <1>u, <2>2, <3>1, <4>1, <4>2 DEF Heads
    <3>4. \A x \in executions' : x.listed # <<>>
      <4> HIDE DEF left
      <4> QED
        BY <1>i, <2>1, <3>1 DEF Numbered
    <3>5. Numbered' /\ OneHead' /\ OtherHeads'
      BY <1>i, <1>u, <3>2, <3>3, <3>4 DEF Numbered, OneHead, OtherHeads
    <3> QED
      BY <3>5 DEF AnswerInv
  <2>5. CASE RowsOf(a, e) = {} /\ \E y \in Registrations : left = {y} /\ y.id = nextRegistration /\ y.listed = <<r>>
    <3>1. PICK new \in Registrations : left = {new} /\ new.id = nextRegistration /\ new.listed = <<r>>
      BY <2>5
    <3>2. nextRegistration' = nextRegistration + 1 /\ executions' = executions \cup {new}
      <4>1. left # {} /\ RowsOf(a, e) = {}
        BY <2>5, <3>1
      <4> HIDE DEF left
      <4> QED
        BY <2>1, <3>1, <4>1
    <3>3. Head(new.listed) = r /\ new.listed # <<>>
      BY <3>1
    <3>4. \A i, h : Heads(i, h)' => Heads(i, h) \/ (i = nextRegistration /\ h = r)
      <4>1. \A x \in stands : x = new
        BY <3>1
      <4> HIDE DEF stands
      <4> QED
        BY <1>u, <2>2, <3>1, <3>2, <3>3, <4>1 DEF Heads
    <3>5. \A x \in executions' : x.listed # <<>>
      BY <1>i, <3>2, <3>3 DEF Numbered
    <3>6. Numbered'
      <4>1. nextRegistration' \in Nat /\ nextRegistration < nextRegistration'
            /\ \A i \in Nat : i < nextRegistration => i < nextRegistration'
        BY <2>n, <3>2
      <4>2. \A i, h : Heads(i, h)' => i \in Nat /\ i < nextRegistration'
        BY <1>i, <2>n, <3>4, <4>1 DEF Numbered
      <4>3. \A p \in Dids, f \in Executions :
              status'[p][f] = "other" => found'[p][f] \in Nat /\ found'[p][f] < nextRegistration'
        BY <1>i, <1>u, <4>1 DEF Numbered
      <4> QED
        BY <3>5, <4>2, <4>3 DEF Numbered
    <3>7. \A h : ~Heads(nextRegistration, h)
      BY <1>i, <2>n DEF Numbered
    <3>8. OneHead'
      BY <1>i, <3>4, <3>7 DEF OneHead
    <3>9. OtherHeads'
      <4>1. \A p \in Dids, f \in Executions : status[p][f] = "other" => found[p][f] # nextRegistration
        BY <1>i, <2>n DEF Numbered
      <4> QED
        BY <1>i, <1>u, <3>4, <4>1 DEF OtherHeads
    <3> QED
      BY <3>6, <3>8, <3>9 DEF AnswerInv
  <2> QED
    BY <1>i, <1>q, <2>1, <2>4, <2>5, RegisteringFacts
<1> QED
  BY <1>1, <1>2

(* Every step keeps the invariant of the heads.                            *)
LEMMA AnswerStep == AnswerInv /\ [AnswerNext]_allAnswerVars => AnswerInv'
<1> SUFFICES ASSUME AnswerInv, [AnswerNext]_allAnswerVars PROVE AnswerInv'
  OBVIOUS
<1>0. CASE UNCHANGED allAnswerVars
  <2>1. UNCHANGED <<bindingVars, executionVars, answerVars>>
    BY <1>0 DEF allAnswerVars
  <2>2. AnswerTypeOK'
    BY <2>1 DEF bindingVars, executionVars, answerVars, AnswerTypeOK, ExecutionsTypeOK,
       BindingsTypeOK, AnswerInv
  <2> QED
    BY <2>1, <2>2, AnswerFewer DEF executionVars, answerVars
<1>n. CASE AnswerNext
  <2>t. AnswerTypeOK /\ AnswerTypeOK'
    BY <1>n, AnswerTypeStep DEF AnswerInv
  <2>b. \A r \in Dids, e \in Executions, s \in Statuses \ {"self", "other"} :
          Become(r, e, s) => \A p \in Dids, f \in Executions :
                                status'[p][f] \in {"self", "other"} => status'[p][f] = status[p][f]
    BY <2>t DEF Become, AnswerTypeOK
  <2>s. {"first", "second", "unknown"} \subseteq Statuses \ {"self", "other"}
    BY DEF Statuses, Attempts
  <2>u. \A r, e : Unread(r, e) => replies' \subseteq replies
    BY DEF Unread
  <2>1. ASSUME NEW a \in Dids, NEW m \in Mediators, Bind(a, m) \/ DeleteAccount(a, m) PROVE AnswerInv'
    BY <2>1, <2>t, AnswerFewer DEF Bind, Enrol, DeleteAccount, DeleteAccountAndExecutions,
       executionVars, answerVars
  <2>2. ASSUME NEW a \in Dids, NEW d \in Dids, NEW m \in Mediators, RemoveFromAccount(a, m, d) PROVE AnswerInv'
    BY <2>2, <2>t, AnswerFewer DEF RemoveFromAccount, RemoveReplicaKeepingExecutions,
       executionVars
  <2>3. ASSUME NEW a \in Dids, NEW e \in Executions, Arrive(a, e) PROVE AnswerInv'
    BY <2>3, <2>t, AnswerFewer DEF Arrive, executionVars
  <2>4. ASSUME NEW r \in Dids, NEW m \in Mediators, NEW e \in Executions,
               FindResponder(r, m, e) \/ Unanswered(r, m, e)
        PROVE  AnswerInv'
    BY <2>4, <2>b, <2>s, <2>t, <2>u, AnswerFewer DEF FindResponder, Unanswered, executionVars
  <2>5. ASSUME NEW r \in Dids, NEW e \in Executions, NoLine(r, e) \/ LinkClosed(r, e) PROVE AnswerInv'
    BY <2>5, <2>b, <2>s, <2>t, <2>u, AnswerFewer DEF NoLine, LinkClosed, executionVars
  <2>6. CASE Purge \/ AnswerTick
    BY <2>6, <2>t, AnswerFewer DEF Purge, PurgeExecutions, AnswerTick, ExecutionsTick,
       answerVars
  <2> QED
    BY <1>n, <2>1, <2>2, <2>3, <2>4, <2>5, <2>6, <2>t, AnsweredKeeps, RegisterKeeps DEF
       AnswerNext
<1> QED
  BY <1>0, <1>n

(* At first nothing is registered.                                         *)
LEMMA AnswerStarts == AnswerInit => AnswerInv
<1> SUFFICES ASSUME AnswerInit PROVE AnswerInv
  OBVIOUS
<1>1. BindingsTypeOK
  BY DEF AnswerInit, ExecutionsInit, BindingsInit, BindingsTypeOK
<1>2. AnswerTypeOK
  BY <1>1 DEF AnswerInit, ExecutionsInit, ExecutionsTypeOK, Statuses, AnswerTypeOK
<1>3. Numbered /\ OneHead /\ OtherHeads
  BY DEF AnswerInit, ExecutionsInit, Heads, Numbered, OneHead, OtherHeads
<1> QED
  BY <1>2, <1>3 DEF AnswerInv

(* In every behaviour of mediator and responders the heads are settled.    *)
THEOREM AnswerInvariant == AnswerSpec => []AnswerInv
<1> QED
  BY AnswerStarts, AnswerStep, PTL DEF AnswerSpec

(* Tables, responders and messages keep their types.                       *)
THEOREM AnswerTypeCorrect == AnswerSpec => []AnswerTypeOK
<1>1. AnswerInv => AnswerTypeOK
  BY DEF AnswerInv
<1> QED
  BY <1>1, AnswerInvariant, PTL

(* Two replicas that both answer an input were never listed under one      *)
(* registration, whatever was lost, asked twice, handled late, purged or   *)
(* removed in between.                                                     *)
THEOREM AnswererUnique == AnswerSpec => []OneAnswererPerRegistration
<1> QED
  BY HeadsDecide, AnswerInvariant, PTL

(* Of the replicas a registration lists, one at least has not read in it   *)
(* that another answers.                                                   *)
THEOREM AnswererRemains == AnswerSpec => []NotAllLeaveIt
<1> QED
  BY HeadsDecide, AnswerInvariant, PTL

-----------------------------------------------------------------------------
(***************************************************************************)
(* Enrolling at the mediators, for any runtimes of one vault, any          *)
(* arrangements and any faults.                                            *)
(***************************************************************************)

(* What a procedure with the turn in arrangement m relies on, given the    *)
(* replica ID its runtime writes under and what the mediator holds: it     *)
(* asks for its own replica or for an address it has still to have held,   *)
(* and an answer it was given is in effect.                                *)
Sharing == {"shares", "discloses"}

Sound(k, m, self, active, addresses) ==
    /\ k.does = Nothing => k = Idle
    /\ k.asked = Nothing => k.answer = Nothing
    /\ k.asked # Nothing => k.asked.mediation = m
    /\ k.does = "registers" => k.asked # Nothing /\ k.asked.kind = "account-register"
    /\ k.does = "joins" =>
          /\ k.asked # Nothing => k.asked.kind = "replica-add" /\ k.asked.about = self
          /\ k.answer = "yes" => self \in active
    /\ k.does \in Sharing =>
          /\ self \in active
          /\ k.asked # Nothing => k.asked.kind = "recipient-add" /\ k.asked.about \in k.todo
          /\ k.answer = "yes" => k.asked.about \in addresses
    /\ k.does = "discloses" =>
          /\ k.address \in Addresses /\ Route[k.address] = m
          /\ k.address \in k.todo \cup k.refused \cup addresses

ProceduresInv ==
    \A r \in Runtimes, m \in Mediations : Sound(proc[r][m], m, author[r], roster[m], held[m])

(* What a runtime was told is true.                                        *)
KeptInv ==
    \A r \in Runtimes, m \in Mediations :
        /\ \A p \in Replicas : ReplicaAddedKey(m, p) \in kept[r] => p \in roster[m]
        /\ \A d \in Addresses : RecipientAddedKey(m, d) \in kept[r] => d \in held[m]

(* No two runtimes write under one replica ID, nor one under an ID that    *)
(* was given up.                                                           *)
AuthorsInv ==
    /\ \A r, q \in Runtimes : author[r] = author[q] => r = q
    /\ \A r \in Runtimes : author[r] \notin retired

(* A grant of a runtime's is in its own vault, wherever else it is, so the *)
(* runtime decides on all of them; and a replica ID no runtime has had is  *)
(* granted nowhere.                                                        *)
GrantsInv ==
    \A r, q \in Runtimes, p \in Replicas, m \in Mediations :
        ReplicaCreated(p, m) \in vault[r] =>
            /\ p \in retired \/ \E w \in Runtimes : author[w] = p
            /\ author[q] = p => ReplicaCreated(p, m) \in vault[q]

GrantedOnce ==
    \A r, q \in Runtimes, p \in Replicas, m, n \in Mediations :
        ReplicaCreated(p, m) \in vault[r] /\ ReplicaCreated(p, n) \in vault[q] => m = n

DisclosedInv ==
    \A r \in Runtimes, p \in Replicas, d \in Addresses :
        Disclosed(p, d) \in vault[r] => d \in held[Route[d]] /\ roster[Route[d]] # {}

EnrollmentInv ==
    /\ EnrollmentTypeOK
    /\ ProceduresInv
    /\ KeptInv
    /\ AuthorsInv
    /\ GrantsInv
    /\ GrantedOnce
    /\ DisclosedInv
-----------------------------------------------------------------------------
(* What the helpers of the procedures come to.                             *)

(* A procedure that begins, and one that is done.                          *)
LEMMA ProcFacts ==
    /\ Idle \in Procs
    /\ \A does \in {"registers", "joins", "shares", "discloses"} :
          Proc(does) \in Procs /\ Proc(does) = [Idle EXCEPT !.does = does] /\ Proc(does).does = does
          /\ Proc(does).asked = Nothing /\ Proc(does).answer = Nothing /\ Proc(does).todo = {} /\ Proc(does).refused = {}
BY DEF Idle, Procs, Proc

(* One procedure moves and no other.                                       *)
LEMMA GoesFacts ==
    ASSUME EnrollmentTypeOK, NEW r \in Runtimes, NEW m \in Mediations, NEW k \in Procs, Goes(r, m, k)
    PROVE  /\ proc' \in [Runtimes -> [Mediations -> Procs]]
           /\ proc'[r][m] = k
           /\ \A s \in Runtimes, n \in Mediations : s # r \/ n # m => proc'[s][n] = proc[s][n]
<1>1. proc \in [Runtimes -> [Mediations -> Procs]]
  BY DEF EnrollmentTypeOK
<1>2. proc' = [proc EXCEPT ![r] = [proc[r] EXCEPT ![m] = k]]
  BY DEF Goes
<1> QED
  BY <1>1, <1>2

(* Asking for one of the addresses left, or for none if none is.           *)
LEMMA AskNextFacts ==
    ASSUME NEW r, NEW m \in Mediations, NEW k \in Procs, AskNext(r, m, k)
    PROVE  \E j \in Procs :
              /\ Goes(r, m, j)
              /\ j.does = k.does /\ j.answer = k.answer /\ j.todo = k.todo /\ j.refused = k.refused /\ j.address = k.address
              /\ \/ k.todo = {} /\ j = k
                 \/ \E d \in k.todo : j.asked = Asks("recipient-add", m, d)
<1>1. CASE k.todo = {}
  BY <1>1 DEF AskNext
<1>2. CASE k.todo # {}
  <2>1. PICK d \in k.todo : Goes(r, m, [k EXCEPT !.asked = Asks("recipient-add", m, d)])
    BY <1>2 DEF AskNext
  <2>2. d \in Addresses
    BY DEF Procs
  <2>3. Asks("recipient-add", m, d) \in EnrollRequests
    BY <2>2 DEF Asks, EnrollRequests
  <2>4. PICK j : j = [k EXCEPT !.asked = Asks("recipient-add", m, d)]
    OBVIOUS
  <2>5. j \in Procs
    BY <2>3, <2>4 DEF Procs
  <2>6. /\ j.does = k.does /\ j.answer = k.answer /\ j.todo = k.todo /\ j.refused = k.refused
        /\ j.address = k.address /\ j.asked = Asks("recipient-add", m, d)
    BY <2>4 DEF Procs
  <2> QED
    BY <2>1, <2>4, <2>5, <2>6
<1> QED
  BY <1>1, <1>2

(* An event recorded is added to one vault.                                *)
LEMMA RecordFacts ==
    ASSUME EnrollmentTypeOK, NEW r \in Runtimes, NEW e \in Events, Record(r, e)
    PROVE  /\ vault' \in [Runtimes -> SUBSET Events]
           /\ vault'[r] = vault[r] \cup {e}
           /\ \A s \in Runtimes : s # r => vault'[s] = vault[s]
BY DEF EnrollmentTypeOK, Record

(* Events of different types are different, and none is of two kinds.      *)
LEMMA EventKinds ==
    /\ \A m \in Mediations : Created(m) \in Events /\ Granted(m) \in Events
    /\ \A p \in Replicas, m \in Mediations : ReplicaCreated(p, m) \in Events
    /\ \A d \in Addresses : DidCreated(d) \in Events /\ DidRetired(d) \in Events
    /\ \A p \in Replicas, d \in Addresses : Disclosed(p, d) \in Events
    /\ \A m \in Mediations : Created(m).type \notin {"replica.created", "did.disclosed"}
                          /\ Granted(m).type \notin {"replica.created", "did.disclosed"}
    /\ \A d \in Addresses : DidCreated(d).type \notin {"replica.created", "did.disclosed"}
                         /\ DidRetired(d).type \notin {"replica.created", "did.disclosed"}
<1>1. \A m \in Mediations : Created(m).type = "mediation.created" /\ Granted(m).type = "mediation.granted"
  BY DEF Created, Granted
<1>2. \A d \in Addresses : DidCreated(d).type = "did.created" /\ DidRetired(d).type = "did.retired"
  BY DEF DidCreated, DidRetired
<1> QED
  BY <1>1, <1>2 DEF Events

LEMMA EventNames ==
    ASSUME NEW p, NEW m, NEW q, NEW n
    PROVE  /\ ReplicaCreated(p, m).type = "replica.created"
           /\ Disclosed(p, m).type = "did.disclosed"
           /\ Disclosed(p, m).address = m
           /\ ReplicaCreated(p, m) = ReplicaCreated(q, n) => p = q /\ m = n
           /\ Disclosed(p, m) = Disclosed(q, n) => p = q /\ m = n
           /\ ReplicaCreated(p, m) # Disclosed(q, n)
<1>1. ReplicaCreated(p, m).type = "replica.created" /\ Disclosed(p, m).type = "did.disclosed" /\ Disclosed(q, n).type = "did.disclosed"
  BY DEF ReplicaCreated, Disclosed
<1>2. ReplicaCreated(p, m).replica = p /\ ReplicaCreated(p, m).mediation = m /\ ReplicaCreated(q, n).replica = q /\ ReplicaCreated(q, n).mediation = n
  BY DEF ReplicaCreated
<1>3. Disclosed(p, m).by = p /\ Disclosed(p, m).address = m /\ Disclosed(q, n).by = q /\ Disclosed(q, n).address = n
  BY DEF Disclosed
<1> QED
  BY <1>1, <1>2, <1>3

(* Nothing is none of the words and no request.                            *)
LEMMA NothingFacts ==
    /\ Nothing # "registers" /\ Nothing # "joins" /\ Nothing # "shares" /\ Nothing # "discloses"
    /\ Nothing # "yes" /\ Nothing # "no" /\ \A q \in EnrollRequests : q # Nothing
BY NothingApart

LEMMA RequestFacts ==
    ASSUME NEW q \in EnrollRequests
    PROVE  /\ q.mediation \in Mediations
           /\ q.kind \in {"account-register", "replica-add", "recipient-add"}
           /\ q.kind = "replica-add" => q.about \in Replicas
           /\ q.kind = "recipient-add" => q.about \in Addresses
BY DEF EnrollRequests

(* The mediator only adds: carrying out any request, whenever it arrives,  *)
(* brings what it asks for into effect and takes nothing back.             *)
LEMMA ServesFacts ==
    ASSUME EnrollmentTypeOK, NEW q \in EnrollRequests, Serves(q)
    PROVE  /\ registered' \subseteq Mediations
           /\ roster' \in [Mediations -> SUBSET Replicas] /\ \A n \in Mediations : roster[n] \subseteq roster'[n]
           /\ held' \in [Mediations -> SUBSET Addresses] /\ \A n \in Mediations : held[n] \subseteq held'[n]
           /\ q.kind = "replica-add" => q.about \in roster'[q.mediation]
           /\ q.kind = "recipient-add" => q.about \in held'[q.mediation]
<1>1. CASE q.kind = "account-register"
  <2>1. RegistersAccount(q.mediation)
    BY <1>1 DEF Serves
  <2> QED
    BY <1>1, <2>1, RequestFacts DEF RegistersAccount, EnrollmentTypeOK
<1>2. CASE q.kind = "replica-add"
  <2>1. AddsReplica(q.mediation, q.about)
    BY <1>2 DEF Serves
  <2> QED
    BY <1>2, <2>1, RequestFacts DEF AddsReplica, EnrollmentTypeOK
<1>3. CASE q.kind = "recipient-add"
  <2>1. AddsRecipient(q.mediation, q.about)
    BY <1>3 DEF Serves
  <2> QED
    BY <1>3, <2>1, RequestFacts DEF AddsRecipient, EnrollmentTypeOK
<1> QED
  BY <1>1, <1>2, <1>3, RequestFacts

(* An idle procedure is sound, and one that is sound stays so as the       *)
(* mediator adds.                                                          *)
LEMMA IdleSound ==
    ASSUME NEW m, NEW self, NEW active, NEW addresses
    PROVE  Sound(Idle, m, self, active, addresses)
<1>1. Idle.does = Nothing /\ Idle.asked = Nothing /\ Idle.answer = Nothing
  BY DEF Idle
<1> QED
  BY <1>1, NothingFacts DEF Sound, Sharing

LEMMA SoundGrows ==
    ASSUME NEW k, NEW m, NEW self, NEW active, NEW addresses, Sound(k, m, self, active, addresses),
           NEW active2, active \subseteq active2, NEW addresses2, addresses \subseteq addresses2
    PROVE  Sound(k, m, self, active2, addresses2)
BY DEF Sound

-----------------------------------------------------------------------------
(* What the parts of the invariant ask of a step.                          *)

(* The mediators only ever add to what they hold.                          *)
MediatorGrows ==
    /\ registered' \subseteq Mediations
    /\ roster' \in [Mediations -> SUBSET Replicas] /\ \A n \in Mediations : roster[n] \subseteq roster'[n]
    /\ held' \in [Mediations -> SUBSET Addresses] /\ \A n \in Mediations : held[n] \subseteq held'[n]

LEMMA MediatorRests == ASSUME EnrollmentTypeOK, UNCHANGED mediatorVars PROVE MediatorGrows
BY DEF EnrollmentTypeOK, mediatorVars, MediatorGrows

(* Nothing is taken out of a vault, and no grant or disclosure comes in    *)
(* that is not in another vault already.                                   *)
VaultGrows ==
    /\ vault' \in [Runtimes -> SUBSET Events]
    /\ \A s \in Runtimes : vault[s] \subseteq vault'[s]
    /\ \A s \in Runtimes : \A e \in vault'[s] :
          e.type \in {"replica.created", "did.disclosed"} => \E w \in Runtimes : e \in vault[w]

LEMMA VaultRests == ASSUME EnrollmentTypeOK, UNCHANGED vault PROVE VaultGrows
BY DEF EnrollmentTypeOK, VaultGrows

LEMMA RecordGrows ==
    ASSUME EnrollmentTypeOK, NEW r \in Runtimes, NEW e \in Events, Record(r, e), e.type \notin {"replica.created", "did.disclosed"}
    PROVE  VaultGrows
BY RecordFacts DEF VaultGrows

(* What the vaults say stays right under a step that brings no new grant   *)
(* or disclosure.                                                          *)
VaultInv == AuthorsInv /\ GrantsInv /\ GrantedOnce /\ DisclosedInv

LEMMA DisclosedKept ==
    ASSUME DisclosedInv, EnrollmentTypeOK, MediatorGrows, NEW s \in Runtimes, NEW w \in Runtimes, NEW p \in Replicas, NEW d \in Addresses,
           Disclosed(p, d) \in vault[w]
    PROVE  d \in held'[Route[d]] /\ roster'[Route[d]] # {}
<1>1. d \in held[Route[d]] /\ roster[Route[d]] # {}
  BY DEF DisclosedInv
<1>2. Route[d] \in Mediations
  BY EnrollmentAssumption
<1> QED
  BY <1>1, <1>2 DEF MediatorGrows

LEMMA VaultKeeps ==
    ASSUME EnrollmentInv, VaultGrows, MediatorGrows, UNCHANGED <<author, retired>>
    PROVE  VaultInv'
<1>1. AuthorsInv'
  BY DEF EnrollmentInv, AuthorsInv
<1>2. GrantsInv'
  <2> SUFFICES ASSUME NEW r \in Runtimes, NEW q \in Runtimes, NEW p \in Replicas, NEW m \in Mediations,
                      ReplicaCreated(p, m) \in vault'[r]
               PROVE  /\ p \in retired \/ \E w \in Runtimes : author[w] = p
                      /\ author[q] = p => ReplicaCreated(p, m) \in vault'[q]
    BY DEF GrantsInv
  <2>1. PICK w \in Runtimes : ReplicaCreated(p, m) \in vault[w]
    BY EventNames DEF VaultGrows
  <2>2. /\ p \in retired \/ \E v \in Runtimes : author[v] = p
        /\ author[q] = p => ReplicaCreated(p, m) \in vault[q]
    BY <2>1 DEF EnrollmentInv, GrantsInv
  <2> QED
    BY <2>2 DEF VaultGrows
<1>3. GrantedOnce'
  <2> SUFFICES ASSUME NEW r \in Runtimes, NEW q \in Runtimes, NEW p \in Replicas, NEW m \in Mediations, NEW n \in Mediations,
                      ReplicaCreated(p, m) \in vault'[r], ReplicaCreated(p, n) \in vault'[q]
               PROVE  m = n
    BY DEF GrantedOnce
  <2>1. PICK w \in Runtimes : ReplicaCreated(p, m) \in vault[w]
    BY EventNames DEF VaultGrows
  <2>2. PICK v \in Runtimes : ReplicaCreated(p, n) \in vault[v]
    BY EventNames DEF VaultGrows
  <2> QED
    BY <2>1, <2>2 DEF EnrollmentInv, GrantedOnce
<1>4. DisclosedInv'
  <2> SUFFICES ASSUME NEW r \in Runtimes, NEW p \in Replicas, NEW d \in Addresses, Disclosed(p, d) \in vault'[r]
               PROVE  d \in held'[Route[d]] /\ roster'[Route[d]] # {}
    BY DEF DisclosedInv
  <2>1. PICK w \in Runtimes : Disclosed(p, d) \in vault[w]
    BY EventNames DEF VaultGrows
  <2> QED
    BY <2>1, DisclosedKept DEF EnrollmentInv
<1> QED
  BY <1>1, <1>2, <1>3, <1>4 DEF VaultInv

(* What the runtimes keep stays true.                                      *)
LEMMA KeptKeeps == ASSUME EnrollmentInv, MediatorGrows, UNCHANGED kept PROVE KeptInv'
BY DEF EnrollmentInv, KeptInv, MediatorGrows

(* The procedures stay sound if the one that moves does.                   *)
LEMMA ProceduresKeep ==
    ASSUME EnrollmentInv, MediatorGrows, UNCHANGED author, NEW r \in Runtimes, NEW m \in Mediations, NEW k \in Procs,
           Goes(r, m, k), Sound(k, m, author[r], roster'[m], held'[m])
    PROVE  ProceduresInv'
<1> SUFFICES ASSUME NEW s \in Runtimes, NEW n \in Mediations
             PROVE  Sound(proc'[s][n], n, author'[s], roster'[n], held'[n])
  BY DEF ProceduresInv
<1>1. CASE s = r /\ n = m
  BY <1>1, GoesFacts DEF EnrollmentInv
<1>2. CASE s # r \/ n # m
  <2>1. proc'[s][n] = proc[s][n]
    BY <1>2, GoesFacts DEF EnrollmentInv
  <2>2. Sound(proc[s][n], n, author[s], roster[n], held[n])
    BY DEF EnrollmentInv, ProceduresInv
  <2>3. Sound(proc[s][n], n, author[s], roster'[n], held'[n])
    BY <2>2, SoundGrows DEF MediatorGrows
  <2> QED
    BY <2>1, <2>3
<1> QED
  BY <1>1, <1>2

LEMMA ProceduresRest ==
    ASSUME EnrollmentInv, MediatorGrows, UNCHANGED <<author, proc>>
    PROVE  ProceduresInv'
<1> SUFFICES ASSUME NEW s \in Runtimes, NEW n \in Mediations
             PROVE  Sound(proc'[s][n], n, author'[s], roster'[n], held'[n])
  BY DEF ProceduresInv
<1>1. Sound(proc[s][n], n, author[s], roster[n], held[n])
  BY DEF EnrollmentInv, ProceduresInv
<1>2. Sound(proc[s][n], n, author[s], roster'[n], held'[n])
  BY <1>1, SoundGrows DEF MediatorGrows
<1> QED
  BY <1>2

(* A step of one procedure that leaves the vault's grants, the options,    *)
(* the mediators and the author alone.                                     *)
LEMMA OneGoes ==
    ASSUME EnrollmentInv, NEW r \in Runtimes, NEW m \in Mediations, NEW k \in Procs, Goes(r, m, k),
           Sound(k, m, author[r], roster[m], held[m]), VaultGrows,
           UNCHANGED <<author, kept, mediatorVars, faultVars>>
    PROVE  EnrollmentInv'
<1>1. MediatorGrows
  BY MediatorRests DEF EnrollmentInv
<1>2. VaultInv'
  BY <1>1, VaultKeeps DEF faultVars
<1>3. KeptInv'
  BY <1>1, KeptKeeps
<1>4. Sound(k, m, author[r], roster'[m], held'[m])
  BY DEF mediatorVars
<1>5. ProceduresInv'
  BY <1>1, <1>4, ProceduresKeep
<1>6. EnrollmentTypeOK'
  <2>1. proc' \in [Runtimes -> [Mediations -> Procs]]
    BY GoesFacts DEF EnrollmentInv
  <2> QED
    BY <2>1 DEF EnrollmentInv, EnrollmentTypeOK, VaultGrows, mediatorVars, faultVars
<1> QED
  BY <1>2, <1>3, <1>5, <1>6 DEF EnrollmentInv, VaultInv

(* The procedure that has the turn, as the steps read it.                  *)
LEMMA ProcedureFacts ==
    ASSUME EnrollmentInv, NEW r \in Runtimes, NEW m \in Mediations
    PROVE  /\ proc[r][m] \in Procs
           /\ Sound(proc[r][m], m, author[r], roster[m], held[m])
           /\ author[r] \in Replicas /\ vault[r] \subseteq Events
BY DEF EnrollmentInv, EnrollmentTypeOK, ProceduresInv

-----------------------------------------------------------------------------
(* The vault's own operations and imports. *)
LEMMA VaultOperates ==
    ASSUME EnrollmentInv, VaultGrows, UNCHANGED <<author, kept, proc, mediatorVars, faultVars>>
    PROVE  EnrollmentInv'
<1>1. MediatorGrows
  BY MediatorRests DEF EnrollmentInv
<1>2. VaultInv'
  BY <1>1, VaultKeeps DEF faultVars
<1>3. KeptInv'
  BY <1>1, KeptKeeps
<1>4. ProceduresInv'
  BY <1>1, ProceduresRest
<1>5. EnrollmentTypeOK'
  BY DEF EnrollmentInv, EnrollmentTypeOK, VaultGrows, mediatorVars, faultVars
<1> QED
  BY <1>2, <1>3, <1>4, <1>5 DEF EnrollmentInv, VaultInv

LEMMA VaultStepsKeep ==
    ASSUME EnrollmentInv, NEW r \in Runtimes,
           \/ \E m \in Mediations : CreateMediation(r, m)
           \/ \E d \in Addresses : CreateDid(r, d) \/ RetireDid(r, d)
           \/ \E q \in Runtimes : Import(r, q)
    PROVE  EnrollmentInv'
<1>1. ASSUME NEW m \in Mediations, CreateMediation(r, m) PROVE EnrollmentInv'
  <2>1. VaultGrows
    BY <1>1, RecordGrows, EventKinds DEF CreateMediation, EnrollmentInv
  <2> QED
    BY <1>1, <2>1, VaultOperates DEF CreateMediation
<1>2. ASSUME NEW d \in Addresses, CreateDid(r, d) \/ RetireDid(r, d) PROVE EnrollmentInv'
  <2>1. VaultGrows
    BY <1>2, RecordGrows, EventKinds DEF CreateDid, RetireDid, EnrollmentInv
  <2> QED
    BY <1>2, <2>1, VaultOperates DEF CreateDid, RetireDid
<1>3. ASSUME NEW q \in Runtimes, Import(r, q) PROVE EnrollmentInv'
  <2>1. VaultGrows
    BY <1>3 DEF Import, VaultGrows, EnrollmentInv, EnrollmentTypeOK
  <2> QED
    BY <1>3, <2>1, VaultOperates DEF Import
<1> QED
  BY <1>1, <1>2, <1>3

-----------------------------------------------------------------------------
(* Enrolling. *)
LEMMA EnrollKeeps ==
    ASSUME EnrollmentInv, NEW r \in Runtimes, NEW m \in Mediations, Enroll(r, m)
    PROVE  EnrollmentInv'
<1> DEFINE k == IF Granted(m) \in vault[r]
                THEN Proc("joins")
                ELSE [Proc("registers") EXCEPT !.asked = Asks("account-register", m, Nothing)]
<1>1. Asks("account-register", m, Nothing) \in EnrollRequests
  BY DEF Asks, EnrollRequests
<1>2. k \in Procs /\ Sound(k, m, author[r], roster[m], held[m])
  <2>1. CASE Granted(m) \in vault[r]
    BY <2>1, ProcFacts, NothingFacts DEF Sound, Sharing
  <2>2. CASE Granted(m) \notin vault[r]
    <3>1. PICK j : j = [Proc("registers") EXCEPT !.asked = Asks("account-register", m, Nothing)]
      OBVIOUS
    <3>2. j \in Procs /\ j.does = "registers" /\ j.answer = Nothing /\ j.asked = Asks("account-register", m, Nothing)
      BY <1>1, <3>1, ProcFacts DEF Procs
    <3>3. Sound(j, m, author[r], roster[m], held[m])
      BY <1>1, <3>2, NothingFacts DEF Sound, Sharing, Asks
    <3> QED
      BY <2>2, <3>1, <3>2, <3>3
  <2> QED
    BY <2>1, <2>2
<1>3. Goes(r, m, k) /\ UNCHANGED <<vault, author, kept, mediatorVars, faultVars>>
  BY DEF Enroll, vaultVars
<1>4. VaultGrows
  BY <1>3, VaultRests DEF EnrollmentInv
<1> HIDE DEF k
<1> QED
  BY <1>2, <1>3, <1>4, OneGoes

LEMMA AccountRegisteredKeeps ==
    ASSUME EnrollmentInv, NEW r \in Runtimes, NEW m \in Mediations, AccountRegistered(r, m)
    PROVE  EnrollmentInv'
<1>1. VaultGrows
  BY RecordGrows, EventKinds DEF AccountRegistered, EnrollmentInv
<1>2. Proc("joins") \in Procs /\ Sound(Proc("joins"), m, author[r], roster[m], held[m])
  BY ProcFacts, NothingFacts DEF Sound, Sharing
<1>3. Goes(r, m, Proc("joins")) /\ UNCHANGED <<author, kept, mediatorVars, faultVars>>
  BY DEF AccountRegistered
<1> QED
  BY <1>1, <1>2, <1>3, OneGoes

(* A grant the runtime may record is the only one of its replica, in its   *)
(* own vault and so in every other.                                        *)
LEMMA MayJoinFacts ==
    ASSUME EnrollmentInv, NEW r \in Runtimes, NEW m \in Mediations, MayJoin(vault[r], author[r], m)
    PROVE  \A s \in Runtimes, n \in Mediations : ReplicaCreated(author[r], n) \in vault[s] => n = m
<1> SUFFICES ASSUME NEW s \in Runtimes, NEW n \in Mediations, ReplicaCreated(author[r], n) \in vault[s]
             PROVE  n = m
  OBVIOUS
<1>1. author[r] \in Replicas
  BY ProcedureFacts
<1>2. ReplicaCreated(author[r], n) \in vault[r]
  BY <1>1 DEF EnrollmentInv, GrantsInv
<1>3. n \in GrantedIn(vault[r], author[r])
  BY <1>2 DEF GrantedIn
<1>4. CASE MemberOf(vault[r], author[r], m)
  <2>1. ReplicaCreated(author[r], m) \in vault[r]
    BY <1>4 DEF MemberOf, GrantedIn
  <2> QED
    BY <1>1, <1>2, <2>1 DEF EnrollmentInv, GrantedOnce
<1>5. CASE ReplicaStatus(vault[r], author[r]) = "none"
  <2>1. GrantedIn(vault[r], author[r]) = {}
    BY <1>5 DEF ReplicaStatus
  <2> QED
    BY <1>3, <2>1
<1> QED
  BY <1>4, <1>5 DEF MayJoin

(* So recording it keeps every replica in one arrangement.                 *)
LEMMA GrantKeeps ==
    ASSUME EnrollmentInv, NEW r \in Runtimes, NEW m \in Mediations, MayJoin(vault[r], author[r], m),
           Record(r, ReplicaCreated(author[r], m)), UNCHANGED <<author, retired, mediatorVars>>
    PROVE  VaultInv' /\ vault' \in [Runtimes -> SUBSET Events]
<1>1. author[r] \in Replicas
  BY ProcedureFacts
<1>2. /\ vault' \in [Runtimes -> SUBSET Events]
      /\ vault'[r] = vault[r] \cup {ReplicaCreated(author[r], m)}
      /\ \A s \in Runtimes : s # r => vault'[s] = vault[s]
  BY <1>1, RecordFacts, EventKinds DEF EnrollmentInv
<1>3. ASSUME NEW s \in Runtimes, NEW p \in Replicas, NEW n \in Mediations, ReplicaCreated(p, n) \in vault'[s]
      PROVE  ReplicaCreated(p, n) \in vault[s] \/ (p = author[r] /\ n = m)
  <2>1. ReplicaCreated(p, n) = ReplicaCreated(author[r], m) => p = author[r] /\ n = m
    BY EventNames
  <2>2. CASE s = r
    <3>1. ReplicaCreated(p, n) \in vault[r] \cup {ReplicaCreated(author[r], m)}
      BY <1>2, <1>3, <2>2
    <3> QED
      BY <2>1, <2>2, <3>1
  <2>3. CASE s # r
    BY <1>2, <1>3, <2>3
  <2> QED
    BY <2>2, <2>3
<1>4. AuthorsInv'
  BY DEF EnrollmentInv, AuthorsInv
<1>5. GrantsInv'
  <2> SUFFICES ASSUME NEW s \in Runtimes, NEW q \in Runtimes, NEW p \in Replicas, NEW n \in Mediations,
                      ReplicaCreated(p, n) \in vault'[s]
               PROVE  /\ p \in retired \/ \E w \in Runtimes : author[w] = p
                      /\ author[q] = p => ReplicaCreated(p, n) \in vault'[q]
    BY DEF GrantsInv
  <2>1. CASE ReplicaCreated(p, n) \in vault[s]
    <3>1. /\ p \in retired \/ \E w \in Runtimes : author[w] = p
          /\ author[q] = p => ReplicaCreated(p, n) \in vault[q]
      BY <2>1 DEF EnrollmentInv, GrantsInv
    <3> QED
      BY <1>2, <3>1
  <2>2. CASE p = author[r] /\ n = m
    <3>1. author[q] = p => q = r
      BY <2>2 DEF EnrollmentInv, AuthorsInv
    <3> QED
      BY <1>2, <2>2, <3>1
  <2> QED
    BY <1>3, <2>1, <2>2
<1>6. GrantedOnce'
  <2> SUFFICES ASSUME NEW s \in Runtimes, NEW q \in Runtimes, NEW p \in Replicas, NEW n \in Mediations, NEW o \in Mediations,
                      ReplicaCreated(p, n) \in vault'[s], ReplicaCreated(p, o) \in vault'[q]
               PROVE  n = o
    BY DEF GrantedOnce
  <2>1. CASE p = author[r]
    <3>1. n = m
      BY <1>3, <2>1, MayJoinFacts
    <3>2. o = m
      BY <1>3, <2>1, MayJoinFacts
    <3> QED
      BY <3>1, <3>2
  <2>2. CASE p # author[r]
    <3>1. ReplicaCreated(p, n) \in vault[s] /\ ReplicaCreated(p, o) \in vault[q]
      BY <1>3, <2>2
    <3> QED
      BY <3>1 DEF EnrollmentInv, GrantedOnce
  <2> QED
    BY <2>1, <2>2
<1>7. DisclosedInv'
  <2> SUFFICES ASSUME NEW s \in Runtimes, NEW p \in Replicas, NEW d \in Addresses, Disclosed(p, d) \in vault'[s]
               PROVE  d \in held'[Route[d]] /\ roster'[Route[d]] # {}
    BY DEF DisclosedInv
  <2>1. Disclosed(p, d) \in vault[s]
    BY <1>2, EventNames
  <2> QED
    BY <2>1, MediatorRests, DisclosedKept DEF EnrollmentInv
<1> QED
  BY <1>2, <1>4, <1>5, <1>6, <1>7 DEF VaultInv

LEMMA CreateReplicaKeeps ==
    ASSUME EnrollmentInv, NEW r \in Runtimes, NEW m \in Mediations, CreateReplica(r, m)
    PROVE  EnrollmentInv'
<1>1. UNCHANGED <<author, kept, mediatorVars, faultVars>>
  BY DEF CreateReplica
<1>2. CASE MayJoin(vault[r], author[r], m)
  <2> DEFINE j == [Proc("joins") EXCEPT !.asked = Asks("replica-add", m, author[r])]
             k == IF ReplicaAdded(r, m) THEN Idle ELSE j
  <2>1. Record(r, ReplicaCreated(author[r], m)) /\ Goes(r, m, k)
    BY <1>2 DEF CreateReplica
  <2>2. VaultInv' /\ vault' \in [Runtimes -> SUBSET Events]
    BY <1>1, <1>2, <2>1, GrantKeeps DEF faultVars
  <2>3. Asks("replica-add", m, author[r]) \in EnrollRequests
    BY ProcedureFacts DEF Asks, EnrollRequests
  <2>4. k \in Procs /\ Sound(k, m, author[r], roster[m], held[m])
    <3>1. PICK i : i = j
      OBVIOUS
    <3>2. i \in Procs /\ i.does = "joins" /\ i.answer = Nothing /\ i.asked = Asks("replica-add", m, author[r])
      BY <2>3, <3>1, ProcFacts DEF Procs
    <3>3. Sound(i, m, author[r], roster[m], held[m])
      BY <3>2, <2>3, NothingFacts DEF Sound, Sharing, Asks
    <3> QED
      BY <3>1, <3>2, <3>3, ProcFacts, IdleSound
  <2> HIDE DEF k
  <2>5. MediatorGrows
    BY <1>1, MediatorRests DEF EnrollmentInv
  <2>6. KeptInv'
    BY <1>1, <2>5, KeptKeeps
  <2>7. ProceduresInv'
    <3>1. Sound(k, m, author[r], roster'[m], held'[m])
      BY <1>1, <2>4 DEF mediatorVars
    <3> QED
      BY <1>1, <2>1, <2>4, <2>5, <3>1, ProceduresKeep
  <2>8. EnrollmentTypeOK'
    <3>1. proc' \in [Runtimes -> [Mediations -> Procs]]
      BY <2>1, <2>4, GoesFacts DEF EnrollmentInv
    <3> QED
      BY <1>1, <2>2, <3>1 DEF EnrollmentInv, EnrollmentTypeOK, mediatorVars, faultVars
  <2> QED
    BY <2>2, <2>6, <2>7, <2>8 DEF EnrollmentInv, VaultInv
<1>3. CASE ~MayJoin(vault[r], author[r], m)
  <2>1. Goes(r, m, Idle) /\ UNCHANGED vault
    BY <1>3 DEF CreateReplica
  <2>2. VaultGrows
    BY <2>1, VaultRests DEF EnrollmentInv
  <2> QED
    BY <1>1, <2>1, <2>2, ProcFacts, IdleSound, OneGoes
<1> QED
  BY <1>2, <1>3

(* What a runtime keeps after one more confirmation.                       *)
LEMMA ReplicaConfirmedKeeps ==
    ASSUME EnrollmentInv, NEW r \in Runtimes, NEW m \in Mediations, ReplicaConfirmed(r, m)
    PROVE  EnrollmentInv'
<1>1. /\ proc[r][m].does = "joins" /\ proc[r][m].answer = "yes"
      /\ kept' = [kept EXCEPT ![r] = kept[r] \cup {ReplicaAddedKey(m, author[r])}]
      /\ Goes(r, m, Idle)
      /\ UNCHANGED <<vault, author, mediatorVars, faultVars>>
  BY DEF ReplicaConfirmed
<1>2. author[r] \in roster[m] /\ author[r] \in Replicas
  BY <1>1, ProcedureFacts DEF Sound
<1>3. MediatorGrows
  BY <1>1, MediatorRests DEF EnrollmentInv
<1>4. VaultInv'
  BY <1>1, <1>3, VaultRests, VaultKeeps DEF EnrollmentInv, faultVars
<1>5. KeptInv'
  <2> SUFFICES ASSUME NEW s \in Runtimes, NEW n \in Mediations
               PROVE  /\ \A p \in Replicas : ReplicaAddedKey(n, p) \in kept'[s] => p \in roster'[n]
                      /\ \A d \in Addresses : RecipientAddedKey(n, d) \in kept'[s] => d \in held'[n]
    BY DEF KeptInv
  <2>1. /\ \A p \in Replicas : ReplicaAddedKey(n, p) \in kept[s] => p \in roster[n]
        /\ \A d \in Addresses : RecipientAddedKey(n, d) \in kept[s] => d \in held[n]
    BY DEF EnrollmentInv, KeptInv
  <2>2. kept'[s] \subseteq kept[s] \cup {x \in {ReplicaAddedKey(m, author[r])} : s = r}
    BY <1>1 DEF EnrollmentInv, EnrollmentTypeOK
  <2>3. \A p \in Replicas : ReplicaAddedKey(n, p) = ReplicaAddedKey(m, author[r]) => p = author[r] /\ n = m
    BY DEF ReplicaAddedKey
  <2>4. \A d \in Addresses : RecipientAddedKey(n, d) # ReplicaAddedKey(m, author[r])
    BY DEF ReplicaAddedKey, RecipientAddedKey
  <2> QED
    BY <1>1, <1>2, <2>1, <2>2, <2>3, <2>4 DEF mediatorVars
<1>6. ProceduresInv'
  BY <1>1, <1>3, ProcFacts, IdleSound, ProceduresKeep
<1>7. EnrollmentTypeOK'
  <2>1. proc' \in [Runtimes -> [Mediations -> Procs]]
    BY <1>1, ProcFacts, GoesFacts DEF EnrollmentInv
  <2>2. kept' \in [Runtimes -> SUBSET ({"replica-added"} \X Mediations \X Replicas
                                   \cup {"recipient-added"} \X Mediations \X Addresses)]
    BY <1>1, <1>2 DEF EnrollmentInv, EnrollmentTypeOK, ReplicaAddedKey
  <2> QED
    BY <1>1, <2>1, <2>2 DEF EnrollmentInv, EnrollmentTypeOK, mediatorVars, faultVars
<1> QED
  BY <1>4, <1>5, <1>6, <1>7 DEF EnrollmentInv, VaultInv

LEMMA EnrollRefusedKeeps ==
    ASSUME EnrollmentInv, NEW r \in Runtimes, NEW m \in Mediations, EnrollRefused(r, m)
    PROVE  EnrollmentInv'
<1>1. Goes(r, m, Idle) /\ UNCHANGED <<vault, author, kept, mediatorVars, faultVars>>
  BY DEF EnrollRefused, vaultVars
<1>2. VaultGrows
  BY <1>1, VaultRests DEF EnrollmentInv
<1> QED
  BY <1>1, <1>2, ProcFacts, IdleSound, OneGoes

-----------------------------------------------------------------------------
(* Having the addresses held. *)

(* Who may share is at the mediator, and what was confirmed is held there. *)
LEMMA ShareFacts ==
    ASSUME EnrollmentInv, NEW r \in Runtimes, NEW m \in Mediations, MayShare(r, m)
    PROVE  /\ author[r] \in roster[m]
           /\ Unconfirmed(r, m) \subseteq Addresses
           /\ \A d \in SharedAddresses(vault[r], m) : d \in Unconfirmed(r, m) \cup held[m]
<1>1. author[r] \in roster[m]
  BY ProcedureFacts DEF MayShare, ReplicaAdded, EnrollmentInv, KeptInv
<1>2. SharedAddresses(vault[r], m) \subseteq Addresses
  BY DEF SharedAddresses
<1>3. \A d \in Addresses : RecipientAddedKey(m, d) \in kept[r] => d \in held[m]
  BY DEF EnrollmentInv, KeptInv
<1> QED
  BY <1>1, <1>2, <1>3 DEF Unconfirmed

(* A procedure that goes on asking is sound if it was but for what it asks.*)
LEMMA AskingSound ==
    ASSUME EnrollmentInv, NEW r \in Runtimes, NEW m \in Mediations, NEW k \in Procs, AskNext(r, m, k),
           k.does \in Sharing, k.asked = Nothing, k.answer = Nothing, author[r] \in roster[m],
           k.does = "discloses" => /\ k.address \in Addresses /\ Route[k.address] = m
                                   /\ k.address \in k.todo \cup k.refused \cup held[m]
    PROVE  \E j \in Procs : Goes(r, m, j) /\ Sound(j, m, author[r], roster[m], held[m])
<1>1. PICK j \in Procs :
         /\ Goes(r, m, j)
         /\ j.does = k.does /\ j.answer = k.answer /\ j.todo = k.todo /\ j.refused = k.refused /\ j.address = k.address
         /\ \/ k.todo = {} /\ j = k
            \/ \E d \in k.todo : j.asked = Asks("recipient-add", m, d)
  BY AskNextFacts
<1>2. j.asked # Nothing => j.asked.mediation = m /\ j.asked.kind = "recipient-add" /\ j.asked.about \in j.todo
  <2>1. CASE k.todo = {} /\ j = k
    BY <2>1
  <2>2. CASE \E d \in k.todo : j.asked = Asks("recipient-add", m, d)
    <3>1. PICK d \in k.todo : j.asked = Asks("recipient-add", m, d)
      BY <2>2
    <3>2. j.asked.mediation = m /\ j.asked.kind = "recipient-add" /\ j.asked.about = d
      BY <3>1 DEF Asks
    <3> QED
      BY <1>1, <3>1, <3>2
  <2> QED
    BY <1>1, <2>1, <2>2
<1>3. Sound(j, m, author[r], roster[m], held[m])
  BY <1>1, <1>2, NothingFacts DEF Sound, Sharing
<1> QED
  BY <1>1, <1>3

LEMMA AddRecipientsKeeps ==
    ASSUME EnrollmentInv, NEW r \in Runtimes, NEW m \in Mediations, AddRecipients(r, m)
    PROVE  EnrollmentInv'
<1>1. PICK k : k = [Proc("shares") EXCEPT !.todo = Unconfirmed(r, m)]
  OBVIOUS
<1>2. /\ AskNext(r, m, k) /\ MayShare(r, m)
      /\ UNCHANGED <<vault, author, kept, mediatorVars, faultVars>>
  BY <1>1 DEF AddRecipients, vaultVars
<1>3. author[r] \in roster[m] /\ Unconfirmed(r, m) \subseteq Addresses
  BY <1>2, ShareFacts
<1>4. k \in Procs /\ k.does = "shares" /\ k.asked = Nothing /\ k.answer = Nothing
  BY <1>1, <1>3, ProcFacts DEF Procs
<1>5. PICK j \in Procs : Goes(r, m, j) /\ Sound(j, m, author[r], roster[m], held[m])
  BY <1>2, <1>3, <1>4, AskingSound DEF Sharing
<1>6. VaultGrows
  BY <1>2, VaultRests DEF EnrollmentInv
<1> QED
  BY <1>2, <1>5, <1>6, OneGoes

(* What a runtime keeps after the mediator has an address.                 *)
LEMMA RecipientKept ==
    ASSUME EnrollmentInv, NEW r \in Runtimes, NEW m \in Mediations, NEW d \in Addresses, d \in held[m],
           kept' \in {kept, [kept EXCEPT ![r] = kept[r] \cup {RecipientAddedKey(m, d)}]}, UNCHANGED mediatorVars
    PROVE  /\ KeptInv'
           /\ kept' \in [Runtimes -> SUBSET ({"replica-added"} \X Mediations \X Replicas
                                   \cup {"recipient-added"} \X Mediations \X Addresses)]
<1>1. KeptInv'
  <2> SUFFICES ASSUME NEW s \in Runtimes, NEW n \in Mediations
               PROVE  /\ \A p \in Replicas : ReplicaAddedKey(n, p) \in kept'[s] => p \in roster'[n]
                      /\ \A a \in Addresses : RecipientAddedKey(n, a) \in kept'[s] => a \in held'[n]
    BY DEF KeptInv
  <2>1. /\ \A p \in Replicas : ReplicaAddedKey(n, p) \in kept[s] => p \in roster[n]
        /\ \A a \in Addresses : RecipientAddedKey(n, a) \in kept[s] => a \in held[n]
    BY DEF EnrollmentInv, KeptInv
  <2>2. kept'[s] \subseteq kept[s] \cup {RecipientAddedKey(m, d)}
    BY DEF EnrollmentInv, EnrollmentTypeOK
  <2>3. \A a \in Addresses : RecipientAddedKey(n, a) = RecipientAddedKey(m, d) => a = d /\ n = m
    BY DEF RecipientAddedKey
  <2>4. \A p \in Replicas : ReplicaAddedKey(n, p) # RecipientAddedKey(m, d)
    BY DEF ReplicaAddedKey, RecipientAddedKey
  <2> QED
    BY <2>1, <2>2, <2>3, <2>4 DEF mediatorVars
<1>2. kept' \in [Runtimes -> SUBSET ({"replica-added"} \X Mediations \X Replicas
                                   \cup {"recipient-added"} \X Mediations \X Addresses)]
  BY DEF EnrollmentInv, EnrollmentTypeOK, RecipientAddedKey
<1> QED
  BY <1>1, <1>2

(* The address asked for is held, or was refused and stays undisclosed.    *)
LEMMA RecipientAnsweredKeeps ==
    ASSUME EnrollmentInv, NEW r \in Runtimes, NEW m \in Mediations, RecipientAnswered(r, m)
    PROVE  EnrollmentInv'
<1>1. PICK k : k = proc[r][m]
  OBVIOUS
<1>2. PICK left : left = [k EXCEPT !.todo = k.todo \ {k.asked.about}, !.asked = Nothing, !.answer = Nothing,
                                   !.refused = IF k.answer = "yes" THEN k.refused ELSE k.refused \cup {k.asked.about}]
  OBVIOUS
<1>3. /\ k.does \in Sharing /\ k.answer # Nothing
      /\ kept' = IF k.answer = "yes" THEN [kept EXCEPT ![r] = kept[r] \cup {RecipientAddedKey(m, k.asked.about)}] ELSE kept
      /\ AskNext(r, m, IF k.does = "shares" /\ left.todo = {} THEN Idle ELSE left)
      /\ UNCHANGED <<vault, author, mediatorVars, faultVars>>
  BY <1>1, <1>2 DEF RecipientAnswered, Sharing
<1>4. k \in Procs /\ Sound(k, m, author[r], roster[m], held[m])
  BY <1>1, ProcedureFacts
<1>5. /\ k.asked # Nothing /\ author[r] \in roster[m]
      /\ k.asked.kind = "recipient-add" /\ k.asked.about \in k.todo
      /\ k.answer = "yes" => k.asked.about \in held[m]
      /\ k.does = "discloses" => /\ k.address \in Addresses /\ Route[k.address] = m
                                 /\ k.address \in k.todo \cup k.refused \cup held[m]
  BY <1>3, <1>4 DEF Sound
<1>6. k.asked.about \in Addresses
  BY <1>4, <1>5 DEF Procs
<1>7. /\ left \in Procs /\ left.does = k.does /\ left.asked = Nothing /\ left.answer = Nothing
      /\ left.address = k.address /\ left.todo = k.todo \ {k.asked.about}
      /\ left.refused = IF k.answer = "yes" THEN k.refused ELSE k.refused \cup {k.asked.about}
  BY <1>2, <1>4, <1>6 DEF Procs
<1>8. PICK j \in Procs : Goes(r, m, j) /\ Sound(j, m, author[r], roster[m], held[m])
  <2>1. CASE k.does = "shares" /\ left.todo = {}
    <3>1. AskNext(r, m, Idle)
      BY <1>3, <2>1
    <3>2. Goes(r, m, Idle)
      BY <3>1 DEF AskNext, Idle
    <3> QED
      BY <3>2, ProcFacts, IdleSound
  <2>2. CASE ~(k.does = "shares" /\ left.todo = {})
    <3>1. AskNext(r, m, left)
      BY <1>3, <2>2
    <3>2. left.does = "discloses" => /\ left.address \in Addresses /\ Route[left.address] = m
                                     /\ left.address \in left.todo \cup left.refused \cup held[m]
      BY <1>5, <1>7
    <3> QED
      BY <1>3, <1>5, <1>7, <3>1, <3>2, AskingSound
  <2> QED
    BY <2>1, <2>2
<1>9. MediatorGrows
  BY <1>3, MediatorRests DEF EnrollmentInv
<1>10. VaultInv'
  BY <1>3, <1>9, VaultRests, VaultKeeps DEF EnrollmentInv, faultVars
<1>11. /\ KeptInv'
       /\ kept' \in [Runtimes -> SUBSET ({"replica-added"} \X Mediations \X Replicas
                                   \cup {"recipient-added"} \X Mediations \X Addresses)]
  <2>1. CASE k.answer = "yes"
    BY <1>3, <1>5, <1>6, <2>1, RecipientKept
  <2>2. CASE k.answer # "yes"
    BY <1>3, <1>9, <2>2, KeptKeeps DEF EnrollmentInv, EnrollmentTypeOK
  <2> QED
    BY <2>1, <2>2
<1>12. ProceduresInv'
  <2>1. Sound(j, m, author[r], roster'[m], held'[m])
    BY <1>3, <1>8 DEF mediatorVars
  <2> QED
    BY <1>3, <1>8, <1>9, <2>1, ProceduresKeep
<1>13. EnrollmentTypeOK'
  <2>1. proc' \in [Runtimes -> [Mediations -> Procs]]
    BY <1>8, GoesFacts DEF EnrollmentInv
  <2> QED
    BY <1>3, <1>11, <2>1 DEF EnrollmentInv, EnrollmentTypeOK, mediatorVars, faultVars
<1> QED
  BY <1>10, <1>11, <1>12, <1>13 DEF EnrollmentInv, VaultInv

-----------------------------------------------------------------------------
(* Disclosing. *)
LEMMA DiscloseKeeps ==
    ASSUME EnrollmentInv, NEW r \in Runtimes, NEW d \in Addresses, Disclose(r, d)
    PROVE  EnrollmentInv'
<1>1. PICK m : m = Route[d]
  OBVIOUS
<1>2. m \in Mediations
  BY <1>1, EnrollmentAssumption
<1>3. PICK k : k = [Proc("discloses") EXCEPT !.todo = Unconfirmed(r, m), !.address = d]
  OBVIOUS
<1>4. /\ AskNext(r, m, k) /\ MayShare(r, m) /\ LiveDid(vault[r], d)
      /\ UNCHANGED <<vault, author, kept, mediatorVars, faultVars>>
  BY <1>1, <1>3 DEF Disclose, vaultVars
<1>5. d \in SharedAddresses(vault[r], m)
  BY <1>1, <1>4 DEF LiveDid, SharedAddresses
<1>6. author[r] \in roster[m] /\ Unconfirmed(r, m) \subseteq Addresses /\ d \in Unconfirmed(r, m) \cup held[m]
  BY <1>2, <1>4, <1>5, ShareFacts
<1>7. /\ k \in Procs /\ k.does = "discloses" /\ k.asked = Nothing /\ k.answer = Nothing
      /\ k.address = d /\ k.todo = Unconfirmed(r, m) /\ k.refused = {}
  BY <1>3, <1>6, ProcFacts DEF Procs
<1>8. PICK j \in Procs : Goes(r, m, j) /\ Sound(j, m, author[r], roster[m], held[m])
  BY <1>1, <1>2, <1>4, <1>6, <1>7, AskingSound DEF Sharing
<1>9. VaultGrows
  BY <1>4, VaultRests DEF EnrollmentInv
<1> QED
  BY <1>2, <1>4, <1>8, <1>9, OneGoes

(* What is disclosed was asked for and not refused, so it is held.         *)
LEMMA DiscloseNowKeeps ==
    ASSUME EnrollmentInv, NEW r \in Runtimes, NEW m \in Mediations, DiscloseNow(r, m)
    PROVE  EnrollmentInv'
<1>1. PICK k : k = proc[r][m]
  OBVIOUS
<1>2. /\ k.does = "discloses" /\ k.asked = Nothing /\ k.todo = {}
      /\ IF Holds(k) /\ LiveDid(vault[r], k.address)
         THEN Record(r, Disclosed(author[r], k.address))
         ELSE UNCHANGED vault
      /\ Goes(r, m, Idle)
      /\ UNCHANGED <<author, kept, mediatorVars, faultVars>>
  BY <1>1 DEF DiscloseNow
<1>3. k \in Procs /\ Sound(k, m, author[r], roster[m], held[m]) /\ author[r] \in Replicas
  BY <1>1, ProcedureFacts
<1>4. MediatorGrows
  BY <1>2, MediatorRests DEF EnrollmentInv
<1>5. CASE ~(Holds(k) /\ LiveDid(vault[r], k.address))
  <2>1. VaultGrows
    BY <1>2, <1>5, VaultRests DEF EnrollmentInv
  <2> QED
    BY <1>2, <2>1, ProcFacts, IdleSound, OneGoes
<1>6. CASE Holds(k) /\ LiveDid(vault[r], k.address)
  <2>1. PICK d : d = k.address
    OBVIOUS
  <2>2. d \in Addresses /\ Route[d] = m /\ d \in held[m] /\ author[r] \in roster[m]
    BY <1>2, <1>3, <1>6, <2>1 DEF Sound, Holds, Sharing
  <2>3. Record(r, Disclosed(author[r], d))
    BY <1>2, <1>6, <2>1
  <2>4. /\ vault' \in [Runtimes -> SUBSET Events]
        /\ vault'[r] = vault[r] \cup {Disclosed(author[r], d)}
        /\ \A s \in Runtimes : s # r => vault'[s] = vault[s]
    BY <1>3, <2>2, <2>3, RecordFacts, EventKinds DEF EnrollmentInv
  <2>5. ASSUME NEW s \in Runtimes, NEW p \in Replicas, NEW n \in Mediations
        PROVE  ReplicaCreated(p, n) \in vault'[s] <=> ReplicaCreated(p, n) \in vault[s]
    <3>1. ReplicaCreated(p, n) # Disclosed(author[r], d)
      BY EventNames
    <3> QED
      BY <2>4, <3>1
  <2>6. AuthorsInv'
    BY <1>2 DEF EnrollmentInv, AuthorsInv, faultVars
  <2>7. GrantsInv'
    BY <1>2, <2>5 DEF EnrollmentInv, GrantsInv, faultVars
  <2>8. GrantedOnce'
    BY <2>5 DEF EnrollmentInv, GrantedOnce
  <2>9. DisclosedInv'
    <3> SUFFICES ASSUME NEW s \in Runtimes, NEW p \in Replicas, NEW a \in Addresses, Disclosed(p, a) \in vault'[s]
                 PROVE  a \in held'[Route[a]] /\ roster'[Route[a]] # {}
      BY DEF DisclosedInv
    <3>1. CASE Disclosed(p, a) \in vault[s]
      BY <1>4, <3>1, DisclosedKept DEF EnrollmentInv
    <3>2. CASE Disclosed(p, a) \notin vault[s]
      <4>1. Disclosed(p, a) = Disclosed(author[r], d)
        BY <2>4, <3>2
      <4>2. a = d
        BY <4>1, EventNames
      <4> QED
        BY <1>2, <2>2, <4>2 DEF mediatorVars
    <3> QED
      BY <3>1, <3>2
  <2>10. KeptInv'
    BY <1>2, <1>4, KeptKeeps
  <2>11. ProceduresInv'
    BY <1>2, <1>4, ProcFacts, IdleSound, ProceduresKeep
  <2>12. EnrollmentTypeOK'
    <3>1. proc' \in [Runtimes -> [Mediations -> Procs]]
      BY <1>2, ProcFacts, GoesFacts DEF EnrollmentInv
    <3> QED
      BY <1>2, <2>4, <3>1 DEF EnrollmentInv, EnrollmentTypeOK, mediatorVars, faultVars
  <2> QED
    BY <2>6, <2>7, <2>8, <2>9, <2>10, <2>11, <2>12 DEF EnrollmentInv
<1> QED
  BY <1>5, <1>6

-----------------------------------------------------------------------------
(* The mediator, on time or late. *)
LEMMA ServeWaitingKeeps ==
    ASSUME EnrollmentInv, NEW r \in Runtimes, NEW m \in Mediations, ServeWaiting(r, m)
    PROVE  EnrollmentInv'
<1>1. PICK k : k = proc[r][m]
  OBVIOUS
<1>2. PICK j : j = [k EXCEPT !.answer = "yes"]
  OBVIOUS
<1>3. /\ k.asked # Nothing /\ k.answer = Nothing /\ Serves(k.asked) /\ Goes(r, m, j)
      /\ UNCHANGED <<vault, author, kept, faultVars>>
  BY <1>1, <1>2 DEF ServeWaiting, Waits, vaultVars
<1>4. k \in Procs /\ Sound(k, m, author[r], roster[m], held[m])
  BY <1>1, ProcedureFacts
<1>5. k.asked \in EnrollRequests
  BY <1>3, <1>4 DEF Procs
<1>6. /\ j \in Procs /\ j.does = k.does /\ j.asked = k.asked /\ j.answer = "yes"
      /\ j.todo = k.todo /\ j.refused = k.refused /\ j.address = k.address
  BY <1>2, <1>4 DEF Procs
<1>7. /\ MediatorGrows
      /\ k.asked.kind = "replica-add" => k.asked.about \in roster'[k.asked.mediation]
      /\ k.asked.kind = "recipient-add" => k.asked.about \in held'[k.asked.mediation]
  BY <1>3, <1>5, ServesFacts DEF EnrollmentInv, MediatorGrows
<1>8. k.does # Nothing
  <2> SUFFICES ASSUME k.does = Nothing PROVE FALSE
    OBVIOUS
  <2>1. k = Idle
    BY <1>4 DEF Sound
  <2> QED
    BY <1>3, <2>1 DEF Idle
<1>9. Sound(k, m, author[r], roster'[m], held'[m])
  BY <1>4, <1>7, SoundGrows DEF MediatorGrows
<1>10. Sound(j, m, author[r], roster'[m], held'[m])
  BY <1>3, <1>6, <1>7, <1>8, <1>9, NothingFacts DEF Sound
<1>11. ProceduresInv'
  BY <1>3, <1>6, <1>7, <1>10, ProceduresKeep
<1>12. VaultInv'
  BY <1>3, <1>7, VaultRests, VaultKeeps DEF EnrollmentInv, faultVars
<1>13. KeptInv'
  BY <1>3, <1>7, KeptKeeps
<1>14. EnrollmentTypeOK'
  <2>1. proc' \in [Runtimes -> [Mediations -> Procs]]
    BY <1>3, <1>6, GoesFacts DEF EnrollmentInv
  <2> QED
    BY <1>3, <1>7, <2>1 DEF EnrollmentInv, EnrollmentTypeOK, MediatorGrows, faultVars
<1> QED
  BY <1>11, <1>12, <1>13, <1>14 DEF EnrollmentInv, VaultInv

LEMMA ServeLateKeeps ==
    ASSUME EnrollmentInv, NEW q \in late, ServeLate(q)
    PROVE  EnrollmentInv'
<1>1. q \in EnrollRequests
  BY DEF EnrollmentInv, EnrollmentTypeOK
<1>2. Serves(q) /\ late' = late \ {q} /\ UNCHANGED <<vault, author, kept, proc, faults, retired>>
  BY DEF ServeLate, vaultVars
<1>3. MediatorGrows
  BY <1>1, <1>2, ServesFacts DEF EnrollmentInv, MediatorGrows
<1>4. VaultInv'
  BY <1>2, <1>3, VaultRests, VaultKeeps DEF EnrollmentInv
<1>5. KeptInv'
  BY <1>2, <1>3, KeptKeeps
<1>6. ProceduresInv'
  BY <1>2, <1>3, ProceduresRest
<1>7. EnrollmentTypeOK'
  BY <1>2, <1>3 DEF EnrollmentInv, EnrollmentTypeOK, MediatorGrows
<1> QED
  BY <1>4, <1>5, <1>6, <1>7 DEF EnrollmentInv, VaultInv

-----------------------------------------------------------------------------
(* Faults. *)

(* What is in flight is requests.                                          *)
LEMMA InFlightFacts ==
    ASSUME EnrollmentInv, NEW r \in Runtimes, NEW ms \in SUBSET Mediations
    PROVE  InFlight(r, ms) \subseteq EnrollRequests
<1> SUFFICES ASSUME NEW m \in ms, Waits(r, m) PROVE proc[r][m].asked \in EnrollRequests
  BY DEF InFlight
<1> QED
  BY ProcedureFacts DEF Waits, Procs

LEMMA FaultFacts == ASSUME EnrollmentInv, NEW r, Fault(r) PROVE faults' \in 0 .. MaxFaults
BY EnrollmentAssumption DEF EnrollmentInv, EnrollmentTypeOK, Fault

LEMMA RefuseKeeps ==
    ASSUME EnrollmentInv, NEW r \in Runtimes, NEW m \in Mediations, Refuse(r, m)
    PROVE  EnrollmentInv'
<1>1. PICK k : k = proc[r][m]
  OBVIOUS
<1>2. PICK j : j = [k EXCEPT !.answer = "no"]
  OBVIOUS
<1>3. k.asked # Nothing /\ Goes(r, m, j) /\ UNCHANGED <<vault, author, kept, mediatorVars, late, retired>>
  BY <1>1, <1>2 DEF Refuse, Waits, vaultVars
<1>4. k \in Procs /\ Sound(k, m, author[r], roster[m], held[m])
  BY <1>1, ProcedureFacts
<1>5. /\ j \in Procs /\ j.does = k.does /\ j.asked = k.asked /\ j.answer = "no"
      /\ j.todo = k.todo /\ j.refused = k.refused /\ j.address = k.address
  BY <1>2, <1>4 DEF Procs
<1>6. k.does # Nothing
  <2> SUFFICES ASSUME k.does = Nothing PROVE FALSE
    OBVIOUS
  <2>1. k = Idle
    BY <1>4 DEF Sound
  <2> QED
    BY <1>3, <2>1 DEF Idle
<1>7. Sound(j, m, author[r], roster'[m], held'[m])
  <2>1. "no" # "yes"
    OBVIOUS
  <2>2. Sound(j, m, author[r], roster[m], held[m])
    BY <1>3, <1>4, <1>5, <1>6, <2>1, NothingFacts DEF Sound
  <2> QED
    BY <1>3, <2>2 DEF mediatorVars
<1>8. MediatorGrows
  BY <1>3, MediatorRests DEF EnrollmentInv
<1>9. ProceduresInv'
  BY <1>3, <1>5, <1>7, <1>8, ProceduresKeep
<1>10. VaultInv'
  BY <1>3, <1>8, VaultRests, VaultKeeps DEF EnrollmentInv
<1>11. KeptInv'
  BY <1>3, <1>8, KeptKeeps
<1>12. EnrollmentTypeOK'
  <2>1. proc' \in [Runtimes -> [Mediations -> Procs]]
    BY <1>3, <1>5, GoesFacts DEF EnrollmentInv
  <2>2. faults' \in 0 .. MaxFaults
    BY FaultFacts DEF Refuse
  <2> QED
    BY <1>3, <2>1, <2>2 DEF EnrollmentInv, EnrollmentTypeOK, mediatorVars
<1> QED
  BY <1>9, <1>10, <1>11, <1>12 DEF EnrollmentInv, VaultInv

LEMMA GiveUpKeeps ==
    ASSUME EnrollmentInv, NEW r \in Runtimes, NEW m \in Mediations, GiveUp(r, m)
    PROVE  EnrollmentInv'
<1>1. /\ late' = late \cup InFlight(r, {m}) /\ Goes(r, m, Idle)
      /\ UNCHANGED <<vault, author, kept, mediatorVars, retired>>
  BY DEF GiveUp, vaultVars
<1>2. MediatorGrows
  BY <1>1, MediatorRests DEF EnrollmentInv
<1>3. ProceduresInv'
  BY <1>1, <1>2, ProcFacts, IdleSound, ProceduresKeep
<1>4. VaultInv'
  BY <1>1, <1>2, VaultRests, VaultKeeps DEF EnrollmentInv
<1>5. KeptInv'
  BY <1>1, <1>2, KeptKeeps
<1>6. EnrollmentTypeOK'
  <2>1. proc' \in [Runtimes -> [Mediations -> Procs]]
    BY <1>1, ProcFacts, GoesFacts DEF EnrollmentInv
  <2>2. faults' \in 0 .. MaxFaults
    BY FaultFacts DEF GiveUp
  <2>3. late' \subseteq EnrollRequests
    BY <1>1, InFlightFacts DEF EnrollmentInv, EnrollmentTypeOK
  <2> QED
    BY <1>1, <2>1, <2>2, <2>3 DEF EnrollmentInv, EnrollmentTypeOK, mediatorVars
<1> QED
  BY <1>3, <1>4, <1>5, <1>6 DEF EnrollmentInv, VaultInv

(* A runtime that ends has no procedure, and the others theirs.            *)
LEMMA EndedFacts ==
    ASSUME EnrollmentInv, NEW r \in Runtimes, Ended(r), UNCHANGED mediatorVars,
           \A s \in Runtimes : s # r => author'[s] = author[s]
    PROVE  /\ proc' \in [Runtimes -> [Mediations -> Procs]]
           /\ late' \subseteq EnrollRequests
           /\ ProceduresInv'
<1>1. /\ proc \in [Runtimes -> [Mediations -> Procs]]
      /\ proc' = [proc EXCEPT ![r] = [m \in Mediations |-> Idle]]
      /\ late' = late \cup InFlight(r, Mediations)
  BY DEF Ended, EnrollmentInv, EnrollmentTypeOK
<1>2. proc' \in [Runtimes -> [Mediations -> Procs]]
  BY <1>1, ProcFacts
<1>3. late' \subseteq EnrollRequests
  BY <1>1, InFlightFacts DEF EnrollmentInv, EnrollmentTypeOK
<1>4. ProceduresInv'
  <2> SUFFICES ASSUME NEW s \in Runtimes, NEW n \in Mediations
               PROVE  Sound(proc'[s][n], n, author'[s], roster'[n], held'[n])
    BY DEF ProceduresInv
  <2>1. CASE s = r
    BY <1>1, <2>1, IdleSound
  <2>2. CASE s # r
    <3>1. Sound(proc[s][n], n, author[s], roster[n], held[n])
      BY DEF EnrollmentInv, ProceduresInv
    <3> QED
      BY <1>1, <2>2, <3>1 DEF mediatorVars
  <2> QED
    BY <2>1, <2>2
<1> QED
  BY <1>2, <1>3, <1>4

LEMMA RuntimeCrashKeeps ==
    ASSUME EnrollmentInv, NEW r \in Runtimes, RuntimeCrash(r)
    PROVE  EnrollmentInv'
<1>1. Ended(r) /\ UNCHANGED <<vault, author, kept, mediatorVars, retired>>
  BY DEF RuntimeCrash, vaultVars
<1>2. MediatorGrows
  BY <1>1, MediatorRests DEF EnrollmentInv
<1>3. /\ proc' \in [Runtimes -> [Mediations -> Procs]]
      /\ late' \subseteq EnrollRequests
      /\ ProceduresInv'
  BY <1>1, EndedFacts
<1>4. VaultInv'
  BY <1>1, <1>2, VaultRests, VaultKeeps DEF EnrollmentInv
<1>5. KeptInv'
  BY <1>1, <1>2, KeptKeeps
<1>6. faults' \in 0 .. MaxFaults
  BY FaultFacts DEF RuntimeCrash
<1>7. EnrollmentTypeOK'
  BY <1>1, <1>3, <1>6 DEF EnrollmentInv, EnrollmentTypeOK, mediatorVars
<1> QED
  BY <1>3, <1>4, <1>5, <1>7 DEF EnrollmentInv, VaultInv

(* A replica ID taken anew is granted nowhere, and the one given up is     *)
(* nobody's from then on.                                                  *)
LEMMA ResetIdentityKeeps ==
    ASSUME EnrollmentInv, NEW r \in Runtimes, ResetIdentity(r)
    PROVE  EnrollmentInv'
<1>1. /\ Ended(r) /\ retired' = retired \cup {author[r]} /\ UNCHANGED <<vault, kept, mediatorVars>>
  BY DEF ResetIdentity
<1>2. PICK p \in Replicas \ retired : (\A q \in Runtimes : author[q] # p) /\ author' = [author EXCEPT ![r] = p]
  BY DEF ResetIdentity
<1>3. author' \in [Runtimes -> Replicas] /\ author'[r] = p /\ \A s \in Runtimes : s # r => author'[s] = author[s]
  BY <1>2 DEF EnrollmentInv, EnrollmentTypeOK
<1>4. /\ proc' \in [Runtimes -> [Mediations -> Procs]]
      /\ late' \subseteq EnrollRequests
      /\ ProceduresInv'
  BY <1>1, <1>3, EndedFacts
<1>5. MediatorGrows
  BY <1>1, MediatorRests DEF EnrollmentInv
<1>6. KeptInv'
  BY <1>1, <1>5, KeptKeeps
<1>7. AuthorsInv'
  <2>1. ASSUME NEW s \in Runtimes, NEW q \in Runtimes, author'[s] = author'[q] PROVE s = q
    BY <1>2, <1>3, <2>1 DEF EnrollmentInv, AuthorsInv
  <2>2. ASSUME NEW s \in Runtimes PROVE author'[s] \notin retired'
    <3>1. CASE s = r
      BY <1>1, <1>2, <1>3, <3>1
    <3>2. CASE s # r
      BY <1>1, <1>3, <3>2 DEF EnrollmentInv, AuthorsInv
    <3> QED
      BY <3>1, <3>2
  <2> QED
    BY <2>1, <2>2 DEF AuthorsInv
<1>8. GrantsInv'
  <2> SUFFICES ASSUME NEW s \in Runtimes, NEW q \in Runtimes, NEW o \in Replicas, NEW m \in Mediations,
                      ReplicaCreated(o, m) \in vault[s]
               PROVE  /\ o \in retired' \/ \E w \in Runtimes : author'[w] = o
                      /\ author'[q] = o => ReplicaCreated(o, m) \in vault[q]
    BY <1>1 DEF GrantsInv
  <2>1. /\ o \in retired \/ \E w \in Runtimes : author[w] = o
        /\ author[q] = o => ReplicaCreated(o, m) \in vault[q]
    BY DEF EnrollmentInv, GrantsInv
  <2>2. o # p
    BY <1>2, <2>1
  <2>3. o \in retired' \/ \E w \in Runtimes : author'[w] = o
    <3>1. CASE o \in retired \/ o = author[r]
      BY <1>1, <3>1
    <3>2. CASE \E w \in Runtimes : w # r /\ author[w] = o
      BY <1>3, <3>2
    <3> QED
      BY <2>1, <3>1, <3>2
  <2> QED
    BY <1>3, <2>1, <2>2, <2>3
<1>9. GrantedOnce' /\ DisclosedInv'
  <2>1. GrantedOnce'
    BY <1>1 DEF EnrollmentInv, GrantedOnce
  <2>2. DisclosedInv'
    BY <1>1 DEF EnrollmentInv, DisclosedInv, mediatorVars
  <2> QED
    BY <2>1, <2>2
<1>10. EnrollmentTypeOK'
  <2>1. faults' \in 0 .. MaxFaults
    BY FaultFacts DEF ResetIdentity
  <2>2. retired' \subseteq Replicas
    BY <1>1, ProcedureFacts DEF EnrollmentInv, EnrollmentTypeOK
  <2> QED
    BY <1>1, <1>3, <1>4, <2>1, <2>2 DEF EnrollmentInv, EnrollmentTypeOK, mediatorVars
<1> QED
  BY <1>4, <1>6, <1>7, <1>8, <1>9, <1>10 DEF EnrollmentInv

-----------------------------------------------------------------------------
(* Every step keeps the invariant. *)
LEMMA EnrollmentStep == EnrollmentInv /\ [EnrollmentNext]_enrollmentVars => EnrollmentInv'
<1> SUFFICES ASSUME EnrollmentInv, [EnrollmentNext]_enrollmentVars PROVE EnrollmentInv'
  OBVIOUS
<1>1. ASSUME NEW r \in Runtimes, Operates(r) PROVE EnrollmentInv'
  BY <1>1, VaultStepsKeep, DiscloseKeeps DEF Operates
<1>2. ASSUME NEW r \in Runtimes, Fails(r) PROVE EnrollmentInv'
  BY <1>2, RefuseKeeps, GiveUpKeeps, RuntimeCrashKeeps, ResetIdentityKeeps DEF Fails
<1>3. ASSUME NEW r \in Runtimes, NEW m \in Mediations, Proceeds(r, m) PROVE EnrollmentInv'
  BY <1>3, EnrollKeeps, AccountRegisteredKeeps, CreateReplicaKeeps, ReplicaConfirmedKeeps,
     EnrollRefusedKeeps,
     AddRecipientsKeeps, RecipientAnsweredKeeps, DiscloseNowKeeps, ServeWaitingKeeps DEF Proceeds
<1>4. CASE \E q \in late : ServeLate(q)
  BY <1>4, ServeLateKeeps
<1>5. CASE UNCHANGED enrollmentVars
  <2>1. VaultGrows
    BY <1>5, VaultRests DEF EnrollmentInv, enrollmentVars
  <2> QED
    BY <1>5, <2>1, VaultOperates DEF enrollmentVars, mediatorVars, faultVars
<1> QED
  BY <1>1, <1>2, <1>3, <1>4, <1>5 DEF EnrollmentNext

(* At first nothing is granted, kept or asked for.                         *)
LEMMA EnrollmentStarts == EnrollmentInit => EnrollmentInv
<1> SUFFICES ASSUME EnrollmentInit PROVE EnrollmentInv
  OBVIOUS
<1>1. EnrollmentTypeOK
  BY EnrollmentAssumption, ProcFacts DEF EnrollmentInit, EnrollmentTypeOK
<1>2. ProceduresInv
  <2> SUFFICES ASSUME NEW r \in Runtimes, NEW m \in Mediations
               PROVE  Sound(proc[r][m], m, author[r], roster[m], held[m])
    BY DEF ProceduresInv
  <2>1. proc[r][m] = Idle
    BY DEF EnrollmentInit
  <2> QED
    BY <2>1, IdleSound
<1>3. KeptInv /\ AuthorsInv /\ GrantsInv /\ GrantedOnce /\ DisclosedInv
  BY EnrollmentAssumption DEF EnrollmentInit, KeptInv, AuthorsInv, GrantsInv, GrantedOnce,
     DisclosedInv
<1> QED
  BY <1>1, <1>2, <1>3 DEF EnrollmentInv

(* In every behaviour each procedure, vault and option is as the steps     *)
(* that follow take it to be (replica-enrollment.ts, replica-recipients.ts)*)
THEOREM EnrollmentInvariant == EnrollmentSpec => []EnrollmentInv
BY EnrollmentStarts, EnrollmentStep, PTL DEF EnrollmentSpec

(* The vaults, the options, the procedures and what the mediators hold     *)
(* keep their types; no request is in flight but of an arrangement, about  *)
(* a replica or an address.                                                *)
THEOREM EnrollmentTypeCorrect == EnrollmentSpec => []EnrollmentTypeOK
<1>1. EnrollmentInv => EnrollmentTypeOK
  BY DEF EnrollmentInv
<1> QED
  BY <1>1, EnrollmentInvariant, PTL

(* A replica ID is granted in one arrangement only, in every copy of the   *)
(* vault, for any number of runtimes and arrangements, imports, crashes    *)
(* and identity resets (replica-enrollment.ts enroll, decide).             *)
THEOREM ReplicaInOneArrangement == EnrollmentSpec => []OneArrangement
<1>1. EnrollmentInv => OneArrangement
  <2> SUFFICES ASSUME EnrollmentInv, NEW r \in Runtimes, NEW p \in Replicas
               PROVE  Cardinality(GrantedIn(vault[r], p)) <= 1
    BY DEF OneArrangement
  <2>1. \A m, n \in GrantedIn(vault[r], p) : m = n
    BY DEF EnrollmentInv, GrantedOnce, GrantedIn
  <2>2. CASE GrantedIn(vault[r], p) = {}
    BY <2>2, FS_EmptySet
  <2>3. CASE GrantedIn(vault[r], p) # {}
    <3>1. PICK m : GrantedIn(vault[r], p) = {m}
      BY <2>1, <2>3
    <3>2. Cardinality({m}) = 1
      BY FS_Singleton
    <3> QED
      BY <3>1, <3>2
  <2> QED
    BY <2>2, <2>3
<1> QED
  BY <1>1, EnrollmentInvariant, PTL

(* What is disclosed is held at its mediator, where some replica takes its *)
(* mail, and no runtime asks for an address before the mediator holds its  *)
(* replica, whatever is refused, given up, carried out late, imported,     *)
(* retired or reset (replica-recipients.ts, mediation.ts).                 *)
THEOREM EnrollmentDisclosesSafely == EnrollmentSpec => []DisclosedSafely
<1>1. EnrollmentInv => DisclosedIsHeld
  <2> SUFFICES ASSUME EnrollmentInv, NEW r \in Runtimes, NEW e \in vault[r], e.type = "did.disclosed"
               PROVE  e.address \in held[Route[e.address]] /\ roster[Route[e.address]] # {}
    BY DEF DisclosedIsHeld
  <2>1. e \in Events
    BY ProcedureFacts DEF EnrollmentInv, EnrollmentTypeOK
  <2>2. \E p \in Replicas, d \in Addresses : e = Disclosed(p, d)
    BY <2>1 DEF Events, Created, Granted, ReplicaCreated, DidCreated, DidRetired
  <2>3. PICK p \in Replicas : \E d \in Addresses : e = Disclosed(p, d)
    BY <2>2
  <2>4. PICK d \in Addresses : e = Disclosed(p, d)
    BY <2>3
  <2>5. e.address = d
    BY <2>4, EventNames
  <2> QED
    BY <2>4, <2>5 DEF EnrollmentInv, DisclosedInv
<1>2. EnrollmentInv => ReaderFirst
  <2> SUFFICES ASSUME EnrollmentInv, NEW r \in Runtimes, NEW m \in Mediations, Waits(r, m), proc[r][m].asked.kind = "recipient-add"
               PROVE  author[r] \in roster[m]
    BY DEF ReaderFirst
  <2>1. PICK k : k = proc[r][m]
    OBVIOUS
  <2>2. k \in Procs /\ Sound(k, m, author[r], roster[m], held[m]) /\ k.asked # Nothing /\ k.asked.kind = "recipient-add"
    BY <2>1, ProcedureFacts DEF Waits
  <2>3. k.does # Nothing
    <3> SUFFICES ASSUME k.does = Nothing PROVE FALSE
      OBVIOUS
    <3>1. k = Idle
      BY <2>2 DEF Sound
    <3> QED
      BY <2>2, <3>1 DEF Idle
  <2>4. k.does \in Sharing
    BY <2>2, <2>3 DEF Sound, Procs, Sharing
  <2> QED
    BY <2>2, <2>4 DEF Sound
<1> QED
  BY <1>1, <1>2, EnrollmentInvariant, PTL DEF DisclosedSafely
=============================================================================
