---------------------------- MODULE MediatorBlobs ----------------------------
(***************************************************************************)
(* blob-store/1.0 of the mediator (blobs/service.ts, blobs/fs-storage.ts,  *)
(* the tables blobs, ended_blobs and blob_uploads), over the bindings of   *)
(* MediatorBindings.  BlobRows and quotas live in the database, bytes in a     *)
(* storage under a random id; nothing spans the two.  A request is then a  *)
(* series of steps others interleave with: keep the row and grant a token; *)
(* claim the token, store the bytes, mark them uploaded; take the row out  *)
(* and delete the bytes.  A crash forgets every request under way.         *)
(***************************************************************************)
EXTENDS MediatorClock, Functions

CONSTANTS
    Hashes,       \* blob names
    BlobSizes,        \* the sizes a put may declare, none past config.blobMaxBytes
    Quota,        \* config.blobQuotaBytes
    Retain,       \* config.blobRetainSeconds
    GrantTime,    \* UPLOAD_GRANT_MS
    MaxBlob,      \* bound: how many rows are ever created
    MaxToken      \* bound: how many upload tokens are ever granted

ASSUME BlobsAssumption ==
    /\ BlobSizes \subseteq Nat
    /\ Quota \in Nat
    /\ Retain \in Nat
    /\ GrantTime \in Nat
    /\ MaxBlob \in Nat
    /\ MaxToken \in Nat

VARIABLES
    nextBlob,  \* the random blob ids handed out, counted
    nextToken, \* the random tokens handed out, counted
    blobs,     \* table blobs
    ended,     \* table ended_blobs: ids whose mediation ended
    tokens,    \* table blob_uploads
    bytes,     \* the storage: ids it holds bytes of
    granting,  \* puts between keeping their row and granting their token
    uploads,   \* uploads that claimed their token
    deleting   \* ids taken out of the tables whose bytes are still to be deleted

tableVars == <<now, nextBlob, nextToken, blobs, ended, tokens>>

requestVars == <<granting, uploads, deleting>>

blobVars == <<now, nextBlob, nextToken, blobs, ended, tokens, bytes, granting, uploads, deleting>>

allBlobVars == <<bindingVars, blobVars>>

BlobRows == [id : Nat, owner : Names, hash : Hashes, size : Nat, uploaded : BOOLEAN, retainUntil : Nat]

BlobsTypeOK ==
    /\ BindingsTypeOK
    /\ now \in Nat
    /\ nextBlob \in Nat
    /\ nextToken \in Nat
    /\ blobs \in SUBSET BlobRows
    /\ ended \in SUBSET Nat
    /\ tokens \in SUBSET [token : Nat, blob : Nat, expires : Nat]
    /\ bytes \in SUBSET Nat
    /\ granting \in SUBSET [blob : Nat, expires : Nat]
    /\ uploads \in SUBSET [token : Nat, blob : Nat, stored : BOOLEAN]
    /\ deleting \in SUBSET Nat

BlobsInit ==
    /\ BindingsInit
    /\ now = 0
    /\ nextBlob = 0
    /\ nextToken = 0
    /\ blobs = {}
    /\ ended = {}
    /\ tokens = {}
    /\ bytes = {}
    /\ granting = {}
    /\ uploads = {}
    /\ deleting = {}

-----------------------------------------------------------------------------
(* An ordinary account holds blobs under its name as written, an active    *)
(* replica under its short form.                                           *)
HoldsBlobs(n) == n \in accounts \/ (n[2] = "short" /\ IsActive(Did(n)))

Live(o) == {b \in blobs : b.owner = o /\ b.retainUntil > now}

LiveBytes(o) == SumFunctionOnSet([b \in Live(o) |-> b.size], Live(o))

Room(o, size) == LiveBytes(o) + size <= Quota

BlobOf(o, h) == {b \in blobs : b.owner = o /\ b.hash = h}

Later(x, y) == IF x > y THEN x ELSE y

Renews(b, size) == b.size = size /\ (b.retainUntil > now \/ Room(b.owner, size))

(* The row a put leaves for (owner, hash): a new one if there is room, or  *)
(* the one there is, renewed if the size agrees.  One past its retention   *)
(* counts as new against the quota.  Empty: refused, nothing is written.   *)
KeepBlob(o, h, size) ==
    IF BlobOf(o, h) = {}
      THEN IF Room(o, size)
             THEN {[id |-> nextBlob, owner |-> o, hash |-> h, size |-> size,
                    uploaded |-> FALSE, retainUntil |-> now + Retain]}
             ELSE {}
      ELSE {[b EXCEPT !.retainUntil = Later(@, now + Retain)] :
              b \in {x \in BlobOf(o, h) : Renews(x, size)}}

Put(o, h, size) ==
    LET kept == KeepBlob(o, h, size)
    IN  /\ HoldsBlobs(o)
        /\ kept # {}
        /\ blobs' = (blobs \ BlobOf(o, h)) \cup kept
        /\ nextBlob' = nextBlob + IF BlobOf(o, h) = {} THEN 1 ELSE 0
        /\ nextBlob' <= MaxBlob
        /\ granting' = granting \cup
              {[blob |-> b.id, expires |-> now + GrantTime] : b \in {x \in kept : ~x.uploaded}}
        /\ UNCHANGED <<bindingVars, now, nextToken, ended, tokens, bytes, uploads, deleting>>

(* The foreign key keeps no token of a row that is gone by now. *)
GrantUpload(g) ==
    /\ granting' = granting \ {g}
    /\ IF \E b \in blobs : b.id = g.blob
         THEN /\ nextToken < MaxToken
              /\ tokens' = tokens \cup
                    {[token |-> nextToken, blob |-> g.blob, expires |-> g.expires]}
              /\ nextToken' = nextToken + 1
         ELSE UNCHANGED <<tokens, nextToken>>
    /\ UNCHANGED <<bindingVars, now, nextBlob, blobs, ended, bytes, uploads, deleting>>

-----------------------------------------------------------------------------
(* The upload: one PUT under a token, which is spent whatever comes of it. *)

ClaimUpload(t) ==
    /\ tokens' = tokens \ {t}
    /\ uploads' = IF t.expires > now
                    THEN uploads \cup {[token |-> t.token, blob |-> t.blob, stored |-> FALSE]}
                    ELSE uploads
    /\ UNCHANGED <<bindingVars, now, nextBlob, nextToken, blobs, ended, bytes, granting, deleting>>

(* The bytes appear under their id whole, by a rename. *)
StoragePut(u) ==
    /\ ~u.stored
    /\ bytes' = bytes \cup {u.blob}
    /\ uploads' = (uploads \ {u}) \cup {[u EXCEPT !.stored = TRUE]}
    /\ UNCHANGED <<bindingVars, tableVars, granting, deleting>>

(* A body that is not the blob leaves nothing. *)
StorageMismatch(u) ==
    /\ ~u.stored
    /\ uploads' = uploads \ {u}
    /\ UNCHANGED <<bindingVars, tableVars, bytes, granting, deleting>>

(* With a bug: marks what is still being stored. *)
MarkEarly(u) ==
    /\ blobs' = {IF b.id = u.blob THEN [b EXCEPT !.uploaded = TRUE] ELSE b : b \in blobs}
    /\ UNCHANGED <<bindingVars, now, nextBlob, nextToken, ended, tokens, bytes, requestVars>>

MarkUploaded(u) ==
    /\ u.stored
    /\ uploads' = uploads \ {u}
    /\ blobs' = {IF b.id = u.blob THEN [b EXCEPT !.uploaded = TRUE] ELSE b : b \in blobs}
    /\ UNCHANGED <<bindingVars, now, nextBlob, nextToken, ended, tokens, bytes, granting, deleting>>

-----------------------------------------------------------------------------
(* Deletion and purge: first the rows, with their tokens, then the bytes.  *)

TakeOut(gone) ==
    /\ blobs' = blobs \ gone
    /\ tokens' = {t \in tokens : \A b \in gone : t.blob # b.id}

DropBlob(o, h) ==
    /\ HoldsBlobs(o)
    /\ BlobOf(o, h) # {}
    /\ TakeOut(BlobOf(o, h))
    /\ deleting' = deleting \cup {b.id : b \in BlobOf(o, h)}
    /\ UNCHANGED <<bindingVars, now, nextBlob, nextToken, ended, bytes, granting, uploads>>

PurgeBlobs ==
    LET gone == {b \in blobs : b.retainUntil <= now}
    IN  /\ blobs' = blobs \ gone
        /\ tokens' = {t \in tokens : t.expires > now /\ \A b \in gone : t.blob # b.id}
        /\ ended' = {}
        /\ deleting' = deleting \cup ended \cup {b.id : b \in gone}
        /\ UNCHANGED <<bindingVars, now, nextBlob, nextToken, bytes, granting, uploads>>

StorageDelete(id) ==
    /\ id \in deleting
    /\ deleting' = deleting \ {id}
    /\ bytes' = bytes \ {id}
    /\ UNCHANGED <<bindingVars, tableVars, granting, uploads>>

(* The end of mediations ends their blobs, in the same transaction. *)
EndBlobs(owners) ==
    /\ TakeOut({b \in blobs : b.owner \in owners})
    /\ ended' = ended \cup {b.id : b \in {x \in blobs : x.owner \in owners}}
    /\ UNCHANGED <<now, nextBlob, nextToken, bytes, requestVars>>

RevokeMediationAndBlobs(n) == RevokeMediation(n) /\ EndBlobs({n})

RemoveReplicaAndBlobs(a, m, d) == ReplicaRemove(a, m, d) /\ EndBlobs({<<d, "short">>})

DeleteAccountAndBlobs(a, m) ==
    AccountDelete(a, m) /\ EndBlobs({<<d, "short">> : d \in Enrolled(a)})

BindKeepingBlobs ==
    /\ \/ \E n \in Asked : MediateRequest(n)
       \/ \E a \in Dids, m \in Mediators :
             AccountRegister(a, m) \/ \E d \in Dids : ReplicaAdd(a, m, d)
    /\ UNCHANGED blobVars

Crash ==
    /\ granting' = {}
    /\ uploads' = {}
    /\ deleting' = {}
    /\ UNCHANGED <<bindingVars, tableVars, bytes>>

BlobsTick ==
    /\ now < MaxTime
    /\ now' = now + 1
    /\ UNCHANGED <<bindingVars, nextBlob, nextToken, blobs, ended, tokens, bytes, requestVars>>

-----------------------------------------------------------------------------
BlobRequests ==
    \/ \E n \in Asked : RevokeMediationAndBlobs(n)
    \/ \E a \in Dids, m \in Mediators :
          DeleteAccountAndBlobs(a, m) \/ \E d \in Dids : RemoveReplicaAndBlobs(a, m, d)
    \/ BindKeepingBlobs
    \/ \E o \in Names, h \in Hashes : DropBlob(o, h) \/ \E s \in BlobSizes : Put(o, h, s)
    \/ \E g \in granting : GrantUpload(g)
    \/ \E t \in tokens : ClaimUpload(t)
    \/ \E u \in uploads : StoragePut(u) \/ StorageMismatch(u) \/ MarkUploaded(u)
    \/ PurgeBlobs
    \/ \E id \in deleting : StorageDelete(id)

BlobsNext == BlobRequests \/ Crash \/ BlobsTick

BlobsSpec == BlobsInit /\ [][BlobsNext]_allBlobVars

-----------------------------------------------------------------------------
(* Properties. *)

(* What is served is there: a row marked uploaded has its bytes, across    *)
(* two uploads of one blob, deletions, purges and crashes between a row's  *)
(* write and its bytes'.                                                   *)
UploadedHasBytes == \A b \in blobs : b.uploaded => b.id \in bytes

(* The quota counts what is live, with blobs past their retention renewed  *)
(* only if they fit again.                                                 *)
BlobsWithinQuota == \A o \in Names : LiveBytes(o) <= Quota

(* A blob served has its bytes, and live blobs stay within the quota,      *)
(* through uploads, renewals, purges and crashes between the steps.        *)
BlobsSound == UploadedHasBytes /\ BlobsWithinQuota

=============================================================================
