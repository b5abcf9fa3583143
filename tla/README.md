# A TLA+ verification of estoc

estoc is a messaging system whose user data lives in *vaults*: sets of signed
events that several *replicas* (devices) of one user hold, join by importing
each other's snapshots and fold into what the user sees. Replicas send and
receive DIDComm messages through *mediators*, which keep mail for them while
they are offline; a *daemon* runs a vault and publishes it to its views. This
directory models the parts of that system in which ordering, failure and
concurrency matter, checks them with TLC on small instances, and proves the
most important results with TLAPS for every value of the constants.
`PROJECT.json` records, for each definition, the source lines it models; for
each run what it checks; and for each hazard the line where it bites.

Contents: 1. the system; 2. the modules; 3. the runs; 4. the proofs; 5. what
the models say about the code that its comments do not; 6. what is left out
and the plan.

## 1. The system

Paths are under `src/`, and under `src/packages/` where no other root is named.

| Part | State it keeps | Operations | What makes it correct |
|---|---|---|---|
| **Mediator bindings** (`mediator/src/store/sql-store.ts`, `protocols/coordinate-mediation.ts`, `protocols/replica-mediation.ts`) | tables accounts, keylist, replica_accounts, replicas, replica_recipients | grant, revoke, keylist add and remove, register, delete, enrol, remove, share, unshare; paged listings | a DID is bound once and under one protocol; no takeover; removal is final; a listing gives each entry once |
| **Mediator mail** (`protocols/routing.ts`, `pickup.ts`, `sql-store.ts`) | messages, replica_packages, replica_deliveries | forward (route, then store), acknowledge, delete, purge, and the endings of bindings | mail belongs to someone, gains no reader later, stays in its quota |
| **Mediator executions, responder** (`sql-store.ts`; `agent-core/src/responder.ts`) | replica_executions with its listed replicas; per input, where the question stands | register, purge, endings; ask, ask again, read the list | one registration has one answerer, and not all leave the input to each other |
| **Mediator blobs** (`blobs/*.ts`, `sql-store.ts`) | blobs, ended_blobs, blob_uploads, and the bytes in a storage | put, grant, claim, store, mark, drop, purge, endings | what is served is there, within the quota |
| **Mediator store opening** (`sql-store.ts`, `identity-core.ts`) | the schema and the keys | align, rebuild, mint, read | one shape, one identity, nothing lost |
| **Mediator sessions, live delivery, link** (`transport/sessions.ts`, `workers/inbox-hub.ts`, `protocols/pickup.ts`; `agent-core/src/{link,agent,pickup}.ts`) | sockets, what each proved, the agent's connection and drains | connect, bind, switch, push, pick up, acknowledge, evict, retry | a session stays with its DID; mail arrives; live delivery comes back |
| **Outbound delivery** (`agent-core/src/{send,prepare,dispatch,dispatcher,action,acceptance,local-records}.ts`, `vault/src/fold/outbound.ts`) | events of the message, two local records, waiting actions, a queue of jobs | send, retry, timer, cancel, select, dispatch, record, open | no call without authority, no acceptance lost, verdicts stand |
| **Inbound receiving** (`agent-core/src/receive/*.ts`, `pickup.ts`, `keyring.ts`) | waits, held bytes, ended deliveries, keyring | push, post, attempt, defer, retry, acknowledge, close | nothing dropped, no wake-up lost, memory bounded |
| **Effects and handlers** (`agent-core/src/{effects,acknowledgements,reconcile}.ts`, `handlers/`) | intents and results in the vault | plan, run, record, complete | one live input, a result stands |
| **Rotation, continuity** (`agent-core/src/{rotate,privacy,successor}.ts`, `vault/src/fold/continuity.ts`, `continuity/src`) | receipts, decisions, denials in the vault | receive, rotate, choose, deny, import | heads unique, addresses serve one relationship |
| **Enrollment and recipients** (`agent-core/src/{replica-enrollment,replica-recipients}.ts`) | arrangements, grants, confirmations | enrol, add, disclose, retire | one arrangement, disclosed is held, nothing half done |
| **Resolver, evidence, schema** (`agent-core/src/{resolver,evidence}.ts`, `vault/src/{schema,ids,peer-document}.ts`, `from-prior`; `mediator/src/didcomm/did-resolver.ts`) | recorded resolutions, two caches | resolve, record, prove, read | proofs true, documents fresh, names agree |
| **Views** (`vault/src/fold/views.ts`, `agent-core/src/records.ts`, `daemon/src/projection.ts`) | none: functions of the events | project | everything shown once, only what goes through offered |
| **Event store** (`event-store/src`, `vault/src/{commit,erasure,retention}.ts`) | events, objects, local records, a writer lock, database files, a pool | commit, collect, export, import, restore, create, open, reset | a vault is a set that only grows, and holds what it references |
| **Daemon, its API** (`daemon/src`, `daemon-api/src`) | phase, agent, snapshot links, published states, a port's queue | create, unlock, lock, merge, forget, publish, subscribe | nothing taken from under a call; what is shown is true and catches up |
| **did:peer, dasl, folder objects, keystore, CLI, app, post** | none that others rely on | encodings, hashes, keys, user interfaces | not modelled |

How they interact. An agent talks to a mediator over DIDComm requests with a
deadline: a request may be lost, answered late, or handled after it was given
up. The mediator fans a forwarded envelope out to every replica of an account;
every replica then holds the same input, and the responder asks the mediator
who answers it. Replicas never talk to each other otherwise than by importing
snapshots. Inside a runtime, work on one message and on one delivery is
serial (`procedure.ts`), writes are under the vault's writer lock, and
everything else interleaves at each `await`. A daemon takes what makes, opens
or removes a file in one queue of turns, and lets calls over the agent run
beside it; its publisher, a bounded queue for each port and the reconnecting
client keep the views shown.

The behaviours that are hard here, each at its line under `hazards` in
`PROJECT.json`: a check in one transaction and its write in a later one;
bindings that end while mail, uploads or registrations hang off them; crashes
between the wire's answer and its record, or between a row and its bytes;
damage found late; imports between two steps of a dispatch; a change of the
vault during an attempt that is about to wait; lost acknowledgements; evidence
in any order on two replicas; limits met exactly; turns, calls and requests of
the daemon that race a close.

## 2. The modules

| Module | Models | Uses |
|---|---|---|
| `MediatorBindings` | the binding tables and every request that changes them | |
| `MediatorClock` | the clock that mail, blobs and executions expire by | |
| `MediatorMail` | forward, fan-out, storage, acknowledgement, expiry | extends `MediatorBindings`, `MediatorClock` |
| `MediatorExecutions`, `ExecutionAnswer` | execution registrations; the responders composed with them | extend `MediatorBindings`, `MediatorClock` |
| `MediatorBlobs` | rows, tokens and bytes of the blob store | extends `MediatorBindings`, `MediatorClock` |
| `MediatorListing` | the two paged listings and a client's cursor | extends `MediatorBindings` |
| `StoreOpening` | several stores opening one mediator database of a former shape | |
| `LiveDelivery` | sessions, pushes and pickups on both sides of the line | |
| `OutboundDelivery`, `OutboundFold` | one outbound message in one runtime; the fold of such messages | |
| `InboundReceiver` | one runtime's receiver, pickup and keyring | |
| `Effects` | what follows a receipt, on two replicas | |
| `Continuity`, `Rotation`, `Views` | the graph of successions as operators; rotations of several replicas over it; what is shown of it | each extends the one before |
| `Enrollment` | runtimes of one vault enrolling and disclosing addresses | |
| `PeerEvidence`, `WebResolution`, `VaultSchema` | what is concluded of a peer; did:web on both sides; what replicas record by the same names | |
| `ReplicatedSet` | what the stores of one vault promise together (abstract) | |
| `VaultStore` | the files of one vault and the operations of the runtimes over them | instantiates `ReplicatedSet` |
| `VaultRuntime`, `Database`, `SqlitePool` | the writer lock and its views; one database file; the browser's pool of handles | |
| `Drivers` | what is beneath the stores: `DriversSpec`, `DriversSound` | extends `Database`, `SqlitePool`, `StoreOpening` |
| `Daemon`, `SnapshotLinks` | the daemon over one vault; the snapshots it publishes at a mediator | `SnapshotLinks` extends `Daemon` |
| `DaemonFeed` | publisher, bounded queue and reconnecting client | |
| `FiniteSums` | lemmas: what a sum over a finite set is | |
| `MediatorProofs` | theorems of the bindings, mail, blobs, executions with their responders, and enrollment | those modules |
| `DaemonProofs` | theorems of the daemon and its links | `SnapshotLinks` |
| `OutboundDeliveryProofs`, `InboundReceiverProofs`, `EffectsProofs`, `LiveDeliveryProofs` | theorems and their proofs | the module each is named after |
| `VaultStoreProofs` | theorems of the store, of the runtime over it, and of what is beneath | `VaultStore`, `VaultRuntime`, `Drivers` |
| `MC...` | the instance TLC checks: symmetry, functions as constants, and scenes | |

A *scene* is a component checked beside another in one run and sharing
nothing with it: the state chooses a scene at first and keeps it, so a run with
scenes explores the sum of its components and not their product. The scenes
are the three parts of `Drivers` beside `VaultStore`;
`VaultRuntime` and `OutboundFold` beside `OutboundDelivery`; `PeerEvidence`,
`WebResolution` and `VaultSchema` beside `ExecutionAnswer`; `Views` beside
`Rotation`; and `MediatorListing` beside `Enrollment`.

Correspondence with the code, module by module:

* **MediatorBindings.** One variable for each table, as a function from the
  primary key to the row or `None`. A request handler is an action; its store
  write is one SQL statement or batch, hence atomic. The exception is
  `recipient-update`, which judges an addition in one read and writes it
  later: `RecipientUpdateCheck` puts it in `pending`, `RecipientUpdateAdd`
  writes it. Refused requests change nothing. Ordinary mediation keeps a DID as
  it was written, replica mediation its short form, so a *name* is a DID with
  a spelling.
* **MediatorMail.** `ForwardRoute` is the handler's read, `StoreMessage` and
  `FanOut` its later write. Every ending of a binding is the binding's action
  conjoined with what the same transaction deletes of the mail.
* **MediatorExecutions, ExecutionAnswer.** A registration is a row with the
  sequence of replicas listed; the clock is finer than the whole seconds the
  table keeps (`Grain`). A responder asks, asks once more after the link's
  deadline, and reads the list; requests stay on their way after they were
  given up. Registrations are kept in whole seconds and mail to the
  millisecond, so a registration can be purged a little before the mail it
  was made for; `OneAnswererPerRegistration` is therefore stated of one
  registration, not of one input.
* **MediatorBlobs.** Nothing spans the database and the storage, so a put, an
  upload and a deletion are several actions with the request's progress in
  `granting`, `uploads` and `deleting`; `Crash` forgets these.
* **StoreOpening.** A table is the set of those of its columns that ever came
  or went, in one of four former shapes; each batch is a step, and between a
  store's read and its batch another may have done the same.
* **LiveDelivery.** A session is a socket with what it has proven, kept beside
  the socket too (`kept`) so that it outlives an eviction of the hub; the agent
  enrols, drains, opens the socket and drains again once live delivery is on.
  The growth of the wait between attempts is abstracted to "later".
* **OutboundDelivery.** The vault's events of one message, the local records
  of the selection and of an acceptance owed, the dispatcher's waiting
  action, the queue of jobs and the job whose turn it is, with one step for each
  stretch under the writer lock. Imports bring any event another replica can
  have written. Verdicts of other folds (the send gate, evidence, erasure,
  what can be resolved) are nondeterministic. **OutboundFold** is the whole
  fold of such a message: an intent is what it names, told apart by a number;
  the times of events are left out.
* **InboundReceiver.** Three kinds of actors (the pickup, direct posts,
  concurrent calls of `localStateChanged()`) take the steps between the awaits
  of `attempt()`; the fold of a recipient only moves forward in `Standings`.
* **Effects.** A delivery is recorded as an observation under the writer lock,
  and admissions are reconciled before it is released; only the vault's first
  admitted observation is live and runs the chain of calls that answers. The
  replicas of the account ask the mediator who answers; `answerers` are the first
  replicas of the registrations made so far, and `PurgeExecutions` ends the one
  that stands, so that who asks next is the first of another.
* **Continuity, Rotation.** A fact is an observation of a peer at a channel or
  a decision of ours; `Continuity` derives the graph, its conflicts, heads and
  answers from a set of facts with no state. `Rotation` lets two replicas
  receive, decide, deny and import, and reads everything off that model.
* **Views.** The evidence grows by `Rotation`'s actions on one replica, and
  the book keeps the vault's other events; every view is an operator over both.
* **Enrollment.** A procedure is the step it waits at, for each runtime and
  arrangement; what it records it decides under the writer lock. The
  mediator's side keeps of `MediatorBindings` what these requests can tell
  apart.
* **VaultStore.** `file` is a store's database: its replica ID, its events,
  the state of its objects' bytes, and which rows are damaged (`torn`: they
  do not decode; `swapped`: they decode as another event, which only the
  survey's hashing finds). `session` is the runtime open on it, with the
  operation that holds the writer lock and what the connection knows of
  damage. An operation that stages or plans first and writes later is several
  actions (`Commit`, `CommitPublish`; `Keep`, `Collect`; `Export`, the survey,
  then `ExportSelect`, the scan, `ExportGather`, the objects, and `ExportCopy`;
  `Import`, `Plan`, `ImportPublish`); a stream, a fault or a
  crash may come between any two. `Transaction` has a third outcome besides
  success and refusal: a COMMIT that did not report, after which the
  connection is stopped. What the events retain is the vault's own fold over
  them (`RetainedRoots`), on which erasure, collection, export and import all
  decide. `mine` is history, not state of the code: it says which events of
  the present author were written here. A snapshot is its events and objects;
  its encoding is not modelled.
* **VaultRuntime, Database, SqlitePool.** The lock and the views an operation
  works through; a file from its claim to its last connection, with journals
  and transactions whose outcome is unknown; the handles that every file of
  the browser's pool takes.
* **Daemon, SnapshotLinks, DaemonFeed.** A turn is one step for each stretch
  that ends in an await others can be seen through; calls over the agent, a
  read that meets damage, the host closing and the process dying come between.
  Publishing is three records around two requests. `DaemonFeed` tells states
  apart by epoch, revision, runtime and the changes read.

## 3. The runs

Twelve runs, all passing; each is bounded so that the interesting case occurs
and the whole state space is explored.

| Run | Checks | Instance, and why it is enough |
|---|---|---|
| `mail` (`Mail.cfg`) | `BoundOnce`, `MailSound`, `RemovalIsFinal`, `TargetsAtAcceptance` | an account, two replicas, a shared recipient, one DID that also asks for ordinary mediation; quotas that one message fills, one tick, which expires it; a forward under way while any binding changes. Proved in general |
| `answer` (`Answer.cfg`) | `OneAnswererPerRegistration`, `NotAllLeaveIt`, `EvidenceHolds` | an account with two replicas, one input, two ticks to the second, two registrations, so that one is purged and another made while both responders still ask; proved in general but for the scenes. Scenes: one peer and tokens with at most one flaw, three resolutions recorded; two did:web names and a cache of one; four events of two replicas |
| `blobs` (`Blobs.cfg`) | `BlobsSound` | two blobs of which the quota has room for one, two rows ever and two tokens, a tick that ends retention, a crash at any step. Proved in general |
| `outbound` (`Outbound.cfg`) | `CallsAuthorised`, `KeptIsRecorded`, `CarriesOne`, `NoCallAfterOwnEnd`, `RuntimeSound`, `VerdictsStand` | three actions of two attempts each, two faults, another replica: a call, a crash or failed write, and a second call with a second preparation at hand; proved in general but for `RunsOut` and `VerdictsStand`. Scenes: two calls on a runtime over an object that three events are about; four arrivals at any stage of a message |
| `vault` (`Vault.cfg`) | `HeldPresent`, `OwnIsOwn`, `NotOverKnownDamage`, `IsReplicatedSet`, `DriversSound` | two files, one body, which other events may name too, and one envelope, one snapshot, two replica IDs, three events and a fault: a copied or restored store writes, erases, exports and imports around damage; proved in general, `DriversSound` for `DriversSpec`. Scenes: two processes at one database file with two mishaps; two databases of a pool with two temporary files each; two stores opening each of four former shapes with one mishap and two new rows for each table |
| `receiver` (`Receiver.cfg`) | `NothingDropped`, `NoLostWakeup`, `KeptAccounted` | a pickup and a post for one recipient with room for one wait, one held byte and one remembered delivery, so that every limit is met, and one fault. Proved in general |
| `daemon` (`Daemon.cfg`) | `NothingUnderUse`, `ShownAndServed`, `CloseEnds` | two callers, each of whom may be in a call while the other asks for a turn, one fault, one waiting for the turn. `NothingUnderUse` and `ShownAndServed` proved in general |
| `feed` (`Feed.cfg`) | `NoProtocolError`, `AnswersCovered`, `ViewCatchesUp` | a queue of two that states, lines and answers fill, two revisions of two phases, one call, one fault |
| `effects` (`Effects.cfg`) | `EarnedOnce`, `ResultsStand` | two replicas, two intents, two observations each, two disturbances (a crash, a failed step or a purged registration, in any places), so that both replicas may answer when the registration is purged between their requests. Proved in general |
| `live` (`Live.cfg`) | `BoundToFirst`, `ReachesTheAgent`, `LiveInTheEnd` | two messages, pages of one, two rounds of pickup, one disturbance, a stranger's socket. `BoundToFirst` proved in general |
| `rotation` (`Rotation.cfg`) | `OneHeadOneRelationship`, `HistoryKept`, `ShownWhole` | two replicas, one entry, two DIDs of the peer of which one comes in two spellings, three pieces of evidence and two decisions: the least in which histories fork on one replica and join with the other's. Scene: views over one contact |
| `enrollment` (`Enrollment.cfg`) | `OneArrangement`, `DisclosedSafely`, `NeverHalfDone`, `ListedExactlyOnce` | two runtimes that share one arrangement, one of them in a second as well, one address, one fault; `OneArrangement` and `DisclosedSafely` proved in general. Scene: an account and three DIDs, pages of one or two, two registrations |

Every property has a mutant in `PROJECT.json`: a definition replaced by a
plausible bug (the operators commented "With a bug"), under which TLC finds
the property violated.

Symmetry: DIDs, blobs, replicas or intents that play the same part in the
constants are interchangeable in `mail`, `answer`, `blobs`, `effects` and
`rotation`, which check safety only. It is not used where they are ordered
(`enrollment`'s listings) nor where liveness is checked (`daemon`, `feed`,
`live`). Deadlock checking is off where a bound on the clock, on evidence or on
what the user asks ends every behaviour (`answer`, `daemon`, `effects`,
`enrollment`, `feed`, `live`, `rotation`).

Fairness.
* `daemon`: weak fairness of the turn and of each call under way. The event
  loop runs whatever can go on, and every request ends by its deadline
  (`link.ts`); nothing is assumed of who asks for turns.
* `feed`: weak fairness of each machine that a promise or a timer drives: the
  publisher's cut, the port's pump, the server's and the client's handlers,
  the client's reconnection, and a stop under way. Nothing says that the vault
  changes, that a view calls, or that a port closes by itself.
* `live`: weak fairness of all that either side does on its own (`Proceeds`);
  nothing of mail, cuts, failures, evictions, the stranger or the user.
The other runs check safety and state no fairness.

Bounds that are not the program's own stand in the guard of the action that would
pass them, and remove behaviours only: in the mediator's modules `MaxPending`,
`MaxForwards`, `MaxTime`, `MaxId`, `MaxBlob`, `MaxToken`, `MaxRegistration`;
in the agent's `MaxActions`, `MaxQueue`, `MaxFaults`, `MaxEvents`, `MaxObserved`,
`MaxOwn`, `MaxDisturbed`, `MaxMail`, `MaxEvidence`, `MaxDecisions`, `MaxLearnt`,
`MaxShown`, `MaxRecorded`, `MaxAsks`, `MaxClock`, `MaxVersion`, `MaxFlight`; in
the store's `MaxAuthors`, `Budget`, `MaxSnapshots`, `MaxOpen`, `MaxIssued`,
`MaxRuined`, `MaxTrace`, `MaxResets`, `MaxMishaps`, `MaxFailures`, `MaxRows`,
`MaxAsked`; in the daemon's `MaxAsks`, `MaxCalls`, `MaxFaults`, `MaxQueue`,
`MaxQueued`, `MaxRevision`, `MaxChanges`, `MaxPhases`, `MaxSaid`. In `vault` one
runtime is open at a time, since two share nothing but snapshots.

## 4. The proofs

Seven modules of theorems and one of lemmas. Every theorem is about the
component's own specification, for every value of the constants that satisfies
the module's assumptions; those say no more than that sets of DIDs are finite and
disjoint, that limits and clocks are numbers, and that `None` is no row and no
name. Each inductive invariant was checked with TLC on the run before it was
proved.

**Bindings** (`MediatorProofs`), for every finite set of DIDs and every limit.
`BindingsTypeCorrect`, `BindingsExclusive` (`BoundOnce`), `BindingsReferential`,
`BindingsRoster`, `BindingsLimited`: each invariant is inductive relative to
the types. Exclusivity holds because each insert tests every other table in
the write that binds; in the roster a new place is the number of replicas ever
enrolled plus one and no removal frees a place, so places are always `1..n`.
`BindingsOwnDids` needs the strengthening `PendingForeign`: what was tested
before the write is still true of the additions under way. `BindingsNoTakeover`
and `BindingsRemovalFinal` are action properties.

**Refinement of the bindings.** `MailImplementsBindings`,
`AnswerImplementsBindings`, `BlobsImplementsBindings`: each module over the
bindings takes no step the binding tables could not take by themselves
(`Next => [BindingsNext]_bindingVars`, case by case), so every theorem above
holds with mail, registrations and blobs beside. The runs check `BoundOnce`
and `RemovalIsFinal` on `MediatorMail`'s instance for that reason.

**Mail** (`MediatorProofs`). `MailInv` is the types, the bindings' invariants,
that every package or delivery stored has an id handed out before
(`MailIdsBelow`), that what is stored is finite, `MailBelongs` and
`MailWithinQuota`.
`MailMoves` reduces a step to what it does to messages and packages: they
shrink, or one forward adds one. `MailSoundness` (`MailSound`): what belongs
to someone was stored in a write that tests the owner again, and every ending
deletes it in the same transaction; the quota in bytes is a sum over the
retained packages, which a fan-out adds one member to. Freshness of ids is what
makes that member new. `MailTargets` is the action property
`TargetsAtAcceptance`.

**Blobs** (`MediatorProofs`). `BlobsInv` is the types, finiteness, that a row is the
only one of its id and of its owner and hash (`KeptOnce`), `BlobIdsBelow`, that
no row has an id that ended or is being deleted (`GoneIsGone`), that an upload
that stored its bytes finds them there or no row to mark (`StoredKept`),
`UploadedHasBytes` and `BlobsWithinQuota`. The last two are not inductive without
the others: a marking is right only because bytes are deleted after the row is
gone and an id never comes back. A step loses rows, adds one for which there
was room, or replaces one by another of the same id, owner and size
(`RowsMoves`), and the sum of the live sizes follows. `BlobsServedWithinQuota`
is `BlobsSound`.

**Executions and responders** (`MediatorProofs`). `AnswerInv` is the types and three facts about
`Heads(i, h)`, "replica h heads registration i in a list that is kept, on its
way or was read": ids are numbers handed out (`Numbered`), a registration has
one head (`OneHead`), and nobody who left the input to another heads the list it
read (`OtherHeads`). Lists only grow at their end and ids are never reused, so
these survive purges, removals and late answers. `AnswererUnique` and
`AnswererRemains` follow from it.

**Enrollment** (`MediatorProofs`), for any runtimes, replicas, arrangements and
addresses, from `EnrollmentAssumption` (runtimes begin under different IDs; an
address has one arrangement) and `NothingApart` (`Nothing` is no request and no
answer). `EnrollmentInv` is the types and six parts. `ProceduresInv` says by
`Sound` what a procedure relies on at each of its steps: what it asks for is
its own replica, or an address it still has to have held; a "yes" that it was
given is in effect; an address it is to disclose is still to be asked for,
refused, or held. `KeptInv`: what a runtime was told is true. `AuthorsInv`: no
two runtimes write under one ID, nor one under an ID given up. `GrantsInv`: a
grant of a runtime's is in its own vault, wherever else it is, and an ID that
nobody has had is granted nowhere. `GrantedOnce` and `DisclosedInv` say of every
pair of vaults what the properties say of each. `ReplicaInOneArrangement`
(`OneArrangement`) needs `GrantsInv`, since a grant is decided on one vault and
the property speaks of all; `EnrollmentDisclosesSafely` (`DisclosedSafely`)
needs `ProceduresInv`, since the mediator's answer is acted on a step later.
Requests that arrive late do no harm because these procedures only ever add at
the mediator.

**`InboundReceiverProofs`.** `ReceiverInv` is the types and seven parts: whose
turn it is (`Turns`); what left the queue, is being acknowledged or is
remembered as ended was recorded or terminal (`Traced`); a delivery under way is
not both ended and waiting, and nothing is kept by a receiver that was closed
(`Exclusive`); each end is remembered once (`Countable`); `KeptAccounted`;
the fold an attempt judged by is the vault's, or a change of it is still to be
told of or was told of meanwhile (`FoldsFresh`); and every wait on a fold that
changed has a retry, a change untold, an attempt or a teller to wake it
(`Wakes`). `ReceiverLosesNoWakeup` needs the last two together: a wait is set
only after the attempt looked whether it was stirred. `ReceiverDropsNothing` and
`ReceiverKeepsAccount` are parts of the invariant; the bytes held are a sum over
the waits.

**`OutboundDeliveryProofs`**, from `OutboundAssumption` (this replica is not one
of the others, which are finitely many; at least one attempt). Each variable
has a lemma that says which steps move it and how, and the invariant's parts
follow by cases.
* `OutboundTypeCorrect` needs `ArmedHasMore`: a timer is set only while the
  policy has an attempt left, else a wait would count past it.
* `OutboundAuthorised`: every action that waits, is queued, has the turn or is
  spent was minted (`ActionsMinted`), and each call consumed one
  (`CallsConsume`), so there are at most as many calls as minted actions.
* `OutboundTrue`: what is owed or about to be recorded was accepted
  (`OwedTrue`), and an own submission enters the vault only from there.
* `OutboundKept`, `OutboundOwedFirst`: while a job has its turn nothing is
  owed but its own answer, unless a read of the record failed (`TurnUnowed`),
  and a process that is down is idle (`DownIsIdle`); so an acceptance is kept
  over nothing else, and dropped only by the step that records it.
* `OutboundNoCallAfterEnd`: at the call the message has no end recorded here
  (`OpenAtCall`), since the recheck found it open and every step that could
  end it here waits for the turn.
* `OutboundCarriesOne`: the selection, what the turn carries and what was
  carried agree (`CarriesSelected`). The case worth the proof is a selection
  whose record cannot be read: it is then chosen again only if there is one
  preparation, which is the one selected.

**`VaultStoreProofs`**, for any set of files, objects, replica IDs, snapshots and
open runtimes.
* `VaultTypeCorrect`: the types, and that a runtime is open only on a file
  that exists.
* `VaultOwnIsOwn` and `VaultRefines` rest on `VaultInv`. `StepMoves` first
  reduces every step to one of seven moves of the files and snapshots; then
  `AtHome` (an event anywhere is still in the file that wrote it),
  `AuthorsMinted` (a fresh replica ID is in no event) and `OwnIsOwn` follow by
  cases on the moves. The part that needs the actions is `OperationsSound`:
  what an operation read when it took the lock still holds when its transaction
  runs. The refusal of a fork is decided in `Plan` and relied on in
  `ImportPublish`; it holds because a history in which a row is swapped fails
  the survey at the start and no row is swapped under an open runtime.
* `VaultRefines`: a written event is new to every store and cut, since it
  would be at home already; so a commit is a `Write`, a delivery a `Publish`,
  an import or a restore a `Join`, a copied file a `Copy`, a torn or swapped row a
  `Decay`, a survey that starts an export a `Begin`. What a delivery owes is
  `OperationsSound`: an export was begun on a store whose every row decoded as
  itself; nothing was written to it since, because the export holds the lock; and
  what its scan left out was damaged after the survey. The abstract `Publish`
  says the same, and no more: a row torn between the survey and the scan is left
  out of the snapshot (section 5).
* `VaultHeldPresent` rests on a second invariant, `HeldInv`: each file is full
  (every root its events hold has an object), each snapshot too, and each
  session *rests* soundly: a survey that found nothing saw no swapped row, and
  for each operation under way what it staged, planned to keep or counted on
  is there or known to be damaged. `HeldPresent` is not inductive by itself,
  because a collection deletes by a keep set, and an import publishes by a
  plan, that were folded before the transaction; what the folds missed makes the
  transaction refuse (`requireSound`), and `Rests` says why that is enough. The
  fold over intents is reasoned about through what it releases, never by
  counting intents.
* `VaultNotOverDamage` is the action property `NotOverKnownDamage`, from the same
  invariant: an object found damaged before the write and not staged makes the
  transaction refuse.
* `RuntimeRootsHeld`, `RuntimeFollowsExactly`, `RuntimeLetsGo` are about `VaultRuntime`, for
  any calls, events and objects, from `RuntimeAssumption` (the roots of events
  are objects; limits are numbers): the parts of `RuntimeSound` that do not ask
  what can be done. `RuntimeInv` says who is admitted is queued once, who is in
  holds the lock and alone has mutations (`LockInv`); of these the first alone
  has begun, what it relies on is there, and what it keeps is what is to be kept
  now (`MutationsInv`); and a follower has seen what was accepted up to its
  token, in that order (`FollowInv`). `RootsHeld` is not inductive without the
  first two: a publish checks its roots and a collection folds its keep set steps
  before they act, and neither looks again. It is the lock that makes both
  still true.
* `DatabaseOpensWhole`, `DatabaseLocalState` are about one database file under
  any number of processes. An open goes through stages (reserve, probe, make,
  lay, copy, publish, check), and each takes for granted what the stage before
  left; `ConnectionSound` says what, and `Alone` why it stands meanwhile: a connection
  that excludes others meets at most one that has just claimed the file, which is
  empty then. What was published opens because nothing is marked ready before
  all of it is there.
* `PoolHandlesSuffice` is about the browser's pool with any finite number of
  databases and temporary files. `HandlesSuffice` is not inductive: an open
  looks, waits for the pool to grow and only then takes, while connections
  make and drop files. `Demand` counts what they *may* make instead of what they
  have made, so nothing they do changes it; `HandlesInv` compares it with the
  capacity, before and after the growth. A file removed under an open costs
  it one handle more, the one that the file gave up.
* `StoresOpen` is about any number of stores that open one database of any
  former shape. `Progress` says that what one has done no other undoes, the first
  blobs table apart. `FailsForCause` compares two counters, which no induction on
  the counters alone can do; the invariant charges each throw in advance
  to a store that will make it (one that missed its batch and then finds nothing
  changed throws, whatever the others do), a failure charges one store and a
  reset all but one.
* `DriversAreSound` (`DriversSound`) puts them together. They assume what
  `DatabaseAssumption`, `PoolAssumption` and `OpeningAssumption` say: bounds are
  numbers, databases and stores are finitely many, and `Nil` is no table and no
  store.

**`DaemonProofs`**, for any number of callers, turns, calls and faults, from
`NamesApart` and `LinkNamesApart` (`None` is no file, agent, call, turn or
record; no caller is the name of a place). The invariant has a part for each
machine: what the turns waiting were asked with still stands (`QueueInv`); what
the turn under way holds at each of its places (`TurnInv`); the runtime and its
agent come and go together but for a turn that stops them (`AgentInv`); who has
a connection (`ConnInv`); each call is over the agent there is (`CallInv`);
what is shown (`ShownInv`); and the links (`AuthorInv`, `LinksInv`). It is that
long because a turn goes on from what an earlier stretch of it left, while
calls, hosts and other daemons act between. `BesideKeeps` deals with all of
those at once: what happens beside the turns moves calls only while an agent
runs, and asks only for turns that may wait. Then each turn is followed place
by place.
* `DaemonTypeCorrect`.
* `DaemonNothingUnderUse` (`NothingUnderUse`): no file is removed, and no
  runtime closed, under another still using it.
* `DaemonShownAndServed` (`ShownAndServed`): what is shown is true of the files, and what
  the mediator serves under this replica's name is on record here. `LinksInv`
  carries the second: what is on no record is gone from the mediator, or a grant
  under which nothing will be uploaded. A request made under a former replica ID
  may be carried out long after; `MediatorLinks` says that it touches nothing
  of this one's.

**`EffectsProofs`**, for any replicas, intents and faults, from
`EffectsAssumption`. The invariant's parts: `ShapeInv` (vaults are finite, as
`Cardinality` of an infinite set is nothing known); `HomeInv` (an event that
names its author is in its author's vault, so an import brings a replica nothing
new of its own); `WayInv` (the deliveries all come one way, and one posted
straight to a replica to that one alone); `MediatorInv` (a registration that
stands has a first replica); `EnteredInv` (what entered first is
still there); `JobsInv` (a chain of calls goes on past what is owed only if it is
the replica's one live chain; it asks who answers before it makes anything, and
has still to call only what this replica has not called); `CallsInv` (a call was
made by a replica that was entitled to it, `Entitled`: the input was posted to it, or
it was the first of the registration it asked under; and is of the input that
entered there first); `OnceInv` (no replica called an operation twice); `AgreeInv` (what a replica admitted stays admitted, and
agrees). `AnsweredOnce` is `EarnedOnce`: once for each
replica by `OnceInv`, and once for a registration because it has one first
replica for ever (`FirstsStay`); `ResultsStandForever` is the action
property `ResultsStand`.

**`LiveDeliveryProofs`**, for any mail, pages, rounds and failures, from
`LiveDeliveryAssumption`. The types (`MediatorTypes`, `AgentTypes`) with
`DrainInv`, that a connection's pickup is under way exactly while the
connection is at it, give `LiveTypeCorrect`. `LiveBoundToFirst`
(`BoundToFirst`) needs `FirstInv` and `PushedInv`: the session in the hub and
what is kept beside the socket both name the first DID proven, so it does not
matter which of the two a session goes on from after an eviction; a socket not
opened yet has neither; and a delivery is on its way only to where the
replica's own DID was the first.

**`FiniteSums`** proves of `SumFunctionOnSet`, the community modules' fold over a set, that
it is a number, and how it changes when a member is added, removed, or the
function replaced. It is induction over data, done by a least counterexample
(`WFMin` with the well-foundedness of `<` or of strict inclusion), since
the library's induction theorems take an operator the installed provers cannot
instantiate.

Only model-checked, and why:
* Liveness (`CloseEnds`, `ViewCatchesUp`, `ReachesTheAgent`, `LiveInTheEnd`),
  and what says that a step can be taken (`RunsOut` in `RuntimeSound`, and
  `NeverHalfDone`, with `ENABLED`): outside the prover's reach.
* `DaemonFeed` (`NoProtocolError`, `AnswersCovered`): what a client makes of a
  queue of states, lines and answers is a recursion over that queue, so the
  invariant is induction over data.
* `Rotation` and `Views` (`OneHeadOneRelationship`, `HistoryKept`,
  `ShownWhole`): every property is about the transitive closure of a graph
  that is derived anew from each event set (`Continuity`); it would need a
  theory of paths first, and the operators are recursive.
* `OutboundFold`, `PeerEvidence`, `VaultSchema` and `MediatorListing` (`VerdictsStand`,
  `EvidenceHolds`, `ListedExactlyOnce`) are finite case analyses or sorted
  sequences over data, where TLC's enumeration of every input is the better
  argument.
* `WebResolution`, checked as a scene of `EvidenceHolds`: no theorem is stated
  of it.

## 5. What the models say about the code that its comments do not

No run is expected to fail. These are things a reader of the code should
know; each was met while modelling, and the properties are stated so as to hold
of what the code does.

* *Mediator.* The long and the short spelling of one did:peer:4 are two keylist
  rows, which two owners can hold (`store/types.ts` speaks of one owner for a
  DID). Bytes stored by an upload whose blob was deleted meanwhile, or left by a
  crash between rows and bytes, are named by nothing and stay. Two stores that
  both find the first, hash-keyed blobs table drop it without looking again, so
  the later drop can take the new table with what was put meanwhile, and
  requests fail until the schema is made again, and the `init` of every other
  store that was at its blobs may throw for it (`FailsForCause` counts them:
  one for each reset and other store). The did:web cache may keep an
  older document anew when fetches overtake each other (never beyond its time
  to live and one fetch), and evicts its oldest even when the name is already
  kept.
* *Live delivery.* If handling a live-delivery-change fails, the frame is
  dropped and the agent's socket stays open without live delivery, with no
  deadline. Mail that was queued when a pickup failed waits for the next
  connection.
* *Receiving.* Two attempts reload the shared keyring from folds of different
  age; the one with the newer fold may find its key gone and wait on a
  recipient the fold already finds eligible, until told again.
* *Outbound fold.* A disagreeing intent, or a second creation of the sender,
  that is imported later withdraws `submitted` and `released` and turns a
  preparation's conflict "for good" into pending, though the comments of
  `fold/outbound.ts` say nothing withdraws them. `VerdictsStand` holds of
  agreeing intents and a sender without conflict.
* *Pool and files.* `remove()` leaves the hot journal of a dead worker's
  transaction; a create cut short between its reservation and its transaction
  leaves an empty file that neither create nor open accepts.
* *Export.* `exportVault` says that it refuses a history with damage. It asks at
  its survey only: a row torn between the survey and the scan is left out by the scan, `publish` compares the file
  with what was scanned, and `validatePortable` sees the file alone. The snapshot
  delivered then lacks an event of its store, without a word. `IsReplicatedSet`
  allows exactly that.
* *Answers.* A registration that is purged between two replicas' requests gives
  the input two answerers, each the first of its own; both call. `EarnedOnce`
  says once for a registration, not once for an input.
* *Rotation.* Two replicas with different evidence may decide different successors
  for one pair; the conflict is found on the merge and stays found.
* *Feed.* While a runtime is being stopped, a refresh is answered at once
  with the state that stands.

## 6. What is left out, and the plan

Not modelled, for good: encodings, hashes, signatures and key derivation
(`did-peer`, `dasl`, the signatures of `from-prior`, `keystore`,
`folder-object`, sealing); transport plumbing; the user interfaces. Models take the verdict of
such code as a nondeterministic or given result.

Abstractions worth knowing when reading a module:

* `LiveDelivery`: ten rounds of pickup and pages of ten are two and one; a
  replica's removal is not in it.
* `Enrollment`: an import is the whole other vault; replicas share the seed, so
  that creations of one arrangement agree. The choice between arrangements,
  direct addresses, invitations, and deletion by other tools are left out; a
  confirmation is kept even if another tool deletes the account.
* `Effects`: one input, a Ping that earns every operation an input can earn. Its
  deliveries come one way, all posted to one replica or all picked up from one
  account, by replicas that stay active in it; what the mediator answers them is
  `ExecutionAnswer`'s in full.
* `OutboundDelivery`: a preparation that is here and not erased is valid; how
  other events put one in conflict or leave it waiting is in `OutboundFold`.
* `MediatorMail`: a forward's two reads of the routing are one; storing is a
  later transaction that tests the owner again.
* `Views`: every input is one receipt that asks for its receipt; names, bodies,
  headers, presentation order and routes are left out.
* `OutboundFold`: the order of events in time and the spelling of fields are
  left out; of two intents the first keeps its operation's rules.
* `PeerEvidence`: one peer with one document; a token has at most one flaw,
  under either spelling of the issuer.
* `WebResolution`: a document is a version; a fetch of the mediator's takes at
  most `MaxFlight`, where the code has no deadline.
* `VaultSchema`: names and CIDs are what they derive from; events of messages
  and of entities are separate behaviours; one stranger's event with one member
  garbled.
* `StoreOpening`: SQLite's foreign keys are left out. `SqlitePool`: two
  temporary files where the code counts four.
* Of the event store, the keystore's rewrap and an ingest without a stage;
  nested calls inside a locked operation, which the code forbids by rule.

Planned next:

1. The tellings of `DaemonFeed` as recursive functions, with lemmas on what one
   more entry changes, and on them `NoProtocolError`.
2. `VaultRuntime`, whose own invariants are proved, as an implementation of what
   `VaultStore` takes for granted of the lock.
3. Lemmas about reachability in `Continuity`, and on them `HeadSound`.
