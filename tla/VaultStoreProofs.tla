-------------------------- MODULE VaultStoreProofs --------------------------
(***************************************************************************)
(* Theorems about VaultStore: its types, that no store takes events of its *)
(* own author from elsewhere, that the stores together implement           *)
(* ReplicatedSet, that what a store's events hold is there, and that no    *)
(* event is taken over an object known to be damaged; about VaultRuntime,  *)
(* what the writer lock makes of calls that interleave; and about Drivers, *)
(* what is beneath the stores: one database file and its users, the        *)
(* browser's handles, and several stores that open one database.           *)
(***************************************************************************)
EXTENDS VaultStore, VaultRuntime, Drivers, FiniteSums, FiniteSetTheorems, SequenceTheorems, TLAPS

-----------------------------------------------------------------------------
(* Types. *)

(* A step that only replaces what is open on s keeps the types. *)
LEMMA SessionMoved ==
    ASSUME TypeOK, NEW s \in Stores, NEW x \in Session, file[s] # None,
           session' = [session EXCEPT ![s] = x],
           UNCHANGED <<file, snapshots, minted, faults>>
    PROVE  TypeOK'
BY DEF TypeOK

LEMMA SessionTyped ==
    ASSUME TypeOK, NEW s \in Stores, session[s] # None
    PROVE  session[s] \in Session /\ file[s] \in File /\ file[s] # None
BY DEF TypeOK

(* What each update of a session may set. *)
LEMMA SessionUpdates ==
    ASSUME NEW x \in Session
    PROVE  /\ \A o \in Operation \cup {None} : [x EXCEPT !.op = o] \in Session
           /\ \A k \in SUBSET Event : [x EXCEPT !.known = k] \in Session
           /\ \A c \in SUBSET Roots : [x EXCEPT !.condemned = c] \in Session
           /\ \A t \in Stream \cup {None} : [x EXCEPT !.stream = t] \in Session
           /\ \A b \in BOOLEAN : [x EXCEPT !.surveyed = b] \in Session
           /\ \A b \in BOOLEAN : [x EXCEPT !.stopped = b] \in Session
BY DEF Session

LEMMA ScanTyped ==
    ASSUME NEW s \in Stores, file[s] \in File
    PROVE  /\ Scan(s) \subseteq Event
           /\ file[s].torn \subseteq Event /\ file[s].swapped \subseteq Event
<1>1. \A e \in Event : Decoded(s, e) \in Event
  BY DEF Decoded, Event, Roots
<1> QED  BY <1>1 DEF Scan, File

LEMMA KnownTyped ==
    ASSUME TypeOK, NEW s \in Stores, session[s] # None
    PROVE  /\ KnownByScan(s) \in SUBSET Event
           /\ KnownBySurvey(s) \in SUBSET Event
           /\ Asked(s) \in Session
<1>1. session[s] \in Session /\ file[s] \in File
  BY SessionTyped
<1>2. KnownByScan(s) \in SUBSET Event /\ KnownBySurvey(s) \in SUBSET Event
  BY <1>1 DEF KnownByScan, KnownBySurvey, Session, File
<1>3. [session[s] EXCEPT !.surveyed = TRUE, !.known = KnownBySurvey(s)] \in Session
  BY <1>1, <1>2 DEF Session
<1> QED  BY <1>1, <1>2, <1>3 DEF Asked

LEMMA HeldTyped ==
    ASSUME NEW E \in SUBSET Event
    PROVE  HeldRoots(E) \subseteq Roots
<1>1. \A e \in E : e.roots \subseteq Roots
  BY DEF Event
<1>2. \A e \in E : RetainedRoots(E)[e] \subseteq e.roots
  BY DEF RetainedRoots
<1> QED  BY <1>1, <1>2 DEF HeldRoots

(* One transaction keeps the types when what it leaves is typed. *)
LEMMA TransactionTyped ==
    ASSUME TypeOK, NEW s \in Stores, session[s] # None,
           NEW f \in File, NEW x \in Session, Transaction(s, f, x)
    PROVE  TypeOK'
<1>1. session[s] \in Session /\ file[s] # None
  BY SessionTyped
<1>2. [session[s] EXCEPT !.stopped = TRUE, !.op = None] \in Session
  BY <1>1 DEF Session
<1>3. file' \in [Stores -> File \cup {None}] /\ (\A t \in Stores : file[t] # None => file'[t] # None)
  BY NoneAssumption DEF TypeOK, Transaction
<1>4. session' \in [Stores -> Session \cup {None}] /\ (\A t \in Stores : session'[t] # None => session[t] # None)
  BY <1>1, <1>2 DEF TypeOK, Transaction
<1>5. faults' \in Nat /\ UNCHANGED <<snapshots, minted>>
  BY DEF TypeOK, Transaction
<1> QED  BY <1>3, <1>4, <1>5 DEF TypeOK

LEMMA RefuseTyped ==
    ASSUME TypeOK, NEW s \in Stores, session[s] # None, Refuse(s)
    PROVE  TypeOK'
<1>1. [Asked(s) EXCEPT !.op = None] \in Session
  BY KnownTyped, SessionUpdates
<1> QED  BY <1>1, SessionMoved, SessionTyped DEF Refuse

LEMMA AcceptedTyped ==
    ASSUME NEW s \in Stores, file[s] \in File, NEW staged, NEW E \in SUBSET Event
    PROVE  Accepted(s, staged, E) \in File
BY DEF Accepted, File

LEMMA PublishedTyped ==
    ASSUME TypeOK, NEW s \in Stores, session[s] # None, NEW staged,
           NEW o \in Operation \cup {None}
    PROVE  Published(s, staged, o) \in Session
<1>1. Asked(s) \in Session
  BY KnownTyped
<1>2. \A t \in Stream \cup {None} : \A R : Interrupt(t, R) \in Stream \cup {None}
  BY DEF Interrupt, Stream
<1> QED  BY <1>1, <1>2 DEF Published, Session

(* The operations under the lock, as their steps make them. *)
LEMMA OperationsTyped ==
    /\ \A e \in Event, R \in SUBSET Roots : [kind |-> "commit", draft |-> e, staged |-> R] \in Operation
    /\ [kind |-> "keep"] \in Operation
    /\ \A R \in SUBSET Roots : [kind |-> "collect", keep |-> R] \in Operation
    /\ [kind |-> "select"] \in Operation
    /\ \A E \in SUBSET Event : [kind |-> "gather", events |-> E] \in Operation
    /\ \A E \in SUBSET Event, R \in SUBSET Roots : [kind |-> "export", events |-> E, objects |-> R] \in Operation
    /\ \A E \in SUBSET Event, R \in SUBSET Roots : [kind |-> "plan", events |-> E, offered |-> R] \in Operation
    /\ \A E \in SUBSET Event, R, S, T \in SUBSET Roots :
          [kind |-> "import", events |-> E, offered |-> R, staged |-> S, reused |-> T] \in Operation
BY DEF Operation

LEMMA OperationFields ==
    ASSUME NEW o \in Operation
    PROVE  /\ o.kind = "commit" => o.draft \in Event /\ o.staged \in SUBSET Roots
           /\ o.kind \in {"gather", "export"} => o.events \in SUBSET Event
           /\ o.kind = "export" => o.objects \in SUBSET Roots
           /\ o.kind \in {"plan", "import"} => o.events \in SUBSET Event /\ o.offered \in SUBSET Roots
           /\ o.kind = "import" => o.staged \in SUBSET Roots /\ o.reused \in SUBSET Roots
BY DEF Operation

LEMMA DraftsTyped ==
    ASSUME TypeOK, NEW s \in Stores, session[s] # None, NEW e \in Drafts(s)
    PROVE  e \in Event /\ e.author = file[s].author /\ e.by = s
<1>1. file[s] \in File /\ Scan(s) \subseteq Event
  BY SessionTyped, ScanTyped
<1>2. Unreleased(s) \subseteq Roots
  BY <1>1 DEF Unreleased, Event
<1>3. \A k \in Kinds, R, D \in SUBSET Roots :
         LET d == [author |-> file[s].author, by |-> s, kind |-> k, roots |-> R, drops |-> D]
         IN  d \in Event /\ d.author = file[s].author /\ d.by = s
  BY <1>1 DEF Event, File
<1>4. PICK k \in Kinds, R \in SUBSET Roots, D \in SUBSET Roots :
         e = [author |-> file[s].author, by |-> s, kind |-> k, roots |-> R, drops |-> D]
  BY <1>2, VaultAssumption DEF Drafts, Kinds, Roots
<1> QED  BY <1>3, <1>4

LEMMA RunningOpen ==
    ASSUME NEW s, Running(s) \/ Unlocked(s) \/ (\E k : Working(s, k))
    PROVE  session[s] # None
BY DEF Running, Unlocked, Working

LEMMA WorkingTyped ==
    ASSUME TypeOK, NEW s \in Stores, NEW k, Working(s, k)
    PROVE  /\ session[s] # None /\ session[s] \in Session /\ file[s] \in File /\ file[s] # None
           /\ session[s].op \in Operation /\ session[s].op.kind = k
<1>1. session[s] # None /\ session[s].op # None /\ session[s].op.kind = k
  BY DEF Working, Running
<1> QED  BY <1>1, SessionTyped DEF Session

LEMMA StreamsKeepTypes ==
    ASSUME TypeOK, NEW s \in Stores,
           (\E r \in Roots : OpenStream(s, r)) \/ EndStream(s)
    PROVE  TypeOK'
<1>1. session[s] # None
  BY RunningOpen DEF OpenStream, EndStream
<1>2. session[s] \in Session /\ file[s] # None
  BY <1>1, SessionTyped
<1>3. CASE \E r \in Roots : OpenStream(s, r)
  <2>1. PICK r \in Roots : OpenStream(s, r)
    BY <1>3
  <2>2. [session[s] EXCEPT !.stream = [cid |-> r, stale |-> FALSE]] \in Session
    BY <1>2, SessionUpdates DEF Stream
  <2> QED  BY <2>1, <2>2, <1>2, SessionMoved DEF OpenStream
<1>4. CASE EndStream(s)
  <2>1. session[s].stream \in Stream
    BY <1>2, <1>4 DEF EndStream, Session
  <2>2. Condemns(session[s].stream) \subseteq Roots
    BY <2>1 DEF Condemns, Stream
  <2>3. [session[s] EXCEPT !.stream = None, !.condemned = @ \cup Condemns(session[s].stream)] \in Session
    BY <1>2, <2>2 DEF Session
  <2> QED  BY <1>2, <1>4, <2>3, SessionMoved DEF EndStream
<1> QED  BY <1>3, <1>4

LEMMA CommitKeepsTypes ==
    ASSUME TypeOK, NEW s \in Stores,
           \/ \E e \in Drafts(s) : \E staged \in SUBSET e.roots : Commit(s, e, staged)
           \/ CommitPublish(s)
    PROVE  TypeOK'
<1>1. CASE \E e \in Drafts(s) : \E staged \in SUBSET e.roots : Commit(s, e, staged)
  <2>1. PICK e \in Drafts(s) : \E staged \in SUBSET e.roots : Commit(s, e, staged)
    BY <1>1
  <2>2. PICK staged \in SUBSET e.roots : Commit(s, e, staged)
    BY <2>1
  <2>3. session[s] # None
    BY <2>2, RunningOpen DEF Commit
  <2>4. session[s] \in Session /\ file[s] # None /\ KnownByScan(s) \in SUBSET Event /\ e \in Event
    BY <2>3, SessionTyped, KnownTyped, DraftsTyped
  <2>5. [kind |-> "commit", draft |-> e, staged |-> staged] \in Operation
    BY <2>4, OperationsTyped DEF Event
  <2>6. [session[s] EXCEPT !.op = [kind |-> "commit", draft |-> e, staged |-> staged],
                          !.known = KnownByScan(s)] \in Session
    BY <2>4, <2>5 DEF Session
  <2> QED  BY <2>2, <2>4, <2>6, SessionMoved DEF Commit
<1>2. CASE CommitPublish(s)
  <2> DEFINE e == session[s].op.draft
             staged == session[s].op.staged
             next == IF e.kind = "erased" THEN [kind |-> "keep"] ELSE None
             f == [Accepted(s, staged, {e}) EXCEPT !.mine = @ \cup {e}]
  <2>1. session[s] # None /\ file[s] \in File /\ e \in Event
    BY <1>2, WorkingTyped, OperationFields DEF CommitPublish
  <2>2. f \in File
    <3>1. Accepted(s, staged, {e}) \in File
      BY <2>1, AcceptedTyped
    <3> HIDE DEF e, staged
    <3> QED  BY <2>1, <3>1 DEF File
  <2>3. Published(s, staged, next) \in Session
    BY <2>1, PublishedTyped, OperationsTyped
  <2>4. Transaction(s, f, Published(s, staged, next)) \/ Refuse(s)
    BY <1>2 DEF CommitPublish
  <2> HIDE DEF e, staged, f, next
  <2> QED  BY <2>1, <2>2, <2>3, <2>4, TransactionTyped, RefuseTyped
<1> QED  BY <1>1, <1>2

LEMMA CollectKeepsTypes ==
    ASSUME TypeOK, NEW s \in Stores, Keep(s) \/ Collect(s)
    PROVE  TypeOK'
<1>1. CASE Keep(s)
  <2>1. session[s] # None
    BY <1>1, RunningOpen DEF Keep
  <2>2. session[s] \in Session /\ file[s] # None /\ KnownByScan(s) \in SUBSET Event
    BY <2>1, SessionTyped, KnownTyped
  <2>3. [kind |-> "collect", keep |-> HeldRoots(Scan(s))] \in Operation
    BY <2>1, SessionTyped, ScanTyped, HeldTyped, OperationsTyped
  <2>4. [session[s] EXCEPT !.op = [kind |-> "collect", keep |-> HeldRoots(Scan(s))],
                          !.known = KnownByScan(s)] \in Session
    BY <2>2, <2>3 DEF Session
  <2> QED  BY <1>1, <2>2, <2>4, SessionMoved DEF Keep
<1>2. CASE Collect(s)
  <2> DEFINE removed == {r \in Roots \ session[s].op.keep : file[s].bytes[r] # "absent"}
             f == [file[s] EXCEPT !.bytes = [r \in Roots |-> IF r \in removed THEN "absent" ELSE @[r]]]
             x == [Asked(s) EXCEPT !.condemned = @ \ removed,
                                   !.stream = Interrupt(@, removed), !.op = None]
  <2>1. session[s] # None /\ file[s] \in File /\ Asked(s) \in Session
    BY <1>2, WorkingTyped, KnownTyped DEF Collect
  <2>2. f \in File
    BY <2>1 DEF File
  <2>3. x \in Session
    <3>1. \A t \in Stream \cup {None} : Interrupt(t, removed) \in Stream \cup {None}
      BY DEF Interrupt, Stream
    <3> HIDE DEF removed
    <3> QED  BY <2>1, <3>1 DEF Session
  <2>4. Transaction(s, f, x) \/ Refuse(s)
    BY <1>2 DEF Collect
  <2> HIDE DEF f, x, removed
  <2> QED  BY <2>1, <2>2, <2>3, <2>4, TransactionTyped, RefuseTyped
<1> QED  BY <1>1, <1>2

(* What the steps that select a cut leave of the session: a survey that    *)
(* found nothing begins it, the scan takes its events and the fold its     *)
(* objects, or gives it up.                                                *)
LEMMA SelectionSteps ==
    ASSUME TypeOK, NEW s \in Stores, Export(s) \/ ExportSelect(s) \/ ExportGather(s)
    PROVE  /\ session[s] # None /\ session[s] \in Session /\ file[s] \in File /\ file[s] # None
           /\ UNCHANGED <<file, snapshots, minted, faults>>
           /\ \E y \in Session :
                 /\ session' = [session EXCEPT ![s] = y] /\ session'[s] = y
                 /\ \/ /\ Export(s) /\ session[s].op = None
                       /\ y.known = KnownBySurvey(s)
                       /\ y.op = None \/ (y.op.kind = "select" /\ KnownBySurvey(s) = {})
                    \/ /\ ExportSelect(s) /\ Working(s, "select")
                       /\ y.known = KnownByScan(s) /\ y.surveyed = session[s].surveyed
                       /\ y.op.kind = "gather" /\ y.op.events = Scan(s)
                    \/ /\ ExportGather(s) /\ Working(s, "gather")
                       /\ y.known = KnownByScan(s) /\ y.surveyed = session[s].surveyed
                       /\ \/ y.op = None
                          \/ y.op.kind = "export" /\ y.op.events = session[s].op.events
<1>1. session[s] # None /\ UNCHANGED <<file, snapshots, minted, faults>>
  BY RunningOpen DEF Export, ExportSelect, ExportGather
<1>2. /\ session[s] \in Session /\ file[s] \in File /\ file[s] # None
      /\ KnownBySurvey(s) \in SUBSET Event /\ KnownByScan(s) \in SUBSET Event
      /\ Scan(s) \in SUBSET Event /\ HeldRoots(Scan(s)) \in SUBSET Roots
  BY <1>1, SessionTyped, KnownTyped, ScanTyped, HeldTyped
<1>3. \A y : session' = [session EXCEPT ![s] = y] => session'[s] = y
  BY DEF TypeOK
<1>4. CASE Export(s)
  <2> DEFINE o == [kind |-> "select"]
             surveyed == [session[s] EXCEPT !.surveyed = TRUE, !.known = KnownBySurvey(s)]
  <2>1. session[s].op = None
    BY <1>4 DEF Export, Unlocked
  <2>2. o \in Operation /\ o.kind = "select"
    BY OperationsTyped
  <2>3. surveyed \in Session /\ surveyed.known = KnownBySurvey(s) /\ surveyed.op = None
    BY <1>2, <2>1 DEF Session
  <2> HIDE DEF o, surveyed
  <2>4. LET z == [surveyed EXCEPT !.op = o]
        IN  z \in Session /\ z.known = KnownBySurvey(s) /\ z.op = o
    BY <2>2, <2>3, SessionUpdates DEF Session
  <2>5. session' = [session EXCEPT ![s] =
                      IF KnownBySurvey(s) = {} THEN [surveyed EXCEPT !.op = o] ELSE surveyed]
    BY <1>4 DEF Export, o, surveyed
  <2> QED  BY <1>1, <1>2, <1>3, <1>4, <2>1, <2>2, <2>3, <2>4, <2>5
<1>5. CASE ExportSelect(s)
  <2> DEFINE o == [kind |-> "gather", events |-> Scan(s)]
             y == [session[s] EXCEPT !.op = o, !.known = KnownByScan(s)]
  <2>1. o \in Operation /\ o.kind = "gather" /\ o.events = Scan(s)
    BY <1>2, OperationsTyped
  <2>2. session' = [session EXCEPT ![s] = y] /\ Working(s, "select")
    BY <1>5 DEF ExportSelect, TypeOK
  <2> HIDE DEF o
  <2>3. y \in Session /\ y.known = KnownByScan(s) /\ y.surveyed = session[s].surveyed /\ y.op = o
    BY <1>2, <2>1 DEF Session
  <2> HIDE DEF y
  <2> QED  BY <1>1, <1>2, <1>3, <1>5, <2>1, <2>2, <2>3
<1>6. CASE ExportGather(s)
  <2> DEFINE held == HeldRoots(Scan(s))
             cut == [kind |-> "export", events |-> session[s].op.events, objects |-> held]
             o == IF \A r \in held : StateOf(s, r) = "sound" THEN cut ELSE None
             y == [session[s] EXCEPT !.known = KnownByScan(s), !.op = o]
  <2>1. Working(s, "gather") /\ session[s].op.events \in SUBSET Event
    BY <1>6, WorkingTyped, OperationFields DEF ExportGather
  <2>2. cut \in Operation /\ cut.kind = "export" /\ cut.events = session[s].op.events
    BY <1>2, <2>1, OperationsTyped
  <2>3. session' = [session EXCEPT ![s] = y]
    BY <1>6 DEF ExportGather, TypeOK
  <2> HIDE DEF cut, held
  <2>4. o \in Operation \cup {None} /\ (o = None \/ (o.kind = "export" /\ o.events = session[s].op.events))
    BY <2>2
  <2> HIDE DEF o
  <2>5. y \in Session /\ y.known = KnownByScan(s) /\ y.surveyed = session[s].surveyed /\ y.op = o
    BY <1>2, <2>4 DEF Session
  <2> HIDE DEF y
  <2> QED  BY <1>1, <1>2, <1>3, <1>6, <2>1, <2>3, <2>4, <2>5
<1> QED  BY <1>4, <1>5, <1>6

(* A copied cut is delivered when its objects are those its events hold,   *)
(* and the export is over either way.                                      *)
LEMMA CopyStep ==
    ASSUME TypeOK, NEW s \in Stores, ExportCopy(s)
    PROVE  /\ session[s] # None /\ session[s] \in Session /\ file[s] \in File /\ file[s] # None
           /\ Working(s, "export") /\ UNCHANGED <<file, minted, faults>>
           /\ \E y \in Session :
                 /\ session' = [session EXCEPT ![s] = y] /\ session'[s] = y
                 /\ y.op = None /\ y.known = session[s].known /\ y.surveyed = session[s].surveyed
           /\ \/ snapshots' = snapshots
              \/ \E x \in Snapshot : /\ snapshots' = snapshots \cup {x}
                                     /\ x.events = session[s].op.events
                                     /\ HeldRoots(x.events) \subseteq x.objects
<1> DEFINE op == session[s].op
           bad == {r \in op.objects : file[s].bytes[r] = "bad"}
           x == [events |-> op.events, objects |-> op.objects]
           over == [session[s] EXCEPT !.op = None]
           met(r) == [session[s] EXCEPT !.op = None, !.condemned = @ \cup {r}]
<1>1. /\ session[s] # None /\ session[s] \in Session /\ file[s] \in File /\ file[s] # None
      /\ Working(s, "export") /\ op.events \in SUBSET Event /\ op.objects \in SUBSET Roots
      /\ UNCHANGED <<file, minted, faults>>
  BY WorkingTyped, OperationFields DEF ExportCopy
<1>2. \E y \in Session :
         /\ session' = [session EXCEPT ![s] = y] /\ session'[s] = y
         /\ y.op = None /\ y.known = session[s].known /\ y.surveyed = session[s].surveyed
  <2>1. /\ over \in Session /\ over.op = None
        /\ over.known = session[s].known /\ over.surveyed = session[s].surveyed
    BY <1>1 DEF Session
  <2>2. ASSUME NEW r \in bad
        PROVE  /\ met(r) \in Session /\ met(r).op = None
               /\ met(r).known = session[s].known /\ met(r).surveyed = session[s].surveyed
    <3>1. r \in Roots
      BY <1>1
    <3> HIDE DEF bad
    <3> QED  BY <1>1, <3>1 DEF Session
  <2>3. \/ session' = [session EXCEPT ![s] = over]
        \/ \E r \in bad : session' = [session EXCEPT ![s] = met(r)]
    BY <1>1 DEF ExportCopy, TypeOK
  <2>4. \A y : session' = [session EXCEPT ![s] = y] => session'[s] = y
    BY DEF TypeOK
  <2> HIDE DEF over, met, bad
  <2> QED  BY <2>1, <2>2, <2>3, <2>4
<1>3. \/ snapshots' = snapshots
      \/ snapshots' = snapshots \cup {x} /\ op.objects = HeldRoots(op.events)
  BY DEF ExportCopy
<1>4. x \in Snapshot /\ x.events = op.events /\ x.objects = op.objects
  BY <1>1 DEF Snapshot
<1> HIDE DEF x, op
<1> QED  BY <1>1, <1>2, <1>3, <1>4 DEF op

LEMMA ExportKeepsTypes ==
    ASSUME TypeOK, NEW s \in Stores,
           Export(s) \/ ExportSelect(s) \/ ExportGather(s) \/ ExportCopy(s)
    PROVE  TypeOK'
<1>1. CASE Export(s) \/ ExportSelect(s) \/ ExportGather(s)
  BY <1>1, SelectionSteps, SessionMoved
<1>2. CASE ExportCopy(s)
  BY <1>2, CopyStep DEF TypeOK
<1> QED  BY <1>1, <1>2

LEMMA RestoreKeepsTypes ==
    ASSUME TypeOK, NEW s \in Stores, NEW x \in snapshots, Restore(s, x)
    PROVE  TypeOK'
<1> DEFINE f == [author |-> minted + 1, events |-> x.events, mine |-> {}, torn |-> {}, swapped |-> {},
                 bytes |-> [r \in Roots |-> IF r \in x.objects THEN "sound" ELSE "absent"]]
<1>1. minted + 1 \in Authors
  BY VaultAssumption DEF TypeOK, Restore, Authors
<1>2. f \in File
  BY <1>1 DEF TypeOK, Snapshot, File
<1>3. Opened \in Session
  BY DEF Opened, Session
<1>4. f # None
  BY <1>2, NoneAssumption
<1>5. file' = [file EXCEPT ![s] = f] /\ session' = [session EXCEPT ![s] = Opened]
      /\ minted' = minted + 1 /\ UNCHANGED <<snapshots, faults>>
  BY DEF Restore
<1> HIDE DEF f
<1> QED  BY <1>1, <1>2, <1>3, <1>4, <1>5 DEF TypeOK

LEMMA ImportKeepsTypes ==
    ASSUME TypeOK, NEW s \in Stores,
           (\E x \in snapshots : Import(s, x)) \/ Plan(s) \/ ImportPublish(s)
    PROVE  TypeOK'
<1>1. CASE \E x \in snapshots : Import(s, x)
  <2>1. PICK x \in snapshots : Import(s, x)
    BY <1>1
  <2> DEFINE surveyed == [session[s] EXCEPT !.surveyed = TRUE, !.known = KnownBySurvey(s)]
             op == [kind |-> "plan", events |-> x.events, offered |-> x.objects]
  <2>2. session[s] # None
    BY <2>1, RunningOpen DEF Import
  <2>3. session[s] \in Session /\ file[s] # None /\ KnownBySurvey(s) \in SUBSET Event
    BY <2>2, SessionTyped, KnownTyped
  <2>4. surveyed \in Session
    BY <2>3 DEF Session
  <2>5. [surveyed EXCEPT !.op = op] \in Session
    <3>1. op \in Operation
      BY OperationsTyped DEF TypeOK, Snapshot
    <3> HIDE DEF surveyed, op
    <3> QED  BY <2>4, <3>1, SessionUpdates
  <2>6. \E y \in Session : session' = [session EXCEPT ![s] = y]
    <3>1. \E y \in {surveyed, [surveyed EXCEPT !.op = op]} : session' = [session EXCEPT ![s] = y]
      BY <2>1 DEF Import
    <3> QED  BY <3>1, <2>4, <2>5
  <2> QED  BY <2>1, <2>3, <2>6, SessionMoved DEF Import
<1>2. CASE Plan(s)
  <2> DEFINE E == session[s].op.events
             offered == session[s].op.offered
             plan == [kind |-> "import", events |-> E, offered |-> offered,
                      staged |-> ToStage(s, E, offered), reused |-> ToReuse(s, E, offered)]
  <2>1. session[s] # None /\ session[s] \in Session /\ file[s] # None
        /\ E \in SUBSET Event /\ offered \in SUBSET Roots
    BY <1>2, WorkingTyped, OperationFields DEF Plan
  <2>2. plan \in Operation
    <3>1. ToStage(s, E, offered) \in SUBSET Roots /\ ToReuse(s, E, offered) \in SUBSET Roots
      <4>1. Union(s, E) \in SUBSET Event
        BY <2>1, SessionTyped, ScanTyped DEF Union
      <4> QED  BY <4>1, HeldTyped DEF ToStage, ToReuse
    <3> QED  BY <2>1, <3>1, OperationsTyped
  <2>3. KnownByScan(s) \in SUBSET Event
    BY <2>1, KnownTyped
  <2>4. \A o \in {plan, None} : [session[s] EXCEPT !.known = KnownByScan(s), !.op = o] \in Session
    <3> HIDE DEF plan
    <3> QED  BY <2>1, <2>2, <2>3 DEF Session
  <2>5. \E o \in {plan, None} :
           session' = [session EXCEPT ![s] = [session[s] EXCEPT !.known = KnownByScan(s), !.op = o]]
    BY <1>2, <2>1 DEF Plan, TypeOK
  <2> HIDE DEF plan
  <2> QED  BY <1>2, <2>1, <2>4, <2>5, SessionMoved DEF Plan
<1>3. CASE ImportPublish(s)
  <2> DEFINE op == session[s].op
             again == [kind |-> "plan", events |-> op.events, offered |-> op.offered]
             unreadable == op.events \cap file[s].torn
  <2>1. session[s] # None /\ file[s] \in File /\ file[s] # None /\ op \in Operation
        /\ op.events \in SUBSET Event /\ op.offered \in SUBSET Roots
    BY <1>3, WorkingTyped, OperationFields DEF ImportPublish
  <2>2. again \in Operation
    BY <2>1, OperationsTyped
  <2>3. Asked(s) \in Session
    BY <2>1, KnownTyped
  <2>4. \A o \in {again, None} : [Asked(s) EXCEPT !.op = o] \in Session
    <3> HIDE DEF again
    <3> QED  BY <2>2, <2>3, SessionUpdates
  <2>5. \A e \in unreadable : [Asked(s) EXCEPT !.known = @ \cup {e}, !.op = None] \in Session
    <3>1. unreadable \subseteq Event
      BY <2>1
    <3> HIDE DEF unreadable
    <3> QED  BY <2>3, <3>1 DEF Session
  <2>6. Accepted(s, op.staged, op.events) \in File
    BY <2>1, AcceptedTyped
  <2>7. Published(s, op.staged, None) \in Session
    BY <2>1, PublishedTyped
  <2>8. CASE Transaction(s, Accepted(s, op.staged, op.events), Published(s, op.staged, None))
    BY <2>1, <2>6, <2>7, <2>8, TransactionTyped
  <2>9. CASE Refuse(s)
    BY <2>1, <2>9, RefuseTyped
  <2>10. CASE UNCHANGED <<file, snapshots, minted, faults>>
              /\ \E x \in Session : session' = [session EXCEPT ![s] = x]
    BY <2>1, <2>10, SessionMoved
  <2>11. \/ Transaction(s, Accepted(s, op.staged, op.events), Published(s, op.staged, None))
         \/ Refuse(s)
         \/ /\ UNCHANGED <<file, snapshots, minted, faults>>
            /\ \/ \E o \in {again, None} : session' = [session EXCEPT ![s] = [Asked(s) EXCEPT !.op = o]]
               \/ \E e \in unreadable :
                     session' = [session EXCEPT ![s] = [Asked(s) EXCEPT !.known = @ \cup {e}, !.op = None]]
    BY <1>3 DEF ImportPublish
  <2> HIDE DEF again, unreadable, op
  <2> QED  BY <2>4, <2>5, <2>8, <2>9, <2>10, <2>11
<1> QED  BY <1>1, <1>2, <1>3

LEMMA OpeningKeepsTypes ==
    ASSUME TypeOK, NEW s \in Stores, Open(s) \/ ResetIdentity(s) \/ Close(s) \/ Crash(s)
    PROVE  TypeOK'
<1>1. Opened \in Session
  BY DEF Opened, Session
<1>2. CASE Open(s)
  BY <1>1, <1>2, SessionMoved DEF Open
<1>3. CASE ResetIdentity(s)
  <2>1. minted + 1 \in Authors
    BY <1>3, VaultAssumption DEF TypeOK, ResetIdentity, Authors
  <2>2. [file[s] EXCEPT !.author = minted + 1, !.mine = {}] \in File
    BY <1>3, <2>1 DEF ResetIdentity, TypeOK, File
  <2>3. file' = [file EXCEPT ![s] = [file[s] EXCEPT !.author = minted + 1, !.mine = {}]]
    BY <1>3 DEF ResetIdentity, TypeOK
  <2> QED  BY <1>1, <1>3, <2>1, <2>2, <2>3, NoneAssumption DEF ResetIdentity, TypeOK
<1>4. CASE Close(s) \/ Crash(s)
  BY <1>4 DEF Close, Crash, TypeOK
<1> QED  BY <1>2, <1>3, <1>4

LEMMA FilesKeepTypes ==
    ASSUME TypeOK, NEW s \in Stores, (\E t \in Stores : CopyFile(s, t)) \/ Fault(s)
    PROVE  TypeOK'
<1>1. CASE \E t \in Stores : CopyFile(s, t)
  BY <1>1 DEF CopyFile, TypeOK
<1>2. CASE Fault(s)
  <2>1. file[s] \in File
    BY <1>2 DEF Fault, TypeOK
  <2>2. \A r \in Roots : [file[s] EXCEPT !.bytes[r] = "bad"] \in File
    BY <2>1 DEF File
  <2>3. \A e \in file[s].events : /\ [file[s] EXCEPT !.torn = @ \cup {e}] \in File
                                 /\ [file[s] EXCEPT !.swapped = @ \cup {e}] \in File
    BY <2>1 DEF File
  <2>4. \E f \in File : file' = [file EXCEPT ![s] = f]
    <3>1. \/ \E r \in Roots : file' = [file EXCEPT ![s] = [file[s] EXCEPT !.bytes[r] = "bad"]]
          \/ \E e \in file[s].events :
                \/ file' = [file EXCEPT ![s] = [file[s] EXCEPT !.torn = @ \cup {e}]]
                \/ file' = [file EXCEPT ![s] = [file[s] EXCEPT !.swapped = @ \cup {e}]]
      BY <1>2 DEF Fault, TypeOK
    <3> QED  BY <2>2, <2>3, <3>1
  <2> QED  BY <1>2, <2>4, NoneAssumption DEF Fault, TypeOK
<1> QED  BY <1>1, <1>2

LEMMA InitTyped == Init => TypeOK
<1> SUFFICES ASSUME Init PROVE TypeOK
  OBVIOUS
<1>1. Opened \in Session
  BY DEF Opened, Session
<1>2. [author |-> 1, events |-> {}, mine |-> {}, torn |-> {}, swapped |-> {},
       bytes |-> [r \in Roots |-> "absent"]] \in File
  BY VaultAssumption DEF File, Authors
<1> QED  BY <1>1, <1>2, VaultAssumption, NoneAssumption DEF Init, TypeOK, Authors

(* The files, the sessions and the snapshots keep their types, and a       *)
(* runtime is open only on a file that exists.                             *)
THEOREM VaultTypeCorrect == Spec => []TypeOK
<1>1. Init => TypeOK
  BY InitTyped
<1>2. TypeOK /\ [Next]_vars => TypeOK'
  <2> SUFFICES ASSUME TypeOK, [Next]_vars PROVE TypeOK'
    OBVIOUS
  <2>1. CASE UNCHANGED vars
    BY <2>1 DEF vars, TypeOK
  <2>2. CASE Next
    BY <2>2, StreamsKeepTypes, CommitKeepsTypes, CollectKeepsTypes, ExportKeepsTypes,
       RestoreKeepsTypes,
       ImportKeepsTypes, OpeningKeepsTypes, FilesKeepTypes DEF Next
  <2> QED  BY <2>1, <2>2
<1> QED  BY <1>1, <1>2, PTL DEF Spec

-----------------------------------------------------------------------------
(* How a step moves the files and the snapshots. *)

SameFile(t) ==
    /\ file[t] = None <=> file'[t] = None
    /\ file[t] # None => /\ file'[t].events = file[t].events
                         /\ file'[t].author = file[t].author
                         /\ file'[t].mine = file[t].mine

OthersSame(s) == \A t \in Stores \ {s} : SameFile(t)

Quiet == (\A t \in Stores : SameFile(t)) /\ UNCHANGED <<snapshots, minted>>

Wrote(s) ==
    LET e == session[s].op.draft
    IN  /\ Working(s, "commit")
        /\ file'[s] # None /\ file'[s].author = file[s].author
        /\ file'[s].events = file[s].events \cup {e}
        /\ file'[s].mine = file[s].mine \cup {e}
        /\ OthersSame(s) /\ UNCHANGED <<snapshots, minted>>

Joined(s) ==
    /\ Working(s, "import")
    /\ file'[s] # None /\ file'[s].author = file[s].author
    /\ file'[s].events = file[s].events \cup session[s].op.events
    /\ file'[s].mine = file[s].mine
    /\ OthersSame(s) /\ UNCHANGED <<snapshots, minted>>

Delivered(s) ==
    /\ Working(s, "export")
    /\ \E x \in Snapshot : x.events = session[s].op.events /\ snapshots' = snapshots \cup {x}
    /\ (\A t \in Stores : SameFile(t)) /\ UNCHANGED minted

Restored(s) ==
    /\ file[s] = None /\ file'[s] # None
    /\ \E x \in snapshots : file'[s].events = x.events
    /\ file'[s].author = minted + 1 /\ file'[s].mine = {} /\ minted' = minted + 1
    /\ OthersSame(s) /\ UNCHANGED snapshots

Renewed(s) ==
    /\ file[s] # None /\ file'[s] # None
    /\ file'[s].events = file[s].events
    /\ file'[s].author = minted + 1 /\ file'[s].mine = {} /\ minted' = minted + 1
    /\ OthersSame(s) /\ UNCHANGED snapshots

Copied(s, t) ==
    /\ file[s] # None /\ file[t] = None
    /\ file'[t] = file[s]
    /\ OthersSame(t) /\ UNCHANGED <<snapshots, minted>>

Moves ==
    \/ Quiet
    \/ \E s \in Stores : Wrote(s) \/ Joined(s) \/ Delivered(s) \/ Restored(s) \/ Renewed(s)
    \/ \E s, t \in Stores : Copied(s, t)

LEMMA UnchangedFiles ==
    ASSUME UNCHANGED file
    PROVE  \A t \in Stores : SameFile(t)
BY DEF SameFile

LEMMA OtherFiles ==
    ASSUME TypeOK, NEW s \in Stores, NEW f, file' = [file EXCEPT ![s] = f]
    PROVE  OthersSame(s) /\ file'[s] = f
BY DEF TypeOK, OthersSame, SameFile

(* A transaction that leaves f: the file is f, or as it was. *)
LEMMA TransactionMoves ==
    ASSUME TypeOK, NEW s \in Stores, NEW f, NEW x, Transaction(s, f, x)
    PROVE  /\ UNCHANGED <<snapshots, minted>>
           /\ (\A t \in Stores : SameFile(t)) \/ (OthersSame(s) /\ file'[s] = f)
<1>1. UNCHANGED <<snapshots, minted>> /\ (file' = file \/ file' = [file EXCEPT ![s] = f])
  BY DEF Transaction
<1> QED  BY <1>1, UnchangedFiles, OtherFiles

LEMMA CommitMoves ==
    ASSUME TypeOK, NEW s \in Stores, CommitPublish(s)
    PROVE  Quiet \/ Wrote(s)
<1> DEFINE e == session[s].op.draft
           staged == session[s].op.staged
           f == [Accepted(s, staged, {e}) EXCEPT !.mine = @ \cup {e}]
<1>1. Working(s, "commit") /\ file[s] \in File /\ e \in Event
  BY WorkingTyped, OperationFields DEF CommitPublish
<1>2. f \in File /\ f.author = file[s].author
      /\ f.events = file[s].events \cup {e} /\ f.mine = file[s].mine \cup {e}
  <2> HIDE DEF e, staged
  <2>1. Accepted(s, staged, {e}) \in File
    BY <1>1, AcceptedTyped
  <2>2. /\ Accepted(s, staged, {e}).author = file[s].author
        /\ Accepted(s, staged, {e}).events = file[s].events \cup {e}
        /\ Accepted(s, staged, {e}).mine = file[s].mine
    BY <1>1 DEF Accepted, File
  <2> QED  BY <1>1, <2>1, <2>2 DEF File
<1>3. Refuse(s) \/ \E x : Transaction(s, f, x)
  BY DEF CommitPublish
<1>4. CASE Refuse(s)
  BY <1>4, UnchangedFiles DEF Refuse, Quiet
<1>5. CASE \E x : Transaction(s, f, x)
  <2>1. /\ UNCHANGED <<snapshots, minted>>
        /\ (\A t \in Stores : SameFile(t)) \/ (OthersSame(s) /\ file'[s] = f)
    <3> HIDE DEF f
    <3> QED  BY <1>5, TransactionMoves
  <2>2. f # None
    BY <1>2, NoneAssumption
  <2> HIDE DEF f
  <2> QED  BY <1>1, <1>2, <2>1, <2>2 DEF Quiet, Wrote
<1> QED  BY <1>3, <1>4, <1>5

LEMMA CollectMoves ==
    ASSUME TypeOK, NEW s \in Stores, Collect(s)
    PROVE  Quiet
<1> DEFINE removed == {r \in Roots \ session[s].op.keep : file[s].bytes[r] # "absent"}
           f == [file[s] EXCEPT !.bytes = [r \in Roots |-> IF r \in removed THEN "absent" ELSE @[r]]]
<1>1. file[s] \in File /\ file[s] # None
  BY WorkingTyped DEF Collect
<1>2. f \in File /\ f.author = file[s].author /\ f.events = file[s].events /\ f.mine = file[s].mine
  BY <1>1 DEF File
<1>3. Refuse(s) \/ \E x : Transaction(s, f, x)
  BY DEF Collect
<1>4. CASE Refuse(s)
  BY <1>4, UnchangedFiles DEF Refuse, Quiet
<1>5. CASE \E x : Transaction(s, f, x)
  <2>1. /\ UNCHANGED <<snapshots, minted>>
        /\ (\A t \in Stores : SameFile(t)) \/ (OthersSame(s) /\ file'[s] = f)
    <3> HIDE DEF f
    <3> QED  BY <1>5, TransactionMoves
  <2>2. f # None
    BY <1>2, NoneAssumption
  <2> HIDE DEF f
  <2> QED  BY <1>1, <1>2, <2>1, <2>2 DEF Quiet, OthersSame, SameFile
<1> QED  BY <1>3, <1>4, <1>5

LEMMA ImportMoves ==
    ASSUME TypeOK, NEW s \in Stores, ImportPublish(s)
    PROVE  Quiet \/ Joined(s)
<1> DEFINE op == session[s].op
           f == Accepted(s, op.staged, op.events)
<1>1. Working(s, "import") /\ file[s] \in File /\ op.events \in SUBSET Event
  BY WorkingTyped, OperationFields DEF ImportPublish
<1>2. f \in File /\ f.author = file[s].author
      /\ f.events = file[s].events \cup op.events /\ f.mine = file[s].mine
  <2>1. f \in File
    BY <1>1, AcceptedTyped
  <2> QED  BY <1>1, <2>1 DEF Accepted, File
<1>3. UNCHANGED <<file, snapshots, minted>> \/ \E x : Transaction(s, f, x)
  BY DEF ImportPublish, Refuse
<1>4. CASE UNCHANGED <<file, snapshots, minted>>
  BY <1>4, UnchangedFiles DEF Quiet
<1>5. CASE \E x : Transaction(s, f, x)
  <2>1. /\ UNCHANGED <<snapshots, minted>>
        /\ (\A t \in Stores : SameFile(t)) \/ (OthersSame(s) /\ file'[s] = f)
    <3> HIDE DEF f
    <3> QED  BY <1>5, TransactionMoves
  <2>2. f # None
    BY <1>2, NoneAssumption
  <2> HIDE DEF f
  <2> QED  BY <1>1, <1>2, <2>1, <2>2 DEF Quiet, Joined
<1> QED  BY <1>3, <1>4, <1>5

LEMMA DeliveryMoves ==
    ASSUME TypeOK, NEW s \in Stores, ExportCopy(s)
    PROVE  Quiet \/ Delivered(s)
BY CopyStep, UnchangedFiles DEF Quiet, Delivered

LEMMA OpeningMoves ==
    ASSUME TypeOK, NEW s \in Stores
    PROVE  /\ \A x \in snapshots : Restore(s, x) => Restored(s)
           /\ ResetIdentity(s) => Renewed(s)
           /\ \A t \in Stores : CopyFile(s, t) => Copied(s, t)
           /\ Fault(s) => Quiet
<1>1. ASSUME NEW x \in snapshots, Restore(s, x) PROVE Restored(s)
  <2> DEFINE f == [author |-> minted + 1, events |-> x.events, mine |-> {}, torn |-> {}, swapped |-> {},
                   bytes |-> [r \in Roots |-> IF r \in x.objects THEN "sound" ELSE "absent"]]
  <2>1. f \in File /\ f.author = minted + 1 /\ f.events = x.events /\ f.mine = {}
    BY <1>1, VaultAssumption DEF TypeOK, Snapshot, File, Authors, Restore
  <2>2. f # None
    BY <2>1, NoneAssumption
  <2>3. file' = [file EXCEPT ![s] = f]
    BY <1>1 DEF Restore
  <2> HIDE DEF f
  <2> QED  BY <1>1, <2>1, <2>2, <2>3, OtherFiles DEF Restored, Restore
<1>2. ASSUME ResetIdentity(s) PROVE Renewed(s)
  <2> DEFINE f == [file[s] EXCEPT !.author = minted + 1, !.mine = {}]
  <2>1. f \in File /\ f.author = minted + 1 /\ f.events = file[s].events /\ f.mine = {}
    <3>1. file[s] \in File /\ minted + 1 \in Authors
      BY <1>2, VaultAssumption DEF TypeOK, Authors, ResetIdentity
    <3> QED  BY <3>1 DEF File
  <2>2. f # None
    BY <2>1, NoneAssumption
  <2>3. file' = [file EXCEPT ![s] = f]
    BY <1>2 DEF ResetIdentity, TypeOK
  <2> HIDE DEF f
  <2> QED  BY <1>2, <2>1, <2>2, <2>3, OtherFiles DEF Renewed, ResetIdentity
<1>3. ASSUME NEW t \in Stores, CopyFile(s, t) PROVE Copied(s, t)
  BY <1>3, OtherFiles DEF CopyFile, Copied
<1>4. ASSUME Fault(s) PROVE Quiet
  <2>1. file[s] \in File /\ UNCHANGED <<snapshots, minted>>
    BY <1>4 DEF Fault, TypeOK
  <2>2. PICK f : /\ file' = [file EXCEPT ![s] = f]
                 /\ \/ \E r \in Roots : f = [file[s] EXCEPT !.bytes[r] = "bad"]
                    \/ \E e \in file[s].events :
                          \/ f = [file[s] EXCEPT !.torn = @ \cup {e}]
                          \/ f = [file[s] EXCEPT !.swapped = @ \cup {e}]
    BY <1>4 DEF Fault, TypeOK
  <2>3. f \in File /\ f.author = file[s].author /\ f.events = file[s].events /\ f.mine = file[s].mine
    BY <2>1, <2>2 DEF File
  <2>4. OthersSame(s) /\ file'[s] = f
    BY <2>2, OtherFiles
  <2> QED  BY <2>1, <2>3, <2>4, NoneAssumption DEF Quiet, OthersSame, SameFile
<1> QED  BY <1>1, <1>2, <1>3, <1>4

(* Every step is one of these moves. *)
LEMMA StepMoves == TypeOK /\ [Next]_vars => Moves
<1> SUFFICES ASSUME TypeOK, [Next]_vars PROVE Moves
  OBVIOUS
<1>1. CASE UNCHANGED <<file, snapshots, minted>>
  BY <1>1, UnchangedFiles DEF Moves, Quiet
<1>2. CASE Next /\ ~UNCHANGED <<file, snapshots, minted>>
  <2>1. PICK s \in Stores :
           \/ CommitPublish(s) \/ Collect(s) \/ ExportCopy(s) \/ ImportPublish(s)
           \/ \E x \in snapshots : Restore(s, x)
           \/ ResetIdentity(s)
           \/ \E t \in Stores : CopyFile(s, t)
           \/ Fault(s)
    BY <1>2 DEF Next, OpenStream, EndStream, Commit, Keep, Export, ExportSelect, ExportGather,
       Import, Plan, Open, Close, Crash
  <2> QED  BY <2>1, CommitMoves, CollectMoves, DeliveryMoves, ImportMoves, OpeningMoves DEF Moves
<1> QED  BY <1>1, <1>2 DEF vars

-----------------------------------------------------------------------------
(* The inductive invariant. *)

(* Whatever is anywhere is still in the file that wrote it. *)
Home(e) == e.by \in Stores /\ file[e.by] # None /\ e \in file[e.by].events

AtHome ==
    /\ \A t \in Stores : file[t] # None => \A e \in file[t].events : Home(e)
    /\ \A x \in snapshots : \A e \in x.events : Home(e)

(* No replica ID is in use that was not minted. *)
AuthorsMinted ==
    /\ \A t \in Stores : file[t] # None =>
          file[t].author <= minted /\ \A e \in file[t].events : e.author <= minted
    /\ \A x \in snapshots : \A e \in x.events : e.author <= minted

(* What an operation took when it began is what its transaction relies on. *)
OperationSound(s) ==
    LET op == session[s].op
    IN  session[s] # None /\ op # None =>
          /\ op.kind = "commit" => op.draft.by = s /\ op.draft.author = file[s].author
          /\ op.kind = "select" => file[s].swapped = {} /\ session[s].known = {}
          /\ op.kind \in {"gather", "export"} =>
                op.events \subseteq file[s].events /\ file[s].events \ op.events \subseteq file[s].torn
          /\ op.kind \in {"plan", "import"} =>
                file[s].swapped = {} /\ \E x \in snapshots : op.events = x.events
          /\ op.kind = "import" =>
                \A e \in op.events : e.author = file[s].author => e \in file[s].events

OperationsSound == \A s \in Stores : OperationSound(s)

VaultInv == TypeOK /\ AtHome /\ AuthorsMinted /\ OperationsSound /\ OwnIsOwn

(* An operation that relies on nothing it took is sound. *)
LEMMA IdleSound ==
    ASSUME NEW s, \/ session'[s] = None
                  \/ session'[s].op = None
                  \/ session'[s].op.kind \in {"keep", "collect"}
    PROVE  OperationSound(s)'
BY DEF OperationSound

(* A step of s that leaves the other files and sessions alone leaves their *)
(* operations sound.                                                       *)
LEMMA OthersSound ==
    ASSUME TypeOK, OperationsSound, NEW s \in Stores, NEW x, NEW f,
           session' = [session EXCEPT ![s] = x],
           file' = [file EXCEPT ![s] = f],
           snapshots \subseteq snapshots',
           OperationSound(s)'
    PROVE  OperationsSound'
<1> SUFFICES ASSUME NEW t \in Stores, t # s PROVE OperationSound(t)'
  BY DEF OperationsSound
<1>1. session'[t] = session[t] /\ file'[t] = file[t]
  BY DEF TypeOK
<1>2. OperationSound(t)
  BY DEF OperationsSound
<1> QED  BY <1>1, <1>2 DEF OperationSound

(* The same for a step that leaves all the files. *)
LEMMA SessionSound ==
    ASSUME TypeOK, OperationsSound, NEW s \in Stores, NEW x,
           session' = [session EXCEPT ![s] = x], UNCHANGED file,
           snapshots \subseteq snapshots',
           OperationSound(s)'
    PROVE  OperationsSound'
<1>1. file' = [file EXCEPT ![s] = file[s]]
  BY DEF TypeOK
<1> QED  BY <1>1, OthersSound

LEMMA AskedOp ==
    ASSUME TypeOK, NEW s \in Stores, session[s] # None
    PROVE  /\ Asked(s) \in Session
           /\ \A o : [Asked(s) EXCEPT !.op = o].op = o
           /\ \A staged, o : Published(s, staged, o).op = o
BY KnownTyped DEF Published, Session

(* After a transaction the operation is the one it names, or none. *)
LEMMA TransactionSound ==
    ASSUME TypeOK, OperationsSound, NEW s \in Stores, session[s] # None,
           NEW f, NEW x, Transaction(s, f, x),
           x.op = None \/ x.op.kind \in {"keep", "collect"}
    PROVE  OperationsSound'
<1> DEFINE stopped == [session[s] EXCEPT !.stopped = TRUE, !.op = None]
<1>1. stopped.op = None
  BY SessionTyped DEF Session
<1>2. PICK y \in {x, stopped} : session' = [session EXCEPT ![s] = y]
  BY DEF Transaction
<1>3. y.op = None \/ y.op.kind \in {"keep", "collect"}
  BY <1>1, <1>2
<1>4. OperationSound(s)'
  <2>1. session'[s] = y
    BY <1>2 DEF TypeOK
  <2> QED  BY <1>3, <2>1, IdleSound
<1>5. PICK g : file' = [file EXCEPT ![s] = g] /\ UNCHANGED snapshots
  <2>1. file = [file EXCEPT ![s] = file[s]]
    BY DEF TypeOK
  <2> QED  BY <2>1 DEF Transaction
<1> QED  BY <1>2, <1>4, <1>5, OthersSound

LEMMA StreamsKeepSound ==
    ASSUME TypeOK, OperationsSound, NEW s \in Stores,
           (\E r \in Roots : OpenStream(s, r)) \/ EndStream(s)
    PROVE  OperationsSound'
<1>1. session[s] # None /\ UNCHANGED <<file, snapshots>>
  BY RunningOpen DEF OpenStream, EndStream
<1>2. session[s] \in Session
  BY <1>1, SessionTyped
<1>3. PICK x \in Session : /\ session' = [session EXCEPT ![s] = x]
                           /\ x.op = session[s].op /\ x.known = session[s].known
  <2>1. CASE EndStream(s)
    <3> DEFINE x == [session[s] EXCEPT !.stream = None, !.condemned = @ \cup Condemns(session[s].stream)]
    <3>1. x \in Session /\ x.op = session[s].op /\ x.known = session[s].known
      <4>1. Condemns(session[s].stream) \subseteq Roots
        BY <1>2, <2>1 DEF EndStream, Condemns, Session, Stream
      <4> QED  BY <1>2, <4>1 DEF Session
    <3>2. session' = [session EXCEPT ![s] = x]
      BY <2>1 DEF EndStream, TypeOK
    <3> QED  BY <3>1, <3>2
  <2>2. CASE \E r \in Roots : OpenStream(s, r)
    <3>1. PICK r \in Roots : OpenStream(s, r)
      BY <2>2
    <3> DEFINE x == [session[s] EXCEPT !.stream = [cid |-> r, stale |-> FALSE]]
    <3>2. x \in Session /\ x.op = session[s].op /\ x.known = session[s].known
      BY <1>2 DEF Session, Stream
    <3>3. session' = [session EXCEPT ![s] = x]
      BY <3>1 DEF OpenStream, TypeOK
    <3> QED  BY <3>2, <3>3
  <2> QED  BY <2>1, <2>2
<1>4. OperationSound(s)'
  <2>1. session'[s] # None /\ session'[s].op = session[s].op /\ session'[s].known = session[s].known
    BY <1>3, NoneAssumption DEF TypeOK
  <2>2. OperationSound(s)
    BY DEF OperationsSound
  <2> QED  BY <1>1, <2>1, <2>2 DEF OperationSound
<1> QED  BY <1>1, <1>3, <1>4, SessionSound

LEMMA RefuseSound ==
    ASSUME TypeOK, OperationsSound, NEW s \in Stores, session[s] # None, Refuse(s)
    PROVE  OperationsSound'
<1>1. [Asked(s) EXCEPT !.op = None].op = None
  BY AskedOp
<1>2. session'[s].op = None
  BY <1>1 DEF Refuse, TypeOK
<1> QED  BY <1>2, IdleSound, SessionSound DEF Refuse

LEMMA CommitKeepsSound ==
    ASSUME TypeOK, OperationsSound, NEW s \in Stores,
           \/ \E e \in Drafts(s) : \E staged \in SUBSET e.roots : Commit(s, e, staged)
           \/ CommitPublish(s)
    PROVE  OperationsSound'
<1>1. CASE \E e \in Drafts(s) : \E staged \in SUBSET e.roots : Commit(s, e, staged)
  <2>1. PICK e \in Drafts(s) : \E staged \in SUBSET e.roots : Commit(s, e, staged)
    BY <1>1
  <2>2. PICK staged \in SUBSET e.roots : Commit(s, e, staged)
    BY <2>1
  <2>3. session[s] # None
    BY <2>2, RunningOpen DEF Commit
  <2>4. session[s] \in Session /\ e.author = file[s].author /\ e.by = s
    BY <2>3, SessionTyped, DraftsTyped
  <2> DEFINE o == [kind |-> "commit", draft |-> e, staged |-> staged]
             x == [session[s] EXCEPT !.op = o, !.known = KnownByScan(s)]
  <2>5. x.op = o
    BY <2>4 DEF Session
  <2>6. session' = [session EXCEPT ![s] = x] /\ UNCHANGED <<file, snapshots>>
    BY <2>2 DEF Commit, TypeOK
  <2>7. OperationSound(s)'
    <3>1. session'[s].op = o
      BY <2>5, <2>6 DEF TypeOK
    <3>2. o.kind = "commit" /\ o.draft = e
      OBVIOUS
    <3> HIDE DEF o
    <3> QED  BY <2>4, <2>6, <3>1, <3>2 DEF OperationSound
  <2> HIDE DEF x
  <2> QED  BY <2>6, <2>7, SessionSound
<1>2. CASE CommitPublish(s)
  <2> DEFINE e == session[s].op.draft
             staged == session[s].op.staged
             next == IF e.kind = "erased" THEN [kind |-> "keep"] ELSE None
             f == [Accepted(s, staged, {e}) EXCEPT !.mine = @ \cup {e}]
  <2>1. session[s] # None
    BY <1>2, WorkingTyped DEF CommitPublish
  <2>2. Published(s, staged, next).op = next /\ (next = None \/ next.kind = "keep")
    BY <2>1, AskedOp
  <2>3. CASE Refuse(s)
    BY <2>1, <2>3, RefuseSound
  <2>4. CASE Transaction(s, f, Published(s, staged, next))
    <3> HIDE DEF f, next, staged
    <3> QED  BY <2>1, <2>2, <2>4, TransactionSound
  <2> QED  BY <1>2, <2>3, <2>4 DEF CommitPublish
<1> QED  BY <1>1, <1>2

LEMMA CollectKeepsSound ==
    ASSUME TypeOK, OperationsSound, NEW s \in Stores, Keep(s) \/ Collect(s)
    PROVE  OperationsSound'
<1>1. CASE Keep(s)
  <2>1. session[s] # None
    BY <1>1, RunningOpen DEF Keep
  <2>2. session[s] \in Session
    BY <2>1, SessionTyped
  <2> DEFINE o == [kind |-> "collect", keep |-> HeldRoots(Scan(s))]
             x == [session[s] EXCEPT !.op = o, !.known = KnownByScan(s)]
  <2>3. x.op = o /\ o.kind = "collect"
    BY <2>2 DEF Session
  <2>4. session' = [session EXCEPT ![s] = x] /\ UNCHANGED <<file, snapshots>>
    BY <1>1 DEF Keep, TypeOK
  <2>5. OperationSound(s)'
    <3>1. session'[s].op.kind = "collect"
      BY <2>3, <2>4 DEF TypeOK
    <3> QED  BY <3>1, IdleSound
  <2> HIDE DEF x
  <2> QED  BY <2>4, <2>5, SessionSound
<1>2. CASE Collect(s)
  <2> DEFINE removed == {r \in Roots \ session[s].op.keep : file[s].bytes[r] # "absent"}
             f == [file[s] EXCEPT !.bytes = [r \in Roots |-> IF r \in removed THEN "absent" ELSE @[r]]]
             x == [Asked(s) EXCEPT !.condemned = @ \ removed,
                                   !.stream = Interrupt(@, removed), !.op = None]
  <2>1. session[s] # None /\ Asked(s) \in Session
    BY <1>2, WorkingTyped, KnownTyped DEF Collect
  <2>2. x.op = None
    <3> HIDE DEF removed
    <3> QED  BY <2>1 DEF Session
  <2>3. Transaction(s, f, x) \/ Refuse(s)
    BY <1>2 DEF Collect
  <2> HIDE DEF f, x, removed
  <2> QED  BY <2>1, <2>2, <2>3, TransactionSound, RefuseSound
<1> QED  BY <1>1, <1>2

(* A file no damage is known of reads as it is. *)
LEMMA SoundScan ==
    ASSUME NEW s, file[s].swapped = {}
    PROVE  /\ Scan(s) \subseteq file[s].events
           /\ KnownBySurvey(s) = {} => Scan(s) = file[s].events
           /\ session[s].known = {} => file[s].events \ Scan(s) \subseteq file[s].torn
BY DEF Scan, Decoded, KnownBySurvey

LEMMA ExportKeepsSound ==
    ASSUME TypeOK, OperationsSound, NEW s \in Stores,
           Export(s) \/ ExportSelect(s) \/ ExportGather(s) \/ ExportCopy(s)
    PROVE  OperationsSound'
<1>1. CASE Export(s) \/ ExportSelect(s) \/ ExportGather(s)
  <2>1. session[s] # None /\ UNCHANGED <<file, snapshots>>
    BY <1>1, SelectionSteps
  <2>2. PICK y :
           /\ session' = [session EXCEPT ![s] = y] /\ session'[s] = y
           /\ \/ /\ Export(s)
                 /\ y.known = KnownBySurvey(s)
                 /\ y.op = None \/ (y.op.kind = "select" /\ KnownBySurvey(s) = {})
              \/ /\ Working(s, "select")
                 /\ y.op.kind = "gather" /\ y.op.events = Scan(s)
              \/ /\ Working(s, "gather")
                 /\ \/ y.op = None
                    \/ y.op.kind = "export" /\ y.op.events = session[s].op.events
    BY <1>1, SelectionSteps
  <2>3. OperationSound(s)
    BY DEF OperationsSound
  <2>4. OperationSound(s)'
    <3>1. CASE y.op = None
      BY <2>2, <3>1, IdleSound
    <3>2. CASE y.op.kind = "select" /\ y.known = {} /\ KnownBySurvey(s) = {}
      <4>1. file[s].swapped = {}
        BY <3>2 DEF KnownBySurvey
      <4> QED  BY <2>1, <2>2, <3>2, <4>1 DEF OperationSound
    <3>3. CASE Working(s, "select") /\ y.op.kind = "gather" /\ y.op.events = Scan(s)
      <4>1. file[s].swapped = {} /\ session[s].known = {}
        BY <2>3, <3>3, WorkingTyped, NoneAssumption DEF OperationSound, Working
      <4>2. Scan(s) \subseteq file[s].events /\ file[s].events \ Scan(s) \subseteq file[s].torn
        BY <4>1, SoundScan
      <4> QED  BY <2>1, <2>2, <3>3, <4>2 DEF OperationSound
    <3>4. CASE Working(s, "gather") /\ y.op.kind = "export" /\ y.op.events = session[s].op.events
      <4>1. /\ session[s].op.events \subseteq file[s].events
            /\ file[s].events \ session[s].op.events \subseteq file[s].torn
        BY <2>3, <3>4, WorkingTyped, NoneAssumption DEF OperationSound, Working
      <4> QED  BY <2>1, <2>2, <3>4, <4>1 DEF OperationSound
    <3> QED  BY <2>2, <3>1, <3>2, <3>3, <3>4
  <2> QED  BY <2>1, <2>2, <2>4, SessionSound
<1>2. CASE ExportCopy(s)
  <2>1. PICK y : session' = [session EXCEPT ![s] = y] /\ session'[s] = y /\ y.op = None
    BY <1>2, CopyStep
  <2>2. UNCHANGED file /\ snapshots \subseteq snapshots'
    BY <1>2, CopyStep
  <2>3. OperationSound(s)'
    BY <2>1, IdleSound
  <2> QED  BY <2>1, <2>2, <2>3, SessionSound
<1> QED  BY <1>1, <1>2

LEMMA ImportKeepsSound ==
    ASSUME TypeOK, OperationsSound, NEW s \in Stores, NEW x \in snapshots, Import(s, x)
    PROVE  OperationsSound'
<1> DEFINE surveyed == [session[s] EXCEPT !.surveyed = TRUE, !.known = KnownBySurvey(s)]
           op == [kind |-> "plan", events |-> x.events, offered |-> x.objects]
<1>1. session[s] # None /\ session[s].op = None /\ UNCHANGED <<file, snapshots>>
  BY RunningOpen DEF Import, Unlocked
<1>2. session[s] \in Session
  BY <1>1, SessionTyped
<1>3. surveyed.op = None /\ [surveyed EXCEPT !.op = op].op = op
  BY <1>1, <1>2 DEF Session
<1>4. PICK y : /\ session' = [session EXCEPT ![s] = y]
               /\ y = surveyed \/ (y = [surveyed EXCEPT !.op = op] /\ KnownBySurvey(s) = {})
  BY DEF Import
<1>5. session'[s] = y
  BY <1>4 DEF TypeOK
<1>6. OperationSound(s)'
  <2>1. CASE y = surveyed
    BY <1>3, <1>5, <2>1, IdleSound
  <2>2. CASE y = [surveyed EXCEPT !.op = op] /\ KnownBySurvey(s) = {}
    <3>1. file[s].swapped = {}
      BY <2>2 DEF KnownBySurvey
    <3>2. session'[s].op = op /\ op.kind = "plan" /\ op.events = x.events
      BY <1>3, <1>5, <2>2
    <3> HIDE DEF op, surveyed
    <3> QED  BY <1>1, <3>1, <3>2 DEF OperationSound
  <2> QED  BY <1>4, <2>1, <2>2
<1> QED  BY <1>1, <1>4, <1>6, SessionSound

(* A plan refuses new events of the store's own author, and reads its file *)
(* as it is, so that what it lets through of that author is there already. *)
LEMMA PlanKeepsSound ==
    ASSUME TypeOK, OperationsSound, NEW s \in Stores, Plan(s)
    PROVE  OperationsSound'
<1> DEFINE E == session[s].op.events
           offered == session[s].op.offered
           plan == [kind |-> "import", events |-> E, offered |-> offered,
                    staged |-> ToStage(s, E, offered), reused |-> ToReuse(s, E, offered)]
<1>1. session[s] # None /\ session[s] \in Session /\ session[s].op \in Operation /\ session[s].op.kind = "plan"
      /\ UNCHANGED <<file, snapshots>>
  BY WorkingTyped DEF Plan
<1>2. file[s].swapped = {} /\ \E x \in snapshots : E = x.events
  BY <1>1, NoneAssumption DEF OperationsSound, OperationSound
<1>3. PICK o : /\ session' = [session EXCEPT ![s] = [session[s] EXCEPT !.known = KnownByScan(s), !.op = o]]
               /\ o = None \/ (o = plan /\ ~Forked(s, E))
  BY DEF Plan, TypeOK
<1>4. session'[s].op = o
  <2>1. [session[s] EXCEPT !.known = KnownByScan(s), !.op = o].op = o
    BY <1>1 DEF Session
  <2> QED  BY <1>3, <2>1 DEF TypeOK
<1>5. OperationSound(s)'
  <2>1. CASE o = None
    BY <1>4, <2>1, IdleSound
  <2>2. CASE o = plan /\ ~Forked(s, E)
    <3>1. \A e \in E : e.author = file[s].author => e \in file[s].events
      BY <1>2, <2>2, SoundScan DEF Forked, Fresh
    <3>2. session'[s].op.kind = "import" /\ session'[s].op.events = E
      BY <1>4, <2>2
    <3> HIDE DEF plan, E
    <3> QED  BY <1>1, <1>2, <3>1, <3>2 DEF OperationSound
  <2> QED  BY <1>3, <2>1, <2>2
<1> HIDE DEF plan, E
<1> QED  BY <1>1, <1>3, <1>5, SessionSound

LEMMA ImportPublishKeepsSound ==
    ASSUME TypeOK, OperationsSound, NEW s \in Stores, ImportPublish(s)
    PROVE  OperationsSound'
<1> DEFINE op == session[s].op
           again == [kind |-> "plan", events |-> op.events, offered |-> op.offered]
           f == Accepted(s, op.staged, op.events)
           x == Published(s, op.staged, None)
<1>1. session[s] # None /\ op \in Operation /\ op.kind = "import"
  BY WorkingTyped DEF ImportPublish
<1>2. Asked(s) \in Session /\ x.op = None
  BY <1>1, AskedOp
<1>3. file[s].swapped = {} /\ \E y \in snapshots : op.events = y.events
  BY <1>1, NoneAssumption DEF OperationsSound, OperationSound
<1>4. CASE Transaction(s, f, x)
  <2> HIDE DEF f, x
  <2> QED  BY <1>1, <1>2, <1>4, TransactionSound
<1>5. CASE Refuse(s)
  BY <1>1, <1>5, RefuseSound
<1>6. CASE /\ UNCHANGED <<file, snapshots, minted, faults>>
           /\ \/ \E o \in {again, None} : session' = [session EXCEPT ![s] = [Asked(s) EXCEPT !.op = o]]
              \/ \E e : session' = [session EXCEPT ![s] = [Asked(s) EXCEPT !.known = @ \cup {e}, !.op = None]]
  <2>1. PICK y : session' = [session EXCEPT ![s] = y] /\ y.op \in {again, None}
    <3>1. \A o : [Asked(s) EXCEPT !.op = o].op = o
      BY <1>2 DEF Session
    <3>2. \A e : [Asked(s) EXCEPT !.known = @ \cup {e}, !.op = None].op = None
      BY <1>2 DEF Session
    <3> HIDE DEF again
    <3> QED  BY <1>6, <3>1, <3>2
  <2>2. session'[s].op \in {again, None}
    BY <2>1 DEF TypeOK
  <2>3. again.kind = "plan" /\ again.events = op.events
    OBVIOUS
  <2>4. OperationSound(s)'
    <3> HIDE DEF again, op
    <3> QED  BY <1>3, <1>6, <2>2, <2>3 DEF OperationSound
  <2> QED  BY <1>6, <2>1, <2>4, SessionSound
<1>7. \/ Transaction(s, f, x)
      \/ Refuse(s)
      \/ /\ UNCHANGED <<file, snapshots, minted, faults>>
         /\ \/ \E o \in {again, None} : session' = [session EXCEPT ![s] = [Asked(s) EXCEPT !.op = o]]
            \/ \E e : session' = [session EXCEPT ![s] = [Asked(s) EXCEPT !.known = @ \cup {e}, !.op = None]]
  BY DEF ImportPublish
<1> QED  BY <1>4, <1>5, <1>6, <1>7

LEMMA OpeningKeepsSound ==
    ASSUME TypeOK, OperationsSound, NEW s \in Stores,
           \/ \E x \in snapshots : Restore(s, x)
           \/ Open(s) \/ ResetIdentity(s) \/ Close(s) \/ Crash(s)
    PROVE  OperationsSound'
<1>1. PICK y \in {Opened, None} : session' = [session EXCEPT ![s] = y]
  BY DEF Restore, Open, ResetIdentity, Close, Crash
<1>2. OperationSound(s)'
  <2>1. session'[s] = None \/ session'[s].op = None
    BY <1>1 DEF TypeOK, Opened
  <2> QED  BY <2>1, IdleSound
<1>3. UNCHANGED snapshots
  BY DEF Restore, Open, ResetIdentity, Close, Crash
<1>4. \E f : file' = [file EXCEPT ![s] = f]
  <2>1. file = [file EXCEPT ![s] = file[s]]
    BY DEF TypeOK
  <2>2. CASE UNCHANGED file
    BY <2>1, <2>2
  <2>3. CASE \E x \in snapshots : Restore(s, x)
    BY <2>3 DEF Restore
  <2>4. CASE ResetIdentity(s)
    <3>1. file' = [file EXCEPT ![s] = [file[s] EXCEPT !.author = minted + 1, !.mine = {}]]
      BY <2>4 DEF ResetIdentity, TypeOK
    <3> QED  BY <3>1
  <2> QED  BY <2>2, <2>3, <2>4 DEF Open, Close, Crash
<1> QED  BY <1>1, <1>2, <1>3, <1>4, OthersSound

(* A copy is made of a file into none, and rows are swapped only in a file *)
(* nobody has open.                                                        *)
LEMMA FilesKeepSound ==
    ASSUME TypeOK, OperationsSound, NEW s \in Stores, (\E t \in Stores : CopyFile(s, t)) \/ Fault(s)
    PROVE  OperationsSound'
<1> SUFFICES ASSUME NEW u \in Stores, session[u] # None PROVE OperationSound(u)'
  BY DEF OperationsSound, OperationSound, CopyFile, Fault
<1>1. UNCHANGED <<session, snapshots>> /\ file[u] # None /\ file[u] \in File
  BY SessionTyped DEF CopyFile, Fault
<1>2. /\ file'[u].events = file[u].events /\ file'[u].author = file[u].author
      /\ file'[u].swapped = file[u].swapped /\ file[u].torn \subseteq file'[u].torn
  <2>1. CASE \E t \in Stores : CopyFile(s, t)
    BY <1>1, <2>1 DEF CopyFile, TypeOK
  <2>2. CASE Fault(s)
    <3>1. CASE u # s
      BY <2>2, <3>1 DEF Fault, TypeOK
    <3>2. CASE u = s
      <4>1. \/ \E r \in Roots : file'[s] = [file[s] EXCEPT !.bytes[r] = "bad"]
            \/ \E e \in file[s].events : file'[s] = [file[s] EXCEPT !.torn = @ \cup {e}]
        BY <2>2, <3>2 DEF Fault, TypeOK
      <4> QED  BY <1>1, <3>2, <4>1 DEF File
    <3> QED  BY <3>1, <3>2
  <2> QED  BY <2>1, <2>2
<1>3. OperationSound(u)
  BY DEF OperationsSound
<1> QED  BY <1>1, <1>2, <1>3 DEF OperationSound

LEMMA StepKeepsSound == TypeOK /\ OperationsSound /\ [Next]_vars => OperationsSound'
<1> SUFFICES ASSUME TypeOK, OperationsSound, [Next]_vars PROVE OperationsSound'
  OBVIOUS
<1>1. CASE UNCHANGED vars
  BY <1>1 DEF vars, OperationsSound, OperationSound
<1>2. CASE Next
  BY <1>2, StreamsKeepSound, CommitKeepsSound, CollectKeepsSound, ExportKeepsSound,
     ImportKeepsSound,
     PlanKeepsSound, ImportPublishKeepsSound, OpeningKeepsSound, FilesKeepSound DEF Next
<1> QED  BY <1>1, <1>2

-----------------------------------------------------------------------------
(* Every event stays in the file that wrote it, and every event somewhere  *)
(* is one of its writer's.                                                 *)

(* A file loses no event. *)
LEMMA FilesGrow ==
    ASSUME Moves
    PROVE  \A t \in Stores : file[t] # None => file'[t] # None /\ file[t].events \subseteq file'[t].events
BY DEF Moves, Quiet, Wrote, Joined, Delivered, Restored, Renewed, Copied, OthersSame, SameFile

LEMMA HomeStays ==
    ASSUME Moves, NEW e, Home(e)
    PROVE  Home(e)'
BY FilesGrow DEF Home

Known(e) == Home(e) \/ \E s \in Stores : Wrote(s) /\ e = session[s].op.draft

(* What a move leaves in a file or among the snapshots was somewhere, or   *)
(* is being written at home.                                               *)
LEMMA Provenance ==
    ASSUME VaultInv, Moves
    PROVE  /\ \A t \in Stores : file'[t] # None => \A e \in file'[t].events : Known(e)
           /\ \A x \in snapshots' : \A e \in x.events : Home(e)
<1>1. ASSUME NEW t \in Stores, file'[t] # None, NEW e \in file'[t].events PROVE Known(e)
  <2>1. CASE file[t] # None /\ e \in file[t].events
    BY <2>1 DEF VaultInv, AtHome, Known
  <2>2. CASE Wrote(t)
    BY <1>1, <2>1, <2>2, WorkingTyped DEF Wrote, VaultInv, AtHome, Known
  <2>3. CASE Joined(t)
    <3>1. PICK x \in snapshots : session[t].op.events = x.events
      BY <2>3, WorkingTyped, NoneAssumption DEF Joined, VaultInv, OperationsSound,
         OperationSound
    <3> QED  BY <1>1, <2>1, <2>3, <3>1, WorkingTyped DEF Joined, VaultInv, AtHome, Known
  <2>4. CASE Restored(t)
    BY <1>1, <2>4 DEF Restored, VaultInv, AtHome, Known
  <2>5. CASE \E s \in Stores : Copied(s, t)
    BY <1>1, <2>5 DEF Copied, VaultInv, AtHome, Known
  <2>6. CASE SameFile(t) \/ Renewed(t)
    BY <1>1, <2>1, <2>6 DEF SameFile, Renewed
  <2> QED  BY <2>2, <2>3, <2>4, <2>5, <2>6
       DEF Moves, Quiet, Wrote, Joined, Delivered, Restored, Renewed, Copied, OthersSame
<1>2. ASSUME NEW x \in snapshots', NEW e \in x.events PROVE Home(e)
  <2>1. CASE x \in snapshots
    BY <1>2, <2>1 DEF VaultInv, AtHome, Known
  <2>2. CASE \E s \in Stores : Delivered(s) /\ x.events = session[s].op.events
    <3>1. PICK s \in Stores : Delivered(s) /\ x.events = session[s].op.events
      BY <2>2
    <3>2. session[s].op.events \subseteq file[s].events /\ file[s] # None
      BY <3>1, WorkingTyped, NoneAssumption DEF Delivered, VaultInv, OperationsSound,
         OperationSound
    <3> QED  BY <1>2, <3>1, <3>2 DEF VaultInv, AtHome, Known
  <2> QED  BY <2>1, <2>2 DEF Moves, Quiet, Wrote, Joined, Delivered, Restored, Renewed, Copied
<1> QED  BY <1>1, <1>2

LEMMA MovesKeepHome ==
    ASSUME VaultInv, Moves
    PROVE  AtHome'
<1>1. ASSUME NEW e, Known(e) PROVE Home(e)'
  <2>1. CASE Home(e)
    BY <2>1, HomeStays
  <2>2. CASE \E s \in Stores : Wrote(s) /\ e = session[s].op.draft
    <3>1. PICK s \in Stores : Wrote(s) /\ e = session[s].op.draft
      BY <2>2
    <3>2. e.by = s
      BY <3>1, WorkingTyped, NoneAssumption DEF Wrote, VaultInv, OperationsSound, OperationSound
    <3> QED  BY <3>1, <3>2 DEF Wrote, Home
  <2> QED  BY <1>1, <2>1, <2>2 DEF Known
<1>2. \A t \in Stores : file'[t] # None => \A e \in file'[t].events : Home(e)'
  BY <1>1, Provenance
<1>3. \A x \in snapshots' : \A e \in x.events : Home(e)'
  BY Provenance, HomeStays
<1> QED  BY <1>2, <1>3 DEF AtHome

LEMMA MovesKeepMinted ==
    ASSUME VaultInv, Moves
    PROVE  AuthorsMinted'
<1>1. TypeOK /\ AuthorsMinted /\ minted \in Nat
  BY DEF VaultInv, TypeOK, Authors
<1>2. minted' \in {minted, minted + 1}
  BY DEF Moves, Quiet, Wrote, Joined, Delivered, Restored, Renewed, Copied
<1>3. ASSUME NEW e, Home(e) PROVE e.author \in Nat /\ e.author <= minted
  <2>1. e \in Event
    BY <1>1, <1>3 DEF Home, TypeOK, File
  <2> QED  BY <1>1, <1>3, <2>1 DEF Home, AuthorsMinted, Event, Authors
<1>4. ASSUME NEW s \in Stores, Wrote(s)
      PROVE  session[s].op.draft.author \in Nat /\ session[s].op.draft.author <= minted
  <2>1. session[s] # None /\ session[s].op # None /\ session[s].op.kind = "commit"
        /\ file[s] \in File /\ file[s] # None
    BY <1>1, <1>4, WorkingTyped, NoneAssumption DEF Wrote
  <2>2. session[s].op.draft.author = file[s].author
    BY <2>1 DEF VaultInv, OperationsSound, OperationSound
  <2> QED  BY <1>1, <2>1, <2>2 DEF AuthorsMinted, File, Authors
<1>5. ASSUME NEW e, Known(e) PROVE e.author \in Nat /\ e.author <= minted
  BY <1>3, <1>4, <1>5 DEF Known
<1>6. ASSUME NEW t \in Stores, file'[t] # None
      PROVE  file'[t].author <= minted' /\ \A e \in file'[t].events : e.author <= minted'
  <2>1. \A e \in file'[t].events : e.author \in Nat /\ e.author <= minted
    BY <1>5, <1>6, Provenance
  <2>2. \/ file'[t].author = minted + 1 /\ minted' = minted + 1
        \/ \E u \in Stores : file[u] # None /\ file'[t].author = file[u].author
    BY <1>1, <1>6, WorkingTyped
       DEF Moves, Quiet, Wrote, Joined, Delivered, Restored, Renewed, Copied, OthersSame, SameFile
  <2>3. \A u \in Stores : file[u] # None => file[u].author \in Nat /\ file[u].author <= minted
    BY <1>1 DEF TypeOK, File, Authors, AuthorsMinted
  <2> QED  BY <1>1, <1>2, <2>1, <2>2, <2>3
<1>7. ASSUME NEW x \in snapshots', NEW e \in x.events PROVE e.author <= minted'
  <2>1. e.author \in Nat /\ e.author <= minted
    BY <1>3, <1>7, Provenance
  <2> QED  BY <1>1, <1>2, <2>1
<1> QED  BY <1>6, <1>7 DEF AuthorsMinted

LEMMA MovesKeepOwn ==
    ASSUME VaultInv, Moves
    PROVE  OwnIsOwn'
<1>1. TypeOK /\ AuthorsMinted /\ OwnIsOwn /\ minted \in Nat
  BY DEF VaultInv, TypeOK, Authors
<1> SUFFICES ASSUME NEW t \in Stores, file'[t] # None,
                    NEW e \in file'[t].events, e.author = file'[t].author
             PROVE  e \in file'[t].mine
  BY DEF OwnIsOwn
<1>2. CASE SameFile(t)
  BY <1>1, <1>2 DEF SameFile, OwnIsOwn
<1>3. CASE Wrote(t)
  BY <1>1, <1>3, WorkingTyped DEF Wrote, OwnIsOwn
<1>4. CASE Joined(t)
  <2>1. session[t] # None /\ session[t].op # None /\ session[t].op.kind = "import" /\ file[t] # None
    BY <1>1, <1>4, WorkingTyped, NoneAssumption DEF Joined
  <2>2. e \in file[t].events
    BY <1>4, <2>1 DEF Joined, VaultInv, OperationsSound, OperationSound
  <2> QED  BY <1>1, <1>4, <2>1, <2>2 DEF Joined, OwnIsOwn
<1>5. CASE Restored(t) \/ Renewed(t)
  <2>1. e \in Event /\ e.author <= minted
    BY <1>1, <1>5 DEF Restored, Renewed, TypeOK, File, Snapshot, AuthorsMinted
  <2>2. e.author = minted + 1
    BY <1>5 DEF Restored, Renewed
  <2> QED  BY <1>1, <2>1, <2>2
<1>6. CASE \E s \in Stores : Copied(s, t)
  BY <1>1, <1>6 DEF Copied, OwnIsOwn
<1> QED  BY <1>2, <1>3, <1>4, <1>5, <1>6
     DEF Moves, Quiet, Wrote, Joined, Delivered, Restored, Renewed, Copied, OthersSame

LEMMA VaultInductive == Spec => []VaultInv
<1>1. Init => VaultInv
  <2> SUFFICES ASSUME Init, TypeOK PROVE VaultInv
    BY InitTyped
  <2> QED  BY DEF Init, VaultInv, AtHome, AuthorsMinted, OperationsSound, OperationSound, OwnIsOwn, Opened
<1>2. VaultInv /\ TypeOK' /\ [Next]_vars => VaultInv'
  <2> SUFFICES ASSUME VaultInv, TypeOK', [Next]_vars PROVE VaultInv'
    OBVIOUS
  <2>1. Moves
    BY StepMoves DEF VaultInv
  <2>2. OperationsSound'
    BY StepKeepsSound DEF VaultInv
  <2> QED  BY <2>1, <2>2, MovesKeepHome, MovesKeepMinted, MovesKeepOwn DEF VaultInv
<1> QED  BY <1>1, <1>2, VaultTypeCorrect, PTL DEF Spec

(* No store ever takes from elsewhere an event under its own replica ID    *)
(* that it did not write or hold when it was copied, whatever interleaves  *)
(* with the import that refuses it (planned, import.ts).                   *)
THEOREM VaultOwnIsOwn == Spec => []OwnIsOwn
<1>1. VaultInv => OwnIsOwn
  BY DEF VaultInv
<1> QED  BY <1>1, VaultInductive, PTL

-----------------------------------------------------------------------------
(* The stores implement ReplicatedSet. *)

(* What the abstract specification sees of the files and the snapshots. *)
Seen == [s \in Stores |-> IF file[s] = None THEN {} ELSE file[s].events]
Cuts == {x.events : x \in snapshots}
Lost == [s \in Stores |-> Damaged(s)]
Away == {s \in Stores : Exporting(s)}

LEMMA SeenSame ==
    ASSUME NEW t \in Stores, SameFile(t)
    PROVE  Seen'[t] = Seen[t]
BY DEF SameFile, Seen

(* A step that moves one file moves one store's events. *)
LEMMA SeenAt ==
    ASSUME NEW s \in Stores, OthersSame(s)
    PROVE  Seen' = [Seen EXCEPT ![s] = Seen'[s]]
<1>1. \A t \in Stores \ {s} : Seen'[t] = Seen[t]
  BY SeenSame DEF OthersSame
<1>2. Seen = [t \in Stores |-> Seen[t]] /\ Seen' = [t \in Stores |-> Seen'[t]]
  BY DEF Seen
<1> HIDE DEF Seen
<1> QED  BY <1>1, <1>2

LEMMA SeenUnmoved ==
    ASSUME \A t \in Stores : SameFile(t)
    PROVE  Seen' = Seen
<1>1. \A t \in Stores : Seen'[t] = Seen[t]
  BY SeenSame
<1>2. Seen = [t \in Stores |-> Seen[t]] /\ Seen' = [t \in Stores |-> Seen'[t]]
  BY DEF Seen
<1> HIDE DEF Seen
<1> QED  BY <1>1, <1>2

(* A written event is nowhere else: it would be at home already. *)
LEMMA WroteIsWrite ==
    ASSUME VaultInv, NEW s \in Stores, Wrote(s)
    PROVE  /\ Seen[s] \subseteq Seen'[s]
           /\ Seen' = [Seen EXCEPT ![s] = Seen'[s]]
           /\ \A cut \in Cuts \cup {Seen[t] : t \in Stores} : cut \cap Seen'[s] \subseteq Seen[s]
           /\ Cuts' = Cuts
<1> DEFINE e == session[s].op.draft
<1>1. session[s] # None /\ session[s].op # None /\ session[s].op.kind = "commit" /\ file[s] # None
  BY WorkingTyped, NoneAssumption DEF Wrote, VaultInv
<1>2. e.by = s
  BY <1>1 DEF VaultInv, OperationsSound, OperationSound
<1>3. Seen[s] = file[s].events /\ Seen'[s] = file[s].events \cup {e}
  BY <1>1 DEF Seen, Wrote
<1>4. Home(e) => e \in Seen[s]
  BY <1>2, <1>3 DEF Home
<1>5. \A cut \in Cuts \cup {Seen[t] : t \in Stores} : e \in cut => Home(e)
  <2>1. \A cut \in Cuts : e \in cut => Home(e)
    BY DEF Cuts, VaultInv, AtHome
  <2>2. \A t \in Stores : e \in Seen[t] => Home(e)
    BY DEF Seen, VaultInv, AtHome
  <2> QED  BY <2>1, <2>2
<1>6. Seen' = [Seen EXCEPT ![s] = Seen'[s]] /\ Cuts' = Cuts
  BY SeenAt DEF Wrote, Cuts
<1> HIDE DEF e
<1> QED  BY <1>3, <1>4, <1>5, <1>6

LEMMA JoinedIsJoin ==
    ASSUME VaultInv, NEW s \in Stores, Joined(s) \/ Restored(s)
    PROVE  /\ Cuts' = Cuts
           /\ \E cut \in Cuts : Seen' = [Seen EXCEPT ![s] = Seen[s] \cup cut]
<1>1. Seen' = [Seen EXCEPT ![s] = Seen'[s]] /\ Cuts' = Cuts
  BY SeenAt DEF Joined, Restored, Cuts
<1>2. CASE Joined(s)
  <2>1. session[s] # None /\ session[s].op # None /\ session[s].op.kind = "import" /\ file[s] # None
    BY <1>2, WorkingTyped, NoneAssumption DEF Joined, VaultInv
  <2>2. session[s].op.events \in Cuts
    BY <2>1 DEF VaultInv, OperationsSound, OperationSound, Cuts
  <2>3. Seen'[s] = Seen[s] \cup session[s].op.events
    BY <1>2, <2>1 DEF Joined, Seen
  <2> QED  BY <1>1, <2>2, <2>3
<1>3. CASE Restored(s)
  <2>1. PICK x \in snapshots : file'[s].events = x.events
    BY <1>3 DEF Restored
  <2>2. x.events \in Cuts /\ Seen'[s] = Seen[s] \cup x.events
    BY <1>3, <2>1 DEF Restored, Seen, Cuts
  <2> QED  BY <1>1, <2>2
<1> QED  BY <1>2, <1>3

LEMMA CopiedIsCopy ==
    ASSUME TypeOK, NEW s \in Stores, NEW t \in Stores, CopyFile(s, t)
    PROVE  /\ Cuts' = Cuts /\ Seen[t] = {}
           /\ Seen' = [Seen EXCEPT ![t] = Seen[s]]
           /\ Lost' = [Lost EXCEPT ![t] = Lost[s]]
<1>1. Copied(s, t)
  BY OpeningMoves
<1>2. Seen' = [Seen EXCEPT ![t] = Seen'[t]] /\ Cuts' = Cuts
  BY <1>1, SeenAt DEF Copied, Cuts
<1>3. Seen[t] = {} /\ Seen'[t] = Seen[s]
  BY <1>1 DEF Copied, Seen
<1>4. Damaged(t)' = Damaged(s) /\ \A x \in Stores \ {t} : Damaged(x)' = Damaged(x)
  BY DEF CopyFile, TypeOK, Damaged
<1>5. Lost' = [Lost EXCEPT ![t] = Lost[s]]
  BY <1>4 DEF Lost
<1> QED  BY <1>2, <1>3, <1>5

(* What a cut lacks of its store was torn while it was selected.           *)
LEMMA DeliveredIsPublish ==
    ASSUME VaultInv, NEW s \in Stores, Delivered(s)
    PROVE  /\ Seen' = Seen
           /\ \E cut \in SUBSET Seen[s] : Seen[s] \ cut \subseteq Lost[s] /\ Cuts' = Cuts \cup {cut}
<1> DEFINE E == session[s].op.events
<1>1. session[s] # None /\ session[s].op # None /\ session[s].op.kind = "export" /\ file[s] # None
  BY WorkingTyped, NoneAssumption DEF Delivered, VaultInv
<1>2. E \subseteq Seen[s] /\ Seen[s] \ E \subseteq Lost[s]
  BY <1>1 DEF VaultInv, OperationsSound, OperationSound, Seen, Lost, Damaged
<1>3. PICK x : x.events = E /\ snapshots' = snapshots \cup {x}
  BY DEF Delivered
<1>4. Cuts' = Cuts \cup {E}
  BY <1>3 DEF Cuts
<1> HIDE DEF E
<1> QED  BY <1>2, <1>4, SeenUnmoved DEF Delivered

LEMMA QuietStutters ==
    ASSUME Quiet \/ \E s \in Stores : Renewed(s)
    PROVE  Seen' = Seen /\ Cuts' = Cuts
<1>1. CASE Quiet
  BY <1>1, SeenUnmoved DEF Quiet, Cuts
<1>2. ASSUME NEW s \in Stores, Renewed(s) PROVE Seen' = Seen /\ Cuts' = Cuts
  <2>1. Seen' = [Seen EXCEPT ![s] = Seen'[s]]
    BY <1>2, SeenAt DEF Renewed
  <2>2. Seen'[s] = Seen[s]
    BY <1>2 DEF Renewed, Seen
  <2>3. [Seen EXCEPT ![s] = Seen[s]] = Seen
    BY DEF Seen
  <2> QED  BY <1>2, <2>1, <2>2, <2>3 DEF Renewed, Cuts
<1> QED  BY <1>1, <1>2

(* Only the files say what is lost, and no operation heals or damages a    *)
(* row.                                                                    *)
LEMMA LostSame ==
    ASSUME TypeOK, NEW s \in Stores,
           file' = file \/ \E f : /\ file' = [file EXCEPT ![s] = f] /\ f # None
                                 /\ f.torn \cup f.swapped = Damaged(s)
    PROVE  Lost' = Lost
<1>1. \A t \in Stores : Damaged(t)' = Damaged(t)
  BY DEF TypeOK, Damaged
<1> QED  BY <1>1 DEF Lost

LEMMA LostStays ==
    ASSUME TypeOK, NEW s \in Stores,
           \/ CommitPublish(s) \/ Collect(s) \/ ImportPublish(s)
           \/ (\E x \in snapshots : Restore(s, x)) \/ ResetIdentity(s)
    PROVE  Lost' = Lost
<1>1. \A f, x : Transaction(s, f, x) => file' \in {file, [file EXCEPT ![s] = f]}
  BY DEF Transaction
<1>2. ASSUME NEW f \in File, f.torn = file[s].torn, f.swapped = file[s].swapped, file[s] # None
      PROVE  f # None /\ f.torn \cup f.swapped = Damaged(s)
  BY <1>2, NoneAssumption DEF Damaged
<1>3. CASE CommitPublish(s)
  <2> DEFINE e == session[s].op.draft
             staged == session[s].op.staged
             f == [Accepted(s, staged, {e}) EXCEPT !.mine = @ \cup {e}]
  <2>1. file[s] \in File /\ file[s] # None /\ e \in Event
    BY <1>3, WorkingTyped, OperationFields DEF CommitPublish
  <2>2. Accepted(s, staged, {e}) \in File
    BY <2>1, AcceptedTyped
  <2>3. f \in File /\ f.torn = file[s].torn /\ f.swapped = file[s].swapped
    <3>1. LET g == Accepted(s, staged, {e}) IN g.torn = file[s].torn /\ g.swapped = file[s].swapped
      BY <2>1 DEF Accepted, File
    <3> HIDE DEF staged, e
    <3> QED  BY <2>1, <2>2, <3>1 DEF File
  <2>4. UNCHANGED file \/ \E x : Transaction(s, f, x)
    BY <1>3 DEF CommitPublish, Refuse
  <2> HIDE DEF f
  <2> QED  BY <1>1, <1>2, <2>1, <2>3, <2>4, LostSame
<1>4. CASE Collect(s)
  <2> DEFINE removed == {r \in Roots \ session[s].op.keep : file[s].bytes[r] # "absent"}
             f == [file[s] EXCEPT !.bytes = [r \in Roots |-> IF r \in removed THEN "absent" ELSE @[r]]]
  <2>1. file[s] \in File /\ file[s] # None
    BY <1>4, WorkingTyped DEF Collect
  <2>2. f \in File /\ f.torn = file[s].torn /\ f.swapped = file[s].swapped
    BY <2>1 DEF File
  <2>3. UNCHANGED file \/ \E x : Transaction(s, f, x)
    BY <1>4 DEF Collect, Refuse
  <2> HIDE DEF f
  <2> QED  BY <1>1, <1>2, <2>1, <2>2, <2>3, LostSame
<1>5. CASE ImportPublish(s)
  <2> DEFINE op == session[s].op
             f == Accepted(s, op.staged, op.events)
  <2>1. file[s] \in File /\ file[s] # None /\ op.events \in SUBSET Event
    BY <1>5, WorkingTyped, OperationFields DEF ImportPublish
  <2>2. f \in File
    BY <2>1, AcceptedTyped
  <2>3. f.torn = file[s].torn /\ f.swapped = file[s].swapped
    BY <2>1 DEF Accepted, File
  <2>4. UNCHANGED file \/ \E x : Transaction(s, f, x)
    BY <1>5 DEF ImportPublish, Refuse
  <2> HIDE DEF f
  <2> QED  BY <1>1, <1>2, <2>1, <2>2, <2>3, <2>4, LostSame
<1>6. CASE \E x \in snapshots : Restore(s, x)
  <2>1. PICK x \in snapshots : Restore(s, x)
    BY <1>6
  <2> DEFINE f == [author |-> minted + 1, events |-> x.events, mine |-> {}, torn |-> {}, swapped |-> {},
                   bytes |-> [r \in Roots |-> IF r \in x.objects THEN "sound" ELSE "absent"]]
  <2>2. f \in File
    BY <2>1, VaultAssumption DEF TypeOK, Snapshot, File, Authors, Restore
  <2>3. f # None
    BY <2>2, NoneAssumption
  <2>4. f.torn \cup f.swapped = {}
    OBVIOUS
  <2>5. file' = [file EXCEPT ![s] = f] /\ Damaged(s) = {}
    BY <2>1 DEF Restore, Damaged
  <2> HIDE DEF f
  <2> QED  BY <2>3, <2>4, <2>5, LostSame
<1>7. CASE ResetIdentity(s)
  <2> DEFINE f == [file[s] EXCEPT !.author = minted + 1, !.mine = {}]
  <2>1. file[s] \in File /\ file[s] # None /\ minted + 1 \in Authors
    BY <1>7, VaultAssumption DEF TypeOK, Authors, ResetIdentity
  <2>2. f \in File /\ f.torn = file[s].torn /\ f.swapped = file[s].swapped
    BY <2>1 DEF File
  <2>3. file' = [file EXCEPT ![s] = f]
    BY <1>7 DEF ResetIdentity, TypeOK
  <2> HIDE DEF f
  <2> QED  BY <1>2, <2>1, <2>2, <2>3, LostSame
<1> QED  BY <1>3, <1>4, <1>5, <1>6, <1>7

(* A row that is torn or swapped is one of the store's.                    *)
LEMMA FaultLoses ==
    ASSUME TypeOK, NEW s \in Stores, Fault(s)
    PROVE  Lost' = Lost \/ \E e \in Seen[s] : Lost' = [Lost EXCEPT ![s] = @ \cup {e}]
<1>1. file[s] \in File /\ file[s] # None
  BY DEF Fault, TypeOK
<1>2. PICK f : /\ file' = [file EXCEPT ![s] = f]
               /\ \/ \E r \in Roots : f = [file[s] EXCEPT !.bytes[r] = "bad"]
                  \/ \E e \in file[s].events :
                        \/ f = [file[s] EXCEPT !.torn = @ \cup {e}]
                        \/ f = [file[s] EXCEPT !.swapped = @ \cup {e}]
  BY DEF Fault, TypeOK
<1>3. f \in File
  BY <1>1, <1>2 DEF File
<1>4. f # None
  BY <1>3, NoneAssumption
<1>5. CASE \E r \in Roots : f = [file[s] EXCEPT !.bytes[r] = "bad"]
  <2>1. f.torn = file[s].torn /\ f.swapped = file[s].swapped
    BY <1>1, <1>5 DEF File
  <2> QED  BY <1>1, <1>2, <1>4, <2>1, LostSame DEF Damaged
<1>6. CASE \E e \in file[s].events : \/ f = [file[s] EXCEPT !.torn = @ \cup {e}]
                                    \/ f = [file[s] EXCEPT !.swapped = @ \cup {e}]
  <2>1. PICK e \in file[s].events : \/ f = [file[s] EXCEPT !.torn = @ \cup {e}]
                                    \/ f = [file[s] EXCEPT !.swapped = @ \cup {e}]
    BY <1>6
  <2>2. f.torn \cup f.swapped = Damaged(s) \cup {e}
    BY <1>1, <2>1 DEF File, Damaged
  <2>3. Damaged(s)' = Damaged(s) \cup {e}
    BY <1>2, <1>4, <2>2 DEF TypeOK, Damaged
  <2>4. \A t \in Stores \ {s} : Damaged(t)' = Damaged(t)
    BY <1>2 DEF TypeOK, Damaged
  <2>5. Lost' = [Lost EXCEPT ![s] = @ \cup {e}]
    BY <2>3, <2>4 DEF Lost
  <2>6. e \in Seen[s]
    BY <1>1 DEF Seen
  <2> QED  BY <2>5, <2>6
<1> QED  BY <1>2, <1>5, <1>6

(* Which stores are exporting, after a step at one of them.                *)
LEMMA AwayMoves ==
    ASSUME TypeOK, NEW s \in Stores, NEW x, session' = [session EXCEPT ![s] = x]
    PROVE  /\ session'[s] = x
           /\ (Exporting(s)' <=> Exporting(s)) => Away' = Away
           /\ ~Exporting(s)' => Away' = Away \ {s}
           /\ Exporting(s)' => Away' = Away \cup {s}
<1>1. session'[s] = x /\ \A t \in Stores \ {s} : session'[t] = session[t]
  BY DEF TypeOK
<1>2. \A t \in Stores \ {s} : Exporting(t)' <=> Exporting(t)
  BY <1>1 DEF Exporting
<1> QED  BY <1>1, <1>2 DEF Away

(* Only the first step of an export begins one.                            *)
Ends(s) == Away' \in {Away, Away \ {s}}

LEMMA EndsOf ==
    ASSUME TypeOK, NEW s \in Stores, NEW x, session' = [session EXCEPT ![s] = x],
           \/ x = None \/ x.op = None \/ x.op.kind \notin {"select", "gather", "export"}
           \/ session[s] # None /\ x.op = session[s].op
           \/ Exporting(s)
    PROVE  Ends(s)
<1>1. session'[s] = x
  BY AwayMoves
<1>2. CASE ~Exporting(s)'
  BY <1>2, AwayMoves DEF Ends
<1>3. CASE Exporting(s)'
  <2>1. Exporting(s)
    BY <1>1, <1>3 DEF Exporting
  <2> QED  BY <1>3, <2>1, AwayMoves DEF Ends
<1> QED  BY <1>2, <1>3

LEMMA OpeningEnds ==
    ASSUME TypeOK, NEW s \in Stores,
           \/ \E x \in snapshots : Restore(s, x)
           \/ Open(s) \/ ResetIdentity(s) \/ Close(s) \/ Crash(s)
    PROVE  Ends(s)
<1>1. PICK y \in {Opened, None} : session' = [session EXCEPT ![s] = y]
  BY DEF Restore, Open, ResetIdentity, Close, Crash
<1>2. y = None \/ y.op = None
  BY DEF Opened
<1> QED  BY <1>1, <1>2, EndsOf

LEMMA StreamsEnd ==
    ASSUME TypeOK, NEW s \in Stores, (\E r \in Roots : OpenStream(s, r)) \/ EndStream(s)
    PROVE  Ends(s)
<1>1. session[s] # None /\ session[s] \in Session
  BY RunningOpen, SessionTyped DEF OpenStream, EndStream
<1>2. CASE EndStream(s)
  <2> DEFINE x == [session[s] EXCEPT !.stream = None, !.condemned = @ \cup Condemns(session[s].stream)]
  <2>1. x.op = session[s].op
    BY <1>1 DEF Session
  <2>2. session' = [session EXCEPT ![s] = x]
    BY <1>2 DEF EndStream, TypeOK
  <2> HIDE DEF x
  <2> QED  BY <1>1, <2>1, <2>2, EndsOf
<1>3. ASSUME NEW r \in Roots, OpenStream(s, r) PROVE Ends(s)
  <2> DEFINE x == [session[s] EXCEPT !.stream = [cid |-> r, stale |-> FALSE]]
  <2>1. x.op = session[s].op
    BY <1>1 DEF Session
  <2>2. session' = [session EXCEPT ![s] = x]
    BY <1>3 DEF OpenStream, TypeOK
  <2> HIDE DEF x
  <2> QED  BY <1>1, <2>1, <2>2, EndsOf
<1> QED  BY <1>2, <1>3

(* An operation of another kind begins or goes on.                         *)
LEMMA BeginningEnds ==
    ASSUME TypeOK, NEW s \in Stores,
           \/ \E e \in Drafts(s) : \E staged \in SUBSET e.roots : Commit(s, e, staged)
           \/ Keep(s) \/ (\E x \in snapshots : Import(s, x)) \/ Plan(s)
    PROVE  Ends(s)
<1>1. session[s] # None /\ session[s] \in Session
  BY RunningOpen, SessionTyped DEF Commit, Keep, Import, Plan
<1>2. \A o, k : [session[s] EXCEPT !.op = o, !.known = k].op = o
  BY <1>1 DEF Session
<1>3. ASSUME NEW o, o = None \/ o.kind \notin {"select", "gather", "export"},
             NEW k, session' = [session EXCEPT ![s] = [session[s] EXCEPT !.op = o, !.known = k]]
      PROVE  Ends(s)
  <2> DEFINE x == [session[s] EXCEPT !.op = o, !.known = k]
  <2>1. x.op = o
    BY <1>2
  <2>2. session' = [session EXCEPT ![s] = x]
    BY <1>3
  <2> HIDE DEF x
  <2> QED  BY <1>3, <2>1, <2>2, EndsOf
<1>4. ASSUME NEW e \in Drafts(s), NEW staged \in SUBSET e.roots, Commit(s, e, staged) PROVE Ends(s)
  <2> DEFINE o == [kind |-> "commit", draft |-> e, staged |-> staged]
  <2>1. session' = [session EXCEPT ![s] = [session[s] EXCEPT !.op = o, !.known = KnownByScan(s)]]
    BY <1>4 DEF Commit, TypeOK
  <2>2. o.kind = "commit"
    OBVIOUS
  <2> HIDE DEF o
  <2> QED  BY <1>3, <2>1, <2>2
<1>5. CASE Keep(s)
  <2> DEFINE o == [kind |-> "collect", keep |-> HeldRoots(Scan(s))]
  <2>1. session' = [session EXCEPT ![s] = [session[s] EXCEPT !.op = o, !.known = KnownByScan(s)]]
    BY <1>5 DEF Keep, TypeOK
  <2>2. o.kind = "collect"
    OBVIOUS
  <2> HIDE DEF o
  <2> QED  BY <1>3, <2>1, <2>2
<1>6. ASSUME NEW x \in snapshots, Import(s, x) PROVE Ends(s)
  <2> DEFINE surveyed == [session[s] EXCEPT !.surveyed = TRUE, !.known = KnownBySurvey(s)]
             op == [kind |-> "plan", events |-> x.events, offered |-> x.objects]
  <2>1. PICK y \in {surveyed, [surveyed EXCEPT !.op = op]} : session' = [session EXCEPT ![s] = y]
    BY <1>6 DEF Import
  <2>2. op.kind = "plan"
    OBVIOUS
  <2> HIDE DEF op
  <2>3. surveyed.op = session[s].op /\ [surveyed EXCEPT !.op = op].op = op
    BY <1>1 DEF Session
  <2> HIDE DEF surveyed
  <2> QED  BY <1>1, <2>1, <2>2, <2>3, EndsOf
<1>7. CASE Plan(s)
  <2>1. PICK o : /\ o = None \/ o.kind = "import"
                 /\ session' = [session EXCEPT ![s] = [session[s] EXCEPT !.known = KnownByScan(s), !.op = o]]
    BY <1>7 DEF Plan, TypeOK
  <2>2. [session[s] EXCEPT !.known = KnownByScan(s), !.op = o].op = o
    BY <1>1 DEF Session
  <2> QED  BY <2>1, <2>2, EndsOf
<1> QED  BY <1>4, <1>5, <1>6, <1>7

(* A transaction is not an export's.                                       *)
LEMMA TransactionsAway ==
    ASSUME TypeOK, NEW s \in Stores, CommitPublish(s) \/ Collect(s) \/ ImportPublish(s)
    PROVE  s \notin Away /\ Away' = Away
<1>1. PICK k \in {"commit", "collect", "import"} : Working(s, k)
  BY DEF CommitPublish, Collect, ImportPublish
<1>2. session[s] # None /\ session[s].op.kind = k /\ s \notin Away /\ Asked(s) \in Session
  BY <1>1, WorkingTyped, KnownTyped DEF Away, Exporting
<1>3. ASSUME NEW x, session' = [session EXCEPT ![s] = x],
             x.op = None \/ x.op.kind \in {"keep", "plan"}
      PROVE  Away' = Away
  <2>1. ~Exporting(s)'
    BY <1>3, AwayMoves DEF Exporting
  <2> QED  BY <1>2, <1>3, <2>1, AwayMoves DEF Away
<1>4. ASSUME Refuse(s) PROVE Away' = Away
  <2>1. [Asked(s) EXCEPT !.op = None].op = None
    BY <1>2, AskedOp
  <2> QED  BY <1>3, <1>4, <2>1 DEF Refuse
<1>5. ASSUME NEW f, NEW x, Transaction(s, f, x), x.op = None \/ x.op.kind = "keep" PROVE Away' = Away
  <2> DEFINE stopped == [session[s] EXCEPT !.stopped = TRUE, !.op = None]
  <2>1. stopped.op = None
    BY <1>2, SessionTyped DEF Session
  <2>2. PICK y \in {x, stopped} : session' = [session EXCEPT ![s] = y]
    BY <1>5 DEF Transaction
  <2> HIDE DEF stopped
  <2> QED  BY <1>3, <1>5, <2>1, <2>2
<1>6. CASE CommitPublish(s)
  <2> DEFINE e == session[s].op.draft
             staged == session[s].op.staged
             next == IF e.kind = "erased" THEN [kind |-> "keep"] ELSE None
             f == [Accepted(s, staged, {e}) EXCEPT !.mine = @ \cup {e}]
  <2>1. Published(s, staged, next).op = next /\ (next = None \/ next.kind = "keep")
    BY <1>2, AskedOp
  <2>2. Refuse(s) \/ Transaction(s, f, Published(s, staged, next))
    BY <1>6 DEF CommitPublish
  <2> DEFINE x == Published(s, staged, next)
  <2>3. x.op = None \/ x.op.kind = "keep"
    BY <2>1
  <2> HIDE DEF f, x
  <2>4. CASE Transaction(s, f, x)
    BY <1>2, <1>5, <2>3, <2>4
  <2> QED  BY <1>2, <1>4, <2>2, <2>4 DEF x
<1>7. CASE Collect(s)
  <2> DEFINE removed == {r \in Roots \ session[s].op.keep : file[s].bytes[r] # "absent"}
             f == [file[s] EXCEPT !.bytes = [r \in Roots |-> IF r \in removed THEN "absent" ELSE @[r]]]
             x == [Asked(s) EXCEPT !.condemned = @ \ removed,
                                   !.stream = Interrupt(@, removed), !.op = None]
  <2>1. x.op = None
    <3> HIDE DEF removed
    <3> QED  BY <1>2 DEF Session
  <2>2. Transaction(s, f, x) \/ Refuse(s)
    BY <1>7 DEF Collect
  <2> HIDE DEF f, x
  <2>3. CASE Transaction(s, f, x)
    BY <1>2, <1>5, <2>1, <2>3
  <2> QED  BY <1>2, <1>4, <2>2, <2>3 DEF f, x
<1>8. CASE ImportPublish(s)
  <2> DEFINE op == session[s].op
             again == [kind |-> "plan", events |-> op.events, offered |-> op.offered]
             f == Accepted(s, op.staged, op.events)
             met(e) == [Asked(s) EXCEPT !.known = @ \cup {e}, !.op = None]
  <2>1. Published(s, op.staged, None).op = None
    BY <1>2, AskedOp
  <2>2. \A o : [Asked(s) EXCEPT !.op = o].op = o
    BY <1>2, AskedOp
  <2>3. \A e : met(e).op = None
    BY <1>2 DEF Session
  <2>4. again.kind = "plan"
    OBVIOUS
  <2>5. \/ Refuse(s)
        \/ Transaction(s, f, Published(s, op.staged, None))
        \/ \E o \in {again, None} : session' = [session EXCEPT ![s] = [Asked(s) EXCEPT !.op = o]]
        \/ \E e : session' = [session EXCEPT ![s] = met(e)]
    BY <1>8 DEF ImportPublish
  <2> DEFINE x == Published(s, op.staged, None)
             y(o) == [Asked(s) EXCEPT !.op = o]
  <2> HIDE DEF f, x, y, again, met
  <2>6. CASE Transaction(s, f, x)
    BY <1>2, <1>5, <2>1, <2>6 DEF x
  <2>7. ASSUME NEW o \in {again, None}, session' = [session EXCEPT ![s] = y(o)] PROVE Away' = Away
    <3>1. y(o).op = None \/ y(o).op.kind \in {"keep", "plan"}
      BY <2>2, <2>4 DEF y
    <3> QED  BY <1>3, <2>7, <3>1
  <2>8. ASSUME NEW e, session' = [session EXCEPT ![s] = met(e)] PROVE Away' = Away
    BY <1>3, <2>3, <2>8
  <2> QED  BY <1>2, <1>4, <2>5, <2>6, <2>7, <2>8 DEF x, y
<1> QED  BY <1>2, <1>6, <1>7, <1>8

(* An export of a store that has lost nothing begins, goes on, or ends.    *)
LEMMA ExportAway ==
    ASSUME TypeOK, NEW s \in Stores, Export(s) \/ ExportSelect(s) \/ ExportGather(s)
    PROVE  \/ Ends(s)
           \/ s \notin Away /\ Lost[s] = {} /\ Away' = Away \cup {s}
<1>1. PICK y :
         /\ session' = [session EXCEPT ![s] = y]
         /\ \/ session[s].op = None /\ (y.op = None \/ KnownBySurvey(s) = {})
            \/ Working(s, "select") \/ Working(s, "gather")
  BY SelectionSteps
<1>2. CASE y.op = None
  BY <1>1, <1>2, EndsOf
<1>3. CASE session[s].op = None /\ KnownBySurvey(s) = {}
  <2>1. s \notin Away /\ Lost[s] = {}
    BY <1>3 DEF Away, Exporting, Lost, Damaged, KnownBySurvey
  <2> QED  BY <1>1, <2>1, AwayMoves DEF Ends
<1>4. CASE Working(s, "select") \/ Working(s, "gather")
  <2>1. Exporting(s)
    BY <1>4 DEF Working, Running, Exporting
  <2> QED  BY <1>1, <2>1, EndsOf
<1> QED  BY <1>1, <1>2, <1>3, <1>4

LEMMA CopyAway ==
    ASSUME TypeOK, NEW s \in Stores, ExportCopy(s)
    PROVE  s \in Away /\ Away' = Away \ {s} /\ Lost' = Lost
<1>1. PICK y : session' = [session EXCEPT ![s] = y] /\ y.op = None
  BY CopyStep
<1>2. Working(s, "export") /\ UNCHANGED file
  BY CopyStep
<1>3. s \in Away
  BY <1>2 DEF Working, Running, Away, Exporting
<1>4. ~Exporting(s)'
  BY <1>1, AwayMoves DEF Exporting
<1> QED  BY <1>1, <1>2, <1>3, <1>4, AwayMoves, LostSame

(* The stores together are a replicated set, whatever the faults and the   *)
(* crashes: a commit that landed is a Write of an event nobody had, a      *)
(* delivered snapshot a Publish of its store but for rows torn after the   *)
(* survey that began it, an import and a restore a Join of a whole cut, a  *)
(* copied file a Copy; every other step leaves every set as it was.        *)
THEOREM VaultRefines == Spec => IsReplicatedSet
<1>1. Init => Replicated!Init
  BY DEF Init, Replicated!Init, Damaged, Exporting, Opened
<1>2. VaultInv /\ [Next]_vars => [Replicated!Next]_Replicated!vars
  <2> SUFFICES ASSUME VaultInv, [Next]_vars PROVE Replicated!Next \/ UNCHANGED Replicated!vars
    OBVIOUS
  <2>0. TypeOK
    BY DEF VaultInv
  <2>1. ASSUME NEW s \in Stores, Seen' = Seen, Lost' = Lost, Cuts' = Cuts, Ends(s)
        PROVE  Replicated!Next \/ UNCHANGED Replicated!vars
    <3>1. CASE Away' = Away
      BY <2>1, <3>1 DEF Replicated!vars, Seen, Lost, Cuts, Away
    <3>2. CASE Away' = Away \ {s}
      <4>1. Replicated!End(s)
        BY <2>1, <3>2 DEF Replicated!End, Seen, Lost, Cuts, Away
      <4> QED  BY <4>1 DEF Replicated!Next
    <3> QED  BY <2>1, <3>1, <3>2 DEF Ends
  <2>2. ASSUME UNCHANGED <<file, snapshots>> PROVE Seen' = Seen /\ Lost' = Lost /\ Cuts' = Cuts
    BY <2>2 DEF Seen, Lost, Damaged, Cuts
  <2>3. ASSUME NEW s \in Stores,
               \/ \E r \in Roots : OpenStream(s, r)
               \/ EndStream(s)
               \/ \E e \in Drafts(s) : \E staged \in SUBSET e.roots : Commit(s, e, staged)
               \/ Keep(s) \/ (\E x \in snapshots : Import(s, x)) \/ Plan(s)
               \/ Open(s) \/ Close(s) \/ Crash(s)
        PROVE  Replicated!Next \/ UNCHANGED Replicated!vars
    <3>1. Ends(s)
      BY <2>0, <2>3, StreamsEnd, BeginningEnds, OpeningEnds
    <3>2. UNCHANGED <<file, snapshots>>
      BY <2>3 DEF OpenStream, EndStream, Commit, Keep, Import, Plan, Open, Close, Crash
    <3> QED  BY <2>1, <2>2, <3>1, <3>2
  <2>4. ASSUME NEW s \in Stores, CommitPublish(s) \/ Collect(s) \/ ImportPublish(s)
        PROVE  Replicated!Next \/ UNCHANGED Replicated!vars
    <3>1. Quiet \/ Wrote(s) \/ Joined(s)
      BY <2>0, <2>4, CommitMoves, CollectMoves, ImportMoves
    <3>2. s \notin Away /\ Away' = Away /\ Lost' = Lost
      BY <2>0, <2>4, TransactionsAway, LostStays
    <3>3. CASE Quiet
      BY <2>1, <3>2, <3>3, QuietStutters DEF Ends
    <3>4. CASE Wrote(s)
      <4>1. Replicated!Write(s)
        BY <3>2, <3>4, WroteIsWrite DEF Replicated!Write, Seen, Lost, Cuts, Away
      <4> QED  BY <4>1 DEF Replicated!Next
    <3>5. CASE Joined(s)
      <4>1. \E cut \in Cuts : Replicated!Join(s, cut)
        BY <3>2, <3>5, JoinedIsJoin DEF Replicated!Join, Seen, Lost, Cuts, Away
      <4> QED  BY <4>1 DEF Replicated!Next, Cuts
    <3> QED  BY <3>1, <3>3, <3>4, <3>5
  <2>5. ASSUME NEW s \in Stores, Export(s) \/ ExportSelect(s) \/ ExportGather(s)
        PROVE  Replicated!Next \/ UNCHANGED Replicated!vars
    <3>1. Seen' = Seen /\ Lost' = Lost /\ Cuts' = Cuts
      BY <2>0, <2>2, <2>5, SelectionSteps
    <3>2. CASE Ends(s)
      BY <2>1, <3>1, <3>2
    <3>3. CASE s \notin Away /\ Lost[s] = {} /\ Away' = Away \cup {s}
      <4>1. Replicated!Begin(s)
        BY <3>1, <3>3 DEF Replicated!Begin, Seen, Lost, Cuts, Away
      <4> QED  BY <4>1 DEF Replicated!Next
    <3> QED  BY <2>0, <2>5, <3>2, <3>3, ExportAway
  <2>6. ASSUME NEW s \in Stores, ExportCopy(s)
        PROVE  Replicated!Next \/ UNCHANGED Replicated!vars
    <3>1. s \in Away /\ Away' = Away \ {s} /\ Lost' = Lost
      BY <2>0, <2>6, CopyAway
    <3>2. CASE Quiet
      BY <2>1, <3>1, <3>2, QuietStutters DEF Ends
    <3>3. CASE Delivered(s)
      <4>1. PICK cut \in SUBSET Seen[s] :
                Seen' = Seen /\ Seen[s] \ cut \subseteq Lost[s] /\ Cuts' = Cuts \cup {cut}
        BY <3>3, DeliveredIsPublish
      <4>2. Replicated!Publish(s, cut)
        BY <3>1, <4>1 DEF Replicated!Publish, Seen, Lost, Cuts, Away
      <4> QED  BY <4>1, <4>2 DEF Replicated!Next, Seen
    <3> QED  BY <2>0, <2>6, <3>2, <3>3, DeliveryMoves
  <2>7. ASSUME NEW s \in Stores, (\E x \in snapshots : Restore(s, x)) \/ ResetIdentity(s)
        PROVE  Replicated!Next \/ UNCHANGED Replicated!vars
    <3>1. Restored(s) \/ Renewed(s)
      BY <2>0, <2>7, OpeningMoves
    <3>2. Lost' = Lost /\ Ends(s) /\ s \notin Away
      <4>1. session[s] = None
        BY <2>0, <2>7 DEF Restore, ResetIdentity, TypeOK
      <4>2. s \notin Away
        BY <4>1 DEF Away, Exporting
      <4> QED  BY <2>0, <2>7, <4>2, LostStays, OpeningEnds
    <3>3. CASE Renewed(s)
      BY <2>1, <3>2, <3>3, QuietStutters
    <3>4. CASE Restored(s)
      <4>1. Away' = Away
        BY <3>2 DEF Ends
      <4>2. \E cut \in Cuts : Replicated!Join(s, cut)
        BY <3>2, <3>4, <4>1, JoinedIsJoin DEF Replicated!Join, Seen, Lost, Cuts, Away
      <4> QED  BY <4>2 DEF Replicated!Next, Cuts
    <3> QED  BY <3>1, <3>3, <3>4
  <2>8. ASSUME NEW s \in Stores, NEW t \in Stores, CopyFile(s, t)
        PROVE  Replicated!Next \/ UNCHANGED Replicated!vars
    <3>1. {s, t} \cap Away = {} /\ Away' = Away
      BY <2>0, <2>8 DEF CopyFile, TypeOK, Away, Exporting
    <3>2. Replicated!Copy(s, t)
      BY <2>0, <2>8, <3>1, CopiedIsCopy DEF Replicated!Copy, Seen, Lost, Cuts, Away
    <3> QED  BY <3>2 DEF Replicated!Next
  <2>9. ASSUME NEW s \in Stores, Fault(s)
        PROVE  Replicated!Next \/ UNCHANGED Replicated!vars
    <3>1. Seen' = Seen /\ Cuts' = Cuts /\ Away' = Away
      BY <2>0, <2>9, OpeningMoves, QuietStutters DEF Fault, Away, Exporting
    <3>2. CASE Lost' = Lost
      BY <2>1, <3>1, <3>2 DEF Ends
    <3>3. CASE \E e \in Seen[s] : Lost' = [Lost EXCEPT ![s] = @ \cup {e}]
      <4>1. Replicated!Decay(s)
        BY <3>1, <3>3 DEF Replicated!Decay, Seen, Lost, Cuts, Away
      <4> QED  BY <4>1 DEF Replicated!Next
    <3> QED  BY <2>0, <2>9, <3>2, <3>3, FaultLoses
  <2>10. CASE UNCHANGED vars
    BY <2>10 DEF vars, Replicated!vars, Damaged, Exporting
  <2> QED  BY <2>3, <2>4, <2>5, <2>6, <2>7, <2>8, <2>9, <2>10 DEF Next
<1> QED  BY <1>1, <1>2, VaultInductive, PTL DEF Spec, IsReplicatedSet, Replicated!Spec

-----------------------------------------------------------------------------
(* The objects that events hold.                                           *)

Full(f) == \A r \in HeldRoots(f.events) : f.bytes[r] # "absent"

(* What an operation found when it looked, and relies on in its            *)
(* transaction unless damage comes to be known before: an event's roots    *)
(* are staged or there and its intent the first, what is to be kept is all *)
(* that is held, and an import stages or relies on all it lacks.           *)
Rests(op, known, f) ==
    /\ op.kind = "commit" =>
          /\ \A r \in op.draft.roots \ op.staged : f.bytes[r] # "absent"
          /\ known = {} /\ op.draft.kind = "out" => OfKind(f.events, "out") = {}
    /\ op.kind = "collect" =>
          (known = {} /\ f.swapped = {} => HeldRoots(f.events) \subseteq op.keep)
    /\ op.kind = "import" => (known = {} =>
          /\ \A r \in HeldRoots(f.events \cup op.events) : f.bytes[r] # "absent" \/ r \in op.staged
          /\ \A e \in op.events \ f.events :
                RetainedRoots(f.events \cup op.events)[e] \subseteq op.staged \cup op.reused)

(* A survey that found nothing says that no row reads as another.          *)
SessionRests(x, f) ==
    /\ x.surveyed /\ x.known = {} => f.swapped = {}
    /\ x.op # None => Rests(x.op, x.known, f)

StoreRests(s) ==
    /\ file[s] # None => Full(file[s])
    /\ session[s] # None => SessionRests(session[s], file[s])

SnapshotsFull == \A x \in snapshots : HeldRoots(x.events) \subseteq x.objects

HeldInv == (\A s \in Stores : StoreRests(s)) /\ SnapshotsFull

(* An operation that looked at nothing yet relies on nothing.              *)
LEMMA IdleRests ==
    ASSUME NEW o, o.kind \in {"keep", "select", "gather", "export", "plan"}, NEW known, NEW f
    PROVE  Rests(o, known, f)
BY DEF Rests

(* What an operation relies on holds whatever damage comes to be known.    *)
LEMMA RestsStay ==
    ASSUME NEW o, NEW f, NEW k, Rests(o, k, f), NEW l, k \subseteq l
    PROVE  Rests(o, l, f)
<1>1. l = {} => k = {}
  OBVIOUS
<1> QED  BY <1>1 DEF Rests

(* It holds while the file keeps its events and loses no object.           *)
LEMMA RestsKept ==
    ASSUME NEW o \in Operation, NEW f \in File, NEW k, Rests(o, k, f), NEW g,
           g.events = f.events, g.swapped = f.swapped,
           \A r \in Roots : f.bytes[r] # "absent" => g.bytes[r] # "absent"
    PROVE  Rests(o, k, g)
<1>1. o.kind = "commit" => o.draft.roots \subseteq Roots
  BY OperationFields DEF Event
<1>2. o.kind = "import" => HeldRoots(f.events \cup o.events) \subseteq Roots
  BY OperationFields, HeldTyped DEF File
<1> QED  BY <1>1, <1>2 DEF Rests

(* A step at s that leaves it f and x leaves every store's operations      *)
(* what they rely on when s has it.                                        *)
LEMMA StoreStep ==
    ASSUME TypeOK, HeldInv, NEW s \in Stores, NEW f, NEW x,
           file' = [file EXCEPT ![s] = f], session' = [session EXCEPT ![s] = x],
           f = None \/ Full(f),
           x = None \/ SessionRests(x, f)
    PROVE  \A t \in Stores : StoreRests(t)'
<1> SUFFICES ASSUME NEW t \in Stores PROVE StoreRests(t)'
  OBVIOUS
<1>1. CASE t = s
  <2>1. file'[t] = f /\ session'[t] = x
    BY <1>1 DEF TypeOK
  <2> QED  BY <2>1 DEF StoreRests
<1>2. CASE t # s
  <2>1. file'[t] = file[t] /\ session'[t] = session[t]
    BY <1>2 DEF TypeOK
  <2> QED  BY <2>1 DEF HeldInv, StoreRests
<1> QED  BY <1>1, <1>2

(* The same for a step that leaves the files and the snapshots.            *)
LEMMA SessionStep ==
    ASSUME TypeOK, HeldInv, NEW s \in Stores, NEW x,
           session' = [session EXCEPT ![s] = x], UNCHANGED <<file, snapshots>>,
           x = None \/ SessionRests(x, file[s])
    PROVE  HeldInv'
<1>1. file' = [file EXCEPT ![s] = file[s]]
  BY DEF TypeOK
<1>2. file[s] = None \/ Full(file[s])
  BY DEF HeldInv, StoreRests
<1>3. \A t \in Stores : StoreRests(t)'
  BY <1>1, <1>2, StoreStep
<1> QED  BY <1>3 DEF HeldInv, SnapshotsFull

(* A session that knows of more damage and goes on with its operation, or  *)
(* with one that looked at nothing yet, rests on what it did.              *)
LEMMA MoreKnown ==
    ASSUME NEW x, NEW f, SessionRests(x, f), NEW y,
           x.known \subseteq y.known, y.surveyed = x.surveyed,
           y.op \in {x.op, None} \/ y.op.kind \in {"keep", "select", "gather", "export", "plan"}
    PROVE  SessionRests(y, f)
<1>1. y.known = {} => x.known = {}
  OBVIOUS
<1>2. y.op = x.op /\ y.op # None => Rests(y.op, y.known, f)
  BY RestsStay DEF SessionRests
<1>3. y.op.kind \in {"keep", "select", "gather", "export", "plan"} => Rests(y.op, y.known, f)
  BY IdleRests
<1> QED  BY <1>1, <1>2, <1>3 DEF SessionRests

(* One that surveyed its file knows what is swapped.                       *)
LEMMA SurveyRests ==
    ASSUME NEW s \in Stores, NEW y, KnownBySurvey(s) \subseteq y.known,
           y.op = None \/ y.op.kind \in {"keep", "select", "gather", "export", "plan"}
    PROVE  SessionRests(y, file[s])
<1>1. y.known = {} => file[s].swapped = {}
  BY DEF KnownBySurvey
<1> QED  BY <1>1, IdleRests DEF SessionRests

(* Asking for soundness is one or the other.                               *)
LEMMA AskedRests ==
    ASSUME TypeOK, HeldInv, NEW s \in Stores, session[s] # None, NEW y,
           Asked(s).known \subseteq y.known, y.surveyed = Asked(s).surveyed,
           y.op = None \/ y.op.kind \in {"keep", "select", "gather", "export", "plan"}
    PROVE  SessionRests(y, file[s])
<1>1. session[s] \in Session /\ SessionRests(session[s], file[s])
  BY SessionTyped DEF HeldInv, StoreRests
<1>2. CASE Asked(s) = session[s]
  BY <1>1, <1>2, MoreKnown
<1>3. CASE Asked(s) = [session[s] EXCEPT !.surveyed = TRUE, !.known = KnownBySurvey(s)]
  <2>1. Asked(s).known = KnownBySurvey(s)
    BY <1>1, <1>3 DEF Session
  <2> QED  BY <2>1, SurveyRests
<1> QED  BY <1>2, <1>3 DEF Asked

(* One transaction: the file it leaves is full, and the session goes on    *)
(* with an operation that looked at nothing yet, or none.                  *)
LEMMA TransactionStep ==
    ASSUME TypeOK, HeldInv, NEW s \in Stores, session[s] # None, file[s] # None,
           NEW f, NEW x, Transaction(s, f, x),
           Full(f), f.swapped = file[s].swapped,
           Asked(s).known \subseteq x.known, x.surveyed = Asked(s).surveyed,
           x.op = None \/ x.op.kind \in {"keep", "select", "gather", "export", "plan"}
    PROVE  HeldInv'
<1> DEFINE stopped == [session[s] EXCEPT !.stopped = TRUE, !.op = None]
<1>1. stopped.known = session[s].known /\ stopped.surveyed = session[s].surveyed /\ stopped.op = None
  BY SessionTyped DEF Session
<1>2. SessionRests(session[s], file[s]) /\ Full(file[s])
  BY DEF HeldInv, StoreRests
<1> HIDE DEF stopped
<1>3. SessionRests(stopped, file[s]) /\ SessionRests(x, file[s])
  BY <1>1, <1>2, MoreKnown, AskedRests
<1>4. \A y \in {x, stopped} : SessionRests(y, f)
  <2> SUFFICES ASSUME NEW y \in {x, stopped} PROVE SessionRests(y, f)
    OBVIOUS
  <2>1. SessionRests(y, file[s]) /\ (y.op = None \/ y.op.kind \in {"keep", "select", "gather", "export", "plan"})
    BY <1>1, <1>3
  <2> QED  BY <2>1, IdleRests DEF SessionRests
<1>5. PICK y \in {x, stopped}, g \in {f, file[s]} :
         file' = [file EXCEPT ![s] = g] /\ session' = [session EXCEPT ![s] = y]
  <2>1. file = [file EXCEPT ![s] = file[s]]
    BY DEF TypeOK
  <2> QED  BY <2>1 DEF Transaction, stopped
<1>6. Full(g) /\ SessionRests(y, g)
  BY <1>2, <1>3, <1>4, <1>5
<1>7. \A t \in Stores : StoreRests(t)'
  BY <1>5, <1>6, StoreStep
<1> QED  BY <1>7 DEF HeldInv, SnapshotsFull, Transaction

-----------------------------------------------------------------------------
(* The folds over what events retain. *)

LEMMA RetainedAt ==
    ASSUME NEW E, NEW e \in E
    PROVE  /\ RetainedRoots(E)[e] = IF e.kind = "prepared" /\ Released(E) THEN {} ELSE
                                    IF e.kind \in {"out", "prepared"} THEN e.roots \ Erased(E)
                                    ELSE e.roots
           /\ RetainedRoots(E)[e] \subseteq e.roots
BY DEF RetainedRoots

LEMMA HeldMember ==
    ASSUME NEW E, NEW r
    PROVE  r \in HeldRoots(E) <=> \E e \in E : r \in RetainedRoots(E)[e]
BY DEF HeldRoots

(* A message that was released stays so with one event more, unless that   *)
(* is an intent.                                                           *)
LEMMA ReleasedStays ==
    ASSUME NEW E, NEW e, e.kind = "out" => OfKind(E, "out") = {}, Released(E)
    PROVE  Released(E \cup {e})
<1>1. OfKind(E, "out") # {}
  <2> SUFFICES ASSUME OfKind(E, "out") = {} PROVE FALSE
    OBVIOUS
  <2>1. {x.roots : x \in OfKind(E, "out")} = {}
    OBVIOUS
  <2>2. Cardinality({x.roots : x \in OfKind(E, "out")}) = 0
    BY <2>1, FS_EmptySet
  <2> QED  BY <2>2 DEF Released
<1>2. OfKind(E \cup {e}, "out") = OfKind(E, "out")
  BY <1>1 DEF OfKind
<1>3. OfKind(E, "ended") \subseteq OfKind(E \cup {e}, "ended")
  BY DEF OfKind
<1> QED  BY <1>2, <1>3 DEF Released

(* One event more holds no roots but its own besides those held before,    *)
(* when it is no further intent of the message.                            *)
LEMMA HeldGrows ==
    ASSUME NEW E, NEW e, e.kind = "out" => OfKind(E, "out") = {}
    PROVE  HeldRoots(E \cup {e}) \subseteq HeldRoots(E) \cup e.roots
<1> DEFINE F == E \cup {e}
<1> SUFFICES ASSUME NEW r \in HeldRoots(F), r \notin e.roots PROVE r \in HeldRoots(E)
  OBVIOUS
<1>1. PICK x \in F : r \in RetainedRoots(F)[x]
  BY HeldMember
<1>2. x \in E
  BY <1>1, RetainedAt
<1>3. Released(E) => Released(F)
  BY ReleasedStays
<1>4. Erased(E) \subseteq Erased(F)
  BY DEF Erased, OfKind
<1>5. r \in RetainedRoots(E)[x]
  <2>1. /\ RetainedRoots(F)[x] = IF x.kind = "prepared" /\ Released(F) THEN {} ELSE
                                 IF x.kind \in {"out", "prepared"} THEN x.roots \ Erased(F) ELSE x.roots
        /\ RetainedRoots(E)[x] = IF x.kind = "prepared" /\ Released(E) THEN {} ELSE
                                 IF x.kind \in {"out", "prepared"} THEN x.roots \ Erased(E) ELSE x.roots
    BY <1>1, <1>2, RetainedAt
  <2> HIDE DEF F
  <2> QED  BY <1>1, <1>3, <1>4, <2>1
<1> QED  BY <1>2, <1>5, HeldMember

(* What an acceptance leaves: the events with the new ones, every staged   *)
(* object there and none lost; one staged that was known damaged is sound. *)
LEMMA AcceptedObjects ==
    ASSUME NEW s \in Stores, file[s] \in File, NEW staged \in SUBSET Roots, NEW E
    PROVE  LET f == Accepted(s, staged, E)
           IN  /\ f.events = file[s].events \cup E
               /\ f.swapped = file[s].swapped /\ f.mine = file[s].mine
               /\ \A r \in staged : f.bytes[r] # "absent"
               /\ \A r \in Roots : file[s].bytes[r] # "absent" => f.bytes[r] # "absent"
               /\ \A r \in staged \cap session[s].condemned : f.bytes[r] = "sound"
<1> DEFINE f == Accepted(s, staged, E)
           bytes == [r \in Roots |-> IF r \in Replaced(s, staged) THEN "sound" ELSE file[s].bytes[r]]
<1>1. f.events = file[s].events \cup E /\ f.swapped = file[s].swapped /\ f.mine = file[s].mine
      /\ f.bytes = bytes
  BY DEF Accepted, File
<1>2. \A r \in Roots : bytes[r] = IF r \in Replaced(s, staged) THEN "sound" ELSE file[s].bytes[r]
  OBVIOUS
<1>3. \A r \in staged : r \notin Replaced(s, staged) =>
         file[s].bytes[r] # "absent" /\ r \notin session[s].condemned
  BY DEF Replaced, StateOf
<1> HIDE DEF f, bytes
<1> QED  BY <1>1, <1>2, <1>3 DEF f

LEMMA StateSound ==
    ASSUME NEW s, NEW r, StateOf(s, r) = "sound"
    PROVE  file[s].bytes[r] # "absent"
BY DEF StateOf

(* While nothing is known damaged, a scan reads every event of a file with *)
(* no row swapped, and every event's kind of any.                          *)
LEMMA CleanScan ==
    ASSUME NEW s \in Stores, file[s] \in File, KnownByScan(s) = {}
    PROVE  /\ file[s].swapped = {} => Scan(s) = file[s].events
           /\ \A k : OfKind(Scan(s), k) = {} => OfKind(file[s].events, k) = {}
<1>1. file[s].torn = {} /\ session[s].known = {}
  BY DEF KnownByScan
<1>2. Scan(s) = {Decoded(s, e) : e \in file[s].events}
  BY <1>1 DEF Scan
<1>3. file[s].swapped = {} => \A e : Decoded(s, e) = e
  BY DEF Decoded
<1>4. \A e \in file[s].events : Decoded(s, e).kind = e.kind
  BY DEF Decoded, File, Event
<1> QED  BY <1>2, <1>3, <1>4 DEF OfKind

-----------------------------------------------------------------------------
(* Every step keeps it. *)

LEMMA RefuseHeld ==
    ASSUME TypeOK, HeldInv, NEW s \in Stores, session[s] # None, Refuse(s)
    PROVE  HeldInv'
<1> DEFINE y == [Asked(s) EXCEPT !.op = None]
<1>1. y.known = Asked(s).known /\ y.surveyed = Asked(s).surveyed /\ y.op = None
  BY KnownTyped DEF Session
<1>2. session' = [session EXCEPT ![s] = y] /\ UNCHANGED <<file, snapshots>>
  BY DEF Refuse
<1> HIDE DEF y
<1> QED  BY <1>1, <1>2, AskedRests, SessionStep

LEMMA StreamsHeld ==
    ASSUME TypeOK, HeldInv, NEW s \in Stores,
           (\E r \in Roots : OpenStream(s, r)) \/ EndStream(s)
    PROVE  HeldInv'
<1>1. session[s] # None /\ UNCHANGED <<file, snapshots>>
  BY RunningOpen DEF OpenStream, EndStream
<1>2. session[s] \in Session /\ SessionRests(session[s], file[s])
  BY <1>1, SessionTyped DEF HeldInv, StoreRests
<1>3. PICK y : /\ session' = [session EXCEPT ![s] = y]
               /\ y.known = session[s].known /\ y.surveyed = session[s].surveyed /\ y.op = session[s].op
  <2>1. CASE EndStream(s)
    <3> DEFINE y == [session[s] EXCEPT !.stream = None, !.condemned = @ \cup Condemns(session[s].stream)]
    <3>1. y.known = session[s].known /\ y.surveyed = session[s].surveyed /\ y.op = session[s].op
      BY <1>2 DEF Session
    <3>2. session' = [session EXCEPT ![s] = y]
      BY <2>1 DEF EndStream, TypeOK
    <3> QED  BY <3>1, <3>2
  <2>2. CASE \E r \in Roots : OpenStream(s, r)
    <3>1. PICK r \in Roots : OpenStream(s, r)
      BY <2>2
    <3> DEFINE y == [session[s] EXCEPT !.stream = [cid |-> r, stale |-> FALSE]]
    <3>2. y.known = session[s].known /\ y.surveyed = session[s].surveyed /\ y.op = session[s].op
      BY <1>2 DEF Session
    <3>3. session' = [session EXCEPT ![s] = y]
      BY <3>1 DEF OpenStream, TypeOK
    <3> QED  BY <3>2, <3>3
  <2> QED  BY <2>1, <2>2
<1> QED  BY <1>1, <1>2, <1>3, MoreKnown, SessionStep

(* An operation that looked, and a session that knows what its scan met.   *)
LEMMA BegunRests ==
    ASSUME NEW x, NEW f, SessionRests(x, f), NEW o, NEW k, x.known \subseteq k,
           Rests(o, k, f), NEW y, y.known = k, y.surveyed = x.surveyed, y.op = o
    PROVE  SessionRests(y, f)
BY DEF SessionRests

LEMMA FirstIntent ==
    ASSUME NEW s, NEW e \in Drafts(s), e.kind = "out"
    PROVE  OfKind(Scan(s), "out") = {}
BY DEF Drafts

LEMMA CommitHeld ==
    ASSUME TypeOK, HeldInv, NEW s \in Stores,
           NEW e \in Drafts(s), NEW staged \in SUBSET e.roots, Commit(s, e, staged)
    PROVE  HeldInv'
<1> DEFINE o == [kind |-> "commit", draft |-> e, staged |-> staged]
           y == [session[s] EXCEPT !.op = o, !.known = KnownByScan(s)]
<1>1. session[s] # None
  BY RunningOpen DEF Commit
<1>2. session[s] \in Session /\ file[s] \in File /\ SessionRests(session[s], file[s])
  BY <1>1, SessionTyped DEF HeldInv, StoreRests
<1>3. y.op = o /\ y.known = KnownByScan(s) /\ y.surveyed = session[s].surveyed
  BY <1>2 DEF Session
<1>4. session' = [session EXCEPT ![s] = y] /\ UNCHANGED <<file, snapshots>>
  BY DEF Commit, TypeOK
<1>5. Rests(o, KnownByScan(s), file[s])
  <2>1. \A r \in e.roots \ staged : file[s].bytes[r] # "absent"
    BY StateSound DEF Commit
  <2>2. KnownByScan(s) = {} /\ e.kind = "out" => OfKind(file[s].events, "out") = {}
    BY <1>2, CleanScan, FirstIntent
  <2>3. o.kind = "commit" /\ o.draft = e /\ o.staged = staged
    OBVIOUS
  <2> HIDE DEF o
  <2> QED  BY <2>1, <2>2, <2>3 DEF Rests
<1>6. session[s].known \subseteq KnownByScan(s)
  BY DEF KnownByScan
<1> HIDE DEF y, o
<1>7. SessionRests(y, file[s])
  BY <1>2, <1>3, <1>5, <1>6, BegunRests
<1> QED  BY <1>4, <1>7, SessionStep

(* A transaction that asks for soundness finds no damage known.            *)
LEMMA SoundRests ==
    ASSUME HeldInv, NEW s \in Stores, session[s] # None, RequireSound(s)
    PROVE  session[s].known = {} /\ file[s].swapped = {}
<1>1. session[s].known = {} /\ (session[s].surveyed \/ KnownBySurvey(s) = {})
  BY DEF RequireSound
<1>2. KnownBySurvey(s) = {} => file[s].swapped = {}
  BY DEF KnownBySurvey
<1> QED  BY <1>1, <1>2 DEF HeldInv, StoreRests, SessionRests

LEMMA PublishedFields ==
    ASSUME TypeOK, NEW s \in Stores, session[s] # None, NEW staged, NEW o
    PROVE  LET x == Published(s, staged, o)
           IN  x.known = Asked(s).known /\ x.surveyed = Asked(s).surveyed /\ x.op = o
BY KnownTyped DEF Published, Session

(* A commit leaves a full file: the new event's roots are staged or there, *)
(* and it holds no others that were let go.                                *)
LEMMA CommitFull ==
    ASSUME TypeOK, HeldInv, NEW s \in Stores, Working(s, "commit"), RequireSound(s)
    PROVE  Full(Accepted(s, session[s].op.staged, {session[s].op.draft}))
<1> DEFINE e == session[s].op.draft
           staged == session[s].op.staged
           f == Accepted(s, staged, {e})
<1>1. /\ session[s] # None /\ file[s] # None /\ file[s] \in File
      /\ session[s].op \in Operation /\ session[s].op.kind = "commit"
  BY WorkingTyped
<1>2. e \in Event /\ staged \in SUBSET Roots
  BY <1>1, OperationFields
<1>3. Full(file[s]) /\ Rests(session[s].op, session[s].known, file[s])
  BY <1>1, NoneAssumption DEF HeldInv, StoreRests, SessionRests
<1>4. session[s].known = {}
  BY DEF RequireSound
<1>5. HeldRoots(file[s].events \cup {e}) \subseteq HeldRoots(file[s].events) \cup e.roots
  <2>1. e.kind = "out" => OfKind(file[s].events, "out") = {}
    BY <1>1, <1>3, <1>4 DEF Rests
  <2> QED  BY <2>1, HeldGrows
<1>6. HeldRoots(file[s].events) \subseteq Roots /\ e.roots \subseteq Roots
  BY <1>1, <1>2, HeldTyped DEF File, Event
<1>7. \A r \in e.roots \ staged : file[s].bytes[r] # "absent"
  BY <1>1, <1>3 DEF Rests
<1>8. /\ f.events = file[s].events \cup {e}
      /\ \A r \in staged : f.bytes[r] # "absent"
      /\ \A r \in Roots : file[s].bytes[r] # "absent" => f.bytes[r] # "absent"
  BY <1>1, <1>2, AcceptedObjects
<1> HIDE DEF f, e, staged
<1>9. Full(f)
  BY <1>3, <1>5, <1>6, <1>7, <1>8 DEF Full
<1> QED  BY <1>9 DEF f, e, staged

LEMMA CommitPublishHeld ==
    ASSUME TypeOK, HeldInv, NEW s \in Stores, CommitPublish(s)
    PROVE  HeldInv'
<1> DEFINE e == session[s].op.draft
           staged == session[s].op.staged
           next == IF e.kind = "erased" THEN [kind |-> "keep"] ELSE None
           g == Accepted(s, staged, {e})
           f == [g EXCEPT !.mine = @ \cup {e}]
           x == Published(s, staged, next)
<1>1. Working(s, "commit") /\ session[s] # None /\ file[s] # None /\ file[s] \in File
  BY WorkingTyped DEF CommitPublish
<1>2. staged \in SUBSET Roots /\ e \in Event
  BY <1>1, WorkingTyped, OperationFields
<1>3. x.known = Asked(s).known /\ x.surveyed = Asked(s).surveyed /\ x.op = next
      /\ (next = None \/ next.kind = "keep")
  BY <1>1, PublishedFields
<1>4. CASE Refuse(s)
  BY <1>1, <1>4, RefuseHeld
<1>5. CASE RequireSound(s) /\ Transaction(s, f, x)
  <2>1. g \in File /\ g.swapped = file[s].swapped
    BY <1>1, <1>2, AcceptedTyped, AcceptedObjects
  <2>2. f.swapped = g.swapped /\ f.events = g.events /\ f.bytes = g.bytes
    <3> HIDE DEF g, e
    <3> QED  BY <2>1 DEF File
  <2>3. Full(f)
    BY <1>1, <1>5, <2>2, CommitFull DEF Full
  <2> HIDE DEF f, x, next, g
  <2> QED  BY <1>1, <1>3, <1>5, <2>1, <2>2, <2>3, TransactionStep
<1> QED  BY <1>4, <1>5 DEF CommitPublish

LEMMA KeepHeld ==
    ASSUME TypeOK, HeldInv, NEW s \in Stores, Keep(s)
    PROVE  HeldInv'
<1> DEFINE o == [kind |-> "collect", keep |-> HeldRoots(Scan(s))]
           y == [session[s] EXCEPT !.op = o, !.known = KnownByScan(s)]
<1>1. session[s] # None
  BY RunningOpen DEF Keep
<1>2. session[s] \in Session /\ file[s] \in File /\ SessionRests(session[s], file[s])
  BY <1>1, SessionTyped DEF HeldInv, StoreRests
<1>3. y.op = o /\ y.known = KnownByScan(s) /\ y.surveyed = session[s].surveyed
  BY <1>2 DEF Session
<1>4. session' = [session EXCEPT ![s] = y] /\ UNCHANGED <<file, snapshots>>
  BY DEF Keep, TypeOK
<1>5. Rests(o, KnownByScan(s), file[s])
  <2>1. KnownByScan(s) = {} /\ file[s].swapped = {} => Scan(s) = file[s].events
    BY <1>2, CleanScan
  <2>2. o.kind = "collect" /\ o.keep = HeldRoots(Scan(s))
    OBVIOUS
  <2> HIDE DEF o
  <2> QED  BY <2>1, <2>2 DEF Rests
<1>6. session[s].known \subseteq KnownByScan(s)
  BY DEF KnownByScan
<1> HIDE DEF y, o
<1>7. SessionRests(y, file[s])
  BY <1>2, <1>3, <1>5, <1>6, BegunRests
<1> QED  BY <1>4, <1>7, SessionStep

(* Nothing is removed that is held: the keep set is of all the events, as  *)
(* no damage is known at the end and none was passed over.                 *)
LEMMA CollectHeld ==
    ASSUME TypeOK, HeldInv, NEW s \in Stores, Collect(s)
    PROVE  HeldInv'
<1> DEFINE removed == {r \in Roots \ session[s].op.keep : file[s].bytes[r] # "absent"}
           bytes == [r \in Roots |-> IF r \in removed THEN "absent" ELSE file[s].bytes[r]]
           f == [file[s] EXCEPT !.bytes = [r \in Roots |-> IF r \in removed THEN "absent" ELSE @[r]]]
           x == [Asked(s) EXCEPT !.condemned = @ \ removed,
                                 !.stream = Interrupt(@, removed), !.op = None]
<1>1. /\ session[s] # None /\ file[s] # None /\ file[s] \in File /\ Asked(s) \in Session
      /\ session[s].op \in Operation /\ session[s].op.kind = "collect"
  BY WorkingTyped, KnownTyped DEF Collect
<1>2. x.known = Asked(s).known /\ x.surveyed = Asked(s).surveyed /\ x.op = None
  <2> HIDE DEF removed
  <2> QED  BY <1>1 DEF Session
<1>3. CASE Refuse(s)
  BY <1>1, <1>3, RefuseHeld
<1>4. CASE RequireSound(s) /\ Transaction(s, f, x)
  <2>1. f.events = file[s].events /\ f.swapped = file[s].swapped /\ f.bytes = bytes
    BY <1>1 DEF File
  <2>2. Full(file[s]) /\ Rests(session[s].op, session[s].known, file[s])
    BY <1>1, NoneAssumption DEF HeldInv, StoreRests, SessionRests
  <2>3. HeldRoots(file[s].events) \subseteq session[s].op.keep
    BY <1>1, <1>4, <2>2, SoundRests DEF Rests
  <2>4. HeldRoots(file[s].events) \subseteq Roots
    BY <1>1, HeldTyped DEF File
  <2>5. Full(f)
    <3>1. \A r \in Roots \cap session[s].op.keep : bytes[r] = file[s].bytes[r]
      OBVIOUS
    <3> HIDE DEF bytes, f
    <3> QED  BY <2>1, <2>2, <2>3, <2>4, <3>1 DEF Full
  <2> HIDE DEF f, x, bytes, removed
  <2> QED  BY <1>1, <1>2, <1>4, <2>1, <2>5, TransactionStep
<1> QED  BY <1>3, <1>4 DEF Collect, MayCollect

(* An export looks at nothing a transaction of the file relies on, and the *)
(* validation of what it delivers finds every object its events hold.      *)
LEMMA ExportHeld ==
    ASSUME TypeOK, HeldInv, NEW s \in Stores,
           Export(s) \/ ExportSelect(s) \/ ExportGather(s)
    PROVE  HeldInv'
<1>1. session[s] # None /\ session[s] \in Session /\ UNCHANGED <<file, snapshots>>
  BY SelectionSteps
<1>2. SessionRests(session[s], file[s])
  BY <1>1 DEF HeldInv, StoreRests
<1>3. PICK y :
         /\ session' = [session EXCEPT ![s] = y]
         /\ y.op = None \/ y.op.kind \in {"select", "gather", "export"}
         /\ \/ y.known = KnownBySurvey(s)
            \/ y.known = KnownByScan(s) /\ y.surveyed = session[s].surveyed
  BY SelectionSteps
<1>4. SessionRests(y, file[s])
  <2>1. CASE y.known = KnownBySurvey(s)
    BY <1>3, <2>1, SurveyRests
  <2>2. CASE y.known = KnownByScan(s) /\ y.surveyed = session[s].surveyed
    <3>1. session[s].known \subseteq y.known
      BY <2>2 DEF KnownByScan
    <3> QED  BY <1>2, <1>3, <2>2, <3>1, MoreKnown
  <2> QED  BY <1>3, <2>1, <2>2
<1> QED  BY <1>1, <1>3, <1>4, SessionStep

LEMMA ExportCopyHeld ==
    ASSUME TypeOK, HeldInv, NEW s \in Stores, ExportCopy(s)
    PROVE  HeldInv'
<1>1. session[s] # None /\ file[s] # None /\ UNCHANGED file
  BY CopyStep
<1>2. PICK y : /\ session' = [session EXCEPT ![s] = y]
               /\ y.known = session[s].known /\ y.surveyed = session[s].surveyed /\ y.op = None
  BY CopyStep
<1>3. Full(file[s]) /\ SessionRests(session[s], file[s])
  BY <1>1 DEF HeldInv, StoreRests
<1>4. file' = [file EXCEPT ![s] = file[s]]
  BY <1>1 DEF TypeOK
<1>5. \A t \in Stores : StoreRests(t)'
  <2>1. SessionRests(y, file[s])
    BY <1>2, <1>3, MoreKnown
  <2> QED  BY <1>2, <1>3, <1>4, <2>1, StoreStep
<1>6. \A z \in snapshots' : z \in snapshots \/ HeldRoots(z.events) \subseteq z.objects
  BY CopyStep
<1>7. \A z \in snapshots' : HeldRoots(z.events) \subseteq z.objects
  BY <1>6 DEF HeldInv, SnapshotsFull
<1> QED  BY <1>5, <1>7 DEF HeldInv, SnapshotsFull

LEMMA ImportHeld ==
    ASSUME TypeOK, HeldInv, NEW s \in Stores, NEW x \in snapshots, Import(s, x)
    PROVE  HeldInv'
<1> DEFINE surveyed == [session[s] EXCEPT !.surveyed = TRUE, !.known = KnownBySurvey(s)]
           op == [kind |-> "plan", events |-> x.events, offered |-> x.objects]
<1>1. session[s] # None /\ session[s].op = None /\ UNCHANGED <<file, snapshots>>
  BY RunningOpen DEF Import, Unlocked
<1>2. session[s] \in Session
  BY <1>1, SessionTyped
<1>3. PICK y \in {surveyed, [surveyed EXCEPT !.op = op]} : session' = [session EXCEPT ![s] = y]
  BY DEF Import
<1>4. y.known = KnownBySurvey(s) /\ (y.op = None \/ y.op.kind = "plan")
  <2>1. surveyed.op = None /\ surveyed.known = KnownBySurvey(s)
    BY <1>1, <1>2 DEF Session
  <2>2. LET z == [surveyed EXCEPT !.op = op] IN z.op = op /\ z.known = KnownBySurvey(s)
    BY <1>2 DEF Session
  <2>3. op.kind = "plan"
    OBVIOUS
  <2> HIDE DEF surveyed, op
  <2> QED  BY <1>3, <2>1, <2>2, <2>3
<1> HIDE DEF surveyed, op
<1>5. SessionRests(y, file[s])
  BY <1>4, SurveyRests
<1> QED  BY <1>1, <1>3, <1>5, SessionStep

(* What a plan lets through is held already, there, or staged; what a new  *)
(* event retains is staged or relied on by name.                           *)
LEMMA PlanCovers ==
    ASSUME NEW s \in Stores, NEW E, NEW offered, Full(file[s]),
           Scan(s) = file[s].events, ~Incomplete(s, E, offered)
    PROVE  LET union == file[s].events \cup E
           IN  /\ \A r \in HeldRoots(union) :
                     file[s].bytes[r] # "absent" \/ r \in ToStage(s, E, offered)
               /\ \A e \in E \ file[s].events :
                     RetainedRoots(union)[e] \subseteq ToStage(s, E, offered) \cup ToReuse(s, E, offered)
<1> DEFINE union == file[s].events \cup E
<1>1. Union(s, E) = union /\ Fresh(s, E) = E \ file[s].events
  BY DEF Union, Fresh
<1>2. \A r : r \in Required(s, E) <=>
            \/ \E e \in E \ file[s].events : r \in RetainedRoots(union)[e]
            \/ r \in HeldRoots(union) /\ r \notin HeldRoots(file[s].events)
  <2>1. \A r : r \in Required(s, E) <=>
              \/ \E e \in Fresh(s, E) : r \in RetainedRoots(Union(s, E))[e]
              \/ /\ \E e \in Union(s, E) : r \in RetainedRoots(Union(s, E))[e]
                 /\ r \notin HeldRoots(Scan(s))
    <3> DEFINE fresh == UNION {RetainedRoots(Union(s, E))[e] : e \in Fresh(s, E)}
               whole == UNION {RetainedRoots(Union(s, E))[e] : e \in Union(s, E)}
    <3>1. Required(s, E) = fresh \cup (whole \ HeldRoots(Scan(s)))
      BY DEF Required
    <3> QED  BY <3>1
  <2> QED  BY <1>1, <2>1, HeldMember
<1>3. \A r \in Required(s, E) : StateOf(s, r) = "sound" \/ r \in offered
  BY DEF Incomplete
<1>4. ASSUME NEW r \in HeldRoots(union), r \in Required(s, E)
      PROVE  r \in ToStage(s, E, offered) \/ (r \in ToReuse(s, E, offered) /\ StateOf(s, r) = "sound")
  BY <1>1, <1>3, <1>4 DEF ToStage, ToReuse
<1>5. ASSUME NEW r \in HeldRoots(union)
      PROVE  file[s].bytes[r] # "absent" \/ r \in ToStage(s, E, offered)
  <2>1. CASE r \in Required(s, E)
    BY <1>4, <2>1, StateSound
  <2>2. CASE r \in HeldRoots(file[s].events)
    BY <2>2 DEF Full
  <2> HIDE DEF union
  <2> QED  BY <1>2, <1>5, <2>1, <2>2
<1>6. ASSUME NEW e \in E \ file[s].events, NEW r \in RetainedRoots(union)[e]
      PROVE  r \in ToStage(s, E, offered) \cup ToReuse(s, E, offered)
  <2>1. r \in HeldRoots(union)
    BY <1>6, HeldMember
  <2>2. r \in Required(s, E)
    <3> HIDE DEF union
    <3> QED  BY <1>2, <1>6
  <2> QED  BY <1>4, <2>1, <2>2
<1> QED  BY <1>5, <1>6

LEMMA PlanHeld ==
    ASSUME TypeOK, OperationsSound, HeldInv, NEW s \in Stores, Plan(s)
    PROVE  HeldInv'
<1> DEFINE E == session[s].op.events
           offered == session[s].op.offered
           plan == [kind |-> "import", events |-> E, offered |-> offered,
                    staged |-> ToStage(s, E, offered), reused |-> ToReuse(s, E, offered)]
<1>1. /\ session[s] # None /\ session[s] \in Session /\ file[s] # None /\ file[s] \in File
      /\ session[s].op \in Operation /\ session[s].op.kind = "plan"
      /\ UNCHANGED <<file, snapshots>>
  BY WorkingTyped DEF Plan
<1>2. file[s].swapped = {}
  BY <1>1, NoneAssumption DEF OperationsSound, OperationSound
<1>3. PICK o : /\ session' = [session EXCEPT ![s] = [session[s] EXCEPT !.known = KnownByScan(s), !.op = o]]
               /\ o = None \/ (o = plan /\ ~Incomplete(s, E, offered))
  BY DEF Plan, TypeOK
<1> DEFINE y == [session[s] EXCEPT !.known = KnownByScan(s), !.op = o]
<1>4. y.op = o /\ y.known = KnownByScan(s) /\ y.surveyed = session[s].surveyed
  BY <1>1 DEF Session
<1>5. Full(file[s]) /\ SessionRests(session[s], file[s])
  BY <1>1 DEF HeldInv, StoreRests
<1>6. session[s].known \subseteq KnownByScan(s)
  BY DEF KnownByScan
<1>7. SessionRests(y, file[s])
  <2>1. CASE o = None
    <3> HIDE DEF y
    <3> QED  BY <1>4, <1>5, <1>6, <2>1, MoreKnown
  <2>2. CASE o = plan /\ ~Incomplete(s, E, offered)
    <3>1. ASSUME KnownByScan(s) = {}
          PROVE  /\ \A r \in HeldRoots(file[s].events \cup E) :
                        file[s].bytes[r] # "absent" \/ r \in ToStage(s, E, offered)
                 /\ \A e \in E \ file[s].events :
                        RetainedRoots(file[s].events \cup E)[e]
                          \subseteq ToStage(s, E, offered) \cup ToReuse(s, E, offered)
      <4>1. Scan(s) = file[s].events
        BY <1>1, <1>2, <3>1, CleanScan
      <4> HIDE DEF E, offered
      <4> QED  BY <1>5, <2>2, <4>1, PlanCovers
    <3>2. o.kind = "import" /\ o.events = E /\ o.staged = ToStage(s, E, offered)
          /\ o.reused = ToReuse(s, E, offered)
      BY <2>2
    <3> HIDE DEF E, offered, plan, y
    <3>3. Rests(o, KnownByScan(s), file[s])
      BY <3>1, <3>2 DEF Rests
    <3> QED  BY <1>4, <1>5, <1>6, <3>3, BegunRests
  <2> QED  BY <1>3, <2>1, <2>2
<1> HIDE DEF y
<1> QED  BY <1>1, <1>3, <1>7, SessionStep DEF y

(* The file an import leaves is full: it was when it was planned, and the  *)
(* lock let nobody else change it.                                         *)
LEMMA ImportFull ==
    ASSUME TypeOK, HeldInv, NEW s \in Stores, Working(s, "import"), RequireSound(s)
    PROVE  Full(Accepted(s, session[s].op.staged, session[s].op.events))
<1> DEFINE E == session[s].op.events
           staged == session[s].op.staged
           f == Accepted(s, staged, E)
<1>1. /\ session[s] # None /\ file[s] # None /\ file[s] \in File
      /\ session[s].op \in Operation /\ session[s].op.kind = "import"
  BY WorkingTyped
<1>2. E \in SUBSET Event /\ staged \in SUBSET Roots
  BY <1>1, OperationFields
<1>3. Rests(session[s].op, session[s].known, file[s])
  BY <1>1, NoneAssumption DEF HeldInv, StoreRests, SessionRests
<1>4. \A r \in HeldRoots(file[s].events \cup E) : file[s].bytes[r] # "absent" \/ r \in staged
  BY <1>1, <1>3 DEF Rests, RequireSound
<1>5. HeldRoots(file[s].events \cup E) \subseteq Roots
  BY <1>1, <1>2, HeldTyped DEF File
<1>6. /\ f.events = file[s].events \cup E
      /\ \A r \in staged : f.bytes[r] # "absent"
      /\ \A r \in Roots : file[s].bytes[r] # "absent" => f.bytes[r] # "absent"
  <2> HIDE DEF E, staged
  <2> QED  BY <1>1, <1>2, AcceptedObjects
<1> HIDE DEF f, E, staged
<1>7. Full(f)
  BY <1>4, <1>5, <1>6 DEF Full
<1> QED  BY <1>7 DEF f, E, staged

LEMMA ImportPublishHeld ==
    ASSUME TypeOK, HeldInv, NEW s \in Stores, ImportPublish(s)
    PROVE  HeldInv'
<1> DEFINE op == session[s].op
           again == [kind |-> "plan", events |-> op.events, offered |-> op.offered]
           f == Accepted(s, op.staged, op.events)
           x == Published(s, op.staged, None)
<1>1. /\ Working(s, "import") /\ session[s] # None /\ file[s] # None /\ file[s] \in File
      /\ op \in Operation /\ op.kind = "import" /\ Asked(s) \in Session
  BY WorkingTyped, KnownTyped DEF ImportPublish
<1>2. x.known = Asked(s).known /\ x.surveyed = Asked(s).surveyed /\ x.op = None
  BY <1>1, PublishedFields
<1>3. CASE RequireSound(s) /\ Transaction(s, f, x)
  <2>1. Full(f)
    BY <1>1, <1>3, ImportFull
  <2>2. f.swapped = file[s].swapped
    <3>1. op.staged \in SUBSET Roots
      BY <1>1, OperationFields
    <3> HIDE DEF op
    <3> QED  BY <1>1, <3>1, AcceptedObjects
  <2> HIDE DEF f, x
  <2> QED  BY <1>1, <1>2, <1>3, <2>1, <2>2, TransactionStep
<1>4. CASE Refuse(s)
  BY <1>1, <1>4, RefuseHeld
<1>5. CASE /\ UNCHANGED <<file, snapshots, minted, faults>>
           /\ \/ \E o \in {again, None} : session' = [session EXCEPT ![s] = [Asked(s) EXCEPT !.op = o]]
              \/ \E e : session' = [session EXCEPT ![s] = [Asked(s) EXCEPT !.known = @ \cup {e}, !.op = None]]
  <2>1. PICK y : /\ session' = [session EXCEPT ![s] = y] /\ y.op \in {again, None}
                 /\ Asked(s).known \subseteq y.known /\ y.surveyed = Asked(s).surveyed
    <3>1. \A o : LET z == [Asked(s) EXCEPT !.op = o]
                 IN  z.op = o /\ z.known = Asked(s).known /\ z.surveyed = Asked(s).surveyed
      BY <1>1 DEF Session
    <3>2. \A e : LET z == [Asked(s) EXCEPT !.known = @ \cup {e}, !.op = None]
                 IN  z.op = None /\ Asked(s).known \subseteq z.known /\ z.surveyed = Asked(s).surveyed
      BY <1>1 DEF Session
    <3> HIDE DEF again
    <3>3. CASE \E o \in {again, None} : session' = [session EXCEPT ![s] = [Asked(s) EXCEPT !.op = o]]
      <4>1. PICK o \in {again, None} : session' = [session EXCEPT ![s] = [Asked(s) EXCEPT !.op = o]]
        BY <3>3
      <4> DEFINE z == [Asked(s) EXCEPT !.op = o]
      <4>2. z.op = o /\ z.known = Asked(s).known /\ z.surveyed = Asked(s).surveyed
        BY <3>1
      <4>3. session' = [session EXCEPT ![s] = z]
        BY <4>1
      <4> HIDE DEF z
      <4> QED  BY <4>1, <4>2, <4>3
    <3>4. CASE \E e : session' = [session EXCEPT ![s] = [Asked(s) EXCEPT !.known = @ \cup {e}, !.op = None]]
      BY <3>2, <3>4
    <3> QED  BY <1>5, <3>3, <3>4
  <2>2. again.kind = "plan"
    OBVIOUS
  <2> HIDE DEF again
  <2>3. SessionRests(y, file[s])
    BY <1>1, <2>1, <2>2, AskedRests
  <2> QED  BY <1>5, <2>1, <2>3, SessionStep
<1>6. \/ RequireSound(s) /\ Transaction(s, f, x)
      \/ Refuse(s)
      \/ /\ UNCHANGED <<file, snapshots, minted, faults>>
         /\ \/ \E o \in {again, None} : session' = [session EXCEPT ![s] = [Asked(s) EXCEPT !.op = o]]
            \/ \E e : session' = [session EXCEPT ![s] = [Asked(s) EXCEPT !.known = @ \cup {e}, !.op = None]]
  BY DEF ImportPublish
<1> QED  BY <1>3, <1>4, <1>5, <1>6

LEMMA OpeningHeld ==
    ASSUME TypeOK, HeldInv, NEW s \in Stores,
           \/ \E x \in snapshots : Restore(s, x)
           \/ Open(s) \/ ResetIdentity(s) \/ Close(s) \/ Crash(s)
    PROVE  HeldInv'
<1>1. PICK y \in {Opened, None} : session' = [session EXCEPT ![s] = y]
  BY DEF Restore, Open, ResetIdentity, Close, Crash
<1>2. Opened.surveyed = FALSE /\ Opened.op = None
  BY DEF Opened
<1>3. \A f : SessionRests(Opened, f)
  BY <1>2 DEF SessionRests
<1>4. PICK f : file' = [file EXCEPT ![s] = f] /\ (f = None \/ Full(f))
  <2>1. file = [file EXCEPT ![s] = file[s]] /\ (file[s] = None \/ Full(file[s]))
    BY DEF TypeOK, HeldInv, StoreRests
  <2>2. CASE UNCHANGED file
    BY <2>1, <2>2
  <2>3. CASE \E x \in snapshots : Restore(s, x)
    <3>1. PICK x \in snapshots : Restore(s, x)
      BY <2>3
    <3> DEFINE bytes == [r \in Roots |-> IF r \in x.objects THEN "sound" ELSE "absent"]
               g == [author |-> minted + 1, events |-> x.events, mine |-> {}, torn |-> {},
                     swapped |-> {}, bytes |-> bytes]
    <3>2. file' = [file EXCEPT ![s] = g]
      BY <3>1 DEF Restore
    <3>3. g.events = x.events /\ g.bytes = bytes
      OBVIOUS
    <3>4. HeldRoots(x.events) \subseteq Roots \cap x.objects
      BY HeldTyped DEF HeldInv, SnapshotsFull, TypeOK, Snapshot
    <3>5. \A r \in Roots \cap x.objects : bytes[r] # "absent"
      OBVIOUS
    <3> HIDE DEF g, bytes
    <3>6. Full(g)
      BY <3>3, <3>4, <3>5 DEF Full
    <3> QED  BY <3>2, <3>6
  <2>4. CASE ResetIdentity(s)
    <3> DEFINE g == [file[s] EXCEPT !.author = minted + 1, !.mine = {}]
    <3>1. file' = [file EXCEPT ![s] = g]
      BY <2>4 DEF ResetIdentity, TypeOK
    <3>2. file[s] \in File /\ file[s] # None
      BY <2>4 DEF ResetIdentity, TypeOK
    <3>3. g.events = file[s].events /\ g.bytes = file[s].bytes
      BY <3>2 DEF File
    <3> HIDE DEF g
    <3>4. Full(g)
      BY <2>1, <3>2, <3>3 DEF Full
    <3> QED  BY <3>1, <3>4
  <2> QED  BY <2>2, <2>3, <2>4 DEF Open, Close, Crash
<1>5. \A t \in Stores : StoreRests(t)'
  BY <1>1, <1>3, <1>4, StoreStep
<1>6. UNCHANGED snapshots
  BY DEF Restore, Open, ResetIdentity, Close, Crash
<1> QED  BY <1>5, <1>6 DEF HeldInv, SnapshotsFull

LEMMA CopyHeld ==
    ASSUME TypeOK, HeldInv, NEW s \in Stores, NEW t \in Stores, CopyFile(s, t)
    PROVE  HeldInv'
<1>1. session[t] = None /\ file' = [file EXCEPT ![t] = file[s]] /\ UNCHANGED <<session, snapshots>>
  BY DEF CopyFile, TypeOK
<1>2. session' = [session EXCEPT ![t] = None]
  BY <1>1 DEF TypeOK
<1>3. Full(file[s])
  BY DEF CopyFile, HeldInv, StoreRests
<1>4. \A u \in Stores : StoreRests(u)'
  BY <1>1, <1>2, <1>3, StoreStep
<1> QED  BY <1>1, <1>4 DEF HeldInv, SnapshotsFull

(* Damage takes no object away, and swaps no row of an open file.          *)
LEMMA FaultHeld ==
    ASSUME TypeOK, HeldInv, NEW s \in Stores, Fault(s)
    PROVE  HeldInv'
<1>1. file[s] \in File /\ file[s] # None /\ UNCHANGED <<session, snapshots>>
  BY DEF Fault, TypeOK
<1>2. Full(file[s]) /\ (session[s] # None => SessionRests(session[s], file[s]))
  BY <1>1 DEF HeldInv, StoreRests
<1>3. PICK f : /\ file' = [file EXCEPT ![s] = f]
               /\ \/ \E r \in Roots : f = [file[s] EXCEPT !.bytes[r] = "bad"]
                  \/ \E e \in file[s].events :
                        \/ f = [file[s] EXCEPT !.torn = @ \cup {e}]
                        \/ f = [file[s] EXCEPT !.swapped = @ \cup {e}] /\ session[s] = None
  BY DEF Fault, TypeOK
<1>4. /\ f.events = file[s].events
      /\ session[s] # None => f.swapped = file[s].swapped
      /\ \A r \in Roots : file[s].bytes[r] # "absent" => f.bytes[r] # "absent"
  BY <1>1, <1>3 DEF File
<1>5. HeldRoots(file[s].events) \subseteq Roots
  BY <1>1, HeldTyped DEF File
<1>6. Full(f)
  BY <1>2, <1>4, <1>5 DEF Full
<1>7. session[s] # None => SessionRests(session[s], f)
  <2> SUFFICES ASSUME session[s] # None PROVE SessionRests(session[s], f)
    OBVIOUS
  <2>1. session[s].op # None => session[s].op \in Operation
    BY SessionTyped DEF Session
  <2>2. session[s].op # None => Rests(session[s].op, session[s].known, f)
    BY <1>1, <1>2, <1>4, <2>1, RestsKept DEF SessionRests
  <2> QED  BY <1>2, <1>4, <2>2 DEF SessionRests
<1>8. session' = [session EXCEPT ![s] = session[s]]
  BY <1>1 DEF TypeOK
<1>9. \A t \in Stores : StoreRests(t)'
  BY <1>3, <1>6, <1>7, <1>8, StoreStep
<1> QED  BY <1>1, <1>9 DEF HeldInv, SnapshotsFull

LEMMA StepHeld == TypeOK /\ OperationsSound /\ HeldInv /\ [Next]_vars => HeldInv'
<1> SUFFICES ASSUME TypeOK, OperationsSound, HeldInv, [Next]_vars PROVE HeldInv'
  OBVIOUS
<1>1. CASE UNCHANGED vars
  BY <1>1 DEF vars, HeldInv, StoreRests, SnapshotsFull
<1>2. CASE Next
  BY <1>2, StreamsHeld, CommitHeld, CommitPublishHeld, KeepHeld, CollectHeld, ExportHeld,
     ExportCopyHeld,
     ImportHeld, PlanHeld, ImportPublishHeld, OpeningHeld, CopyHeld, FaultHeld DEF Next
<1> QED  BY <1>1, <1>2

LEMMA InitHeld == Init => HeldInv
<1> SUFFICES ASSUME Init PROVE HeldInv
  OBVIOUS
<1>1. HeldRoots({}) = {}
  BY HeldMember
<1>2. ASSUME NEW s \in Stores PROVE StoreRests(s)
  BY <1>1 DEF Init, StoreRests, Full, SessionRests, Opened
<1> QED  BY <1>2 DEF Init, HeldInv, SnapshotsFull

LEMMA HeldInductive == Spec => [](VaultInv /\ HeldInv)
<1>1. VaultInv /\ HeldInv /\ [Next]_vars => HeldInv'
  BY StepHeld DEF VaultInv
<1> QED  BY <1>1, InitHeld, VaultInductive, PTL DEF Spec

(* Every root a store's events hold has an object there, for any number of *)
(* files and whatever is collected (collect), imported (import.ts),        *)
(* restored, copied, refused, left unknown or cut short: what a collection *)
(* keeps and an import requires is folded before the transaction, and what *)
(* the fold missed makes the transaction refuse (requireSound).            *)
THEOREM VaultHeldPresent == Spec => []HeldPresent
<1>1. HeldInv => HeldPresent
  BY DEF HeldInv, StoreRests, Full, HeldPresent, Complete
<1> QED  BY <1>1, HeldInductive, PTL

-----------------------------------------------------------------------------
(* No event is taken over an object known to be damaged. *)

Careful ==
    \A s \in Stores : session[s] # None /\ file[s] # None /\ file'[s] # None =>
        \A e \in file'[s].events \ file[s].events :
            \A r \in RetainedRoots(file'[s].events)[e] \cap session[s].condemned :
                file'[s].bytes[r] = "sound"

(* Only an acceptance brings events, and it is asked last whether what it  *)
(* relies on is still sound.                                               *)
LEMMA AcceptedCareful ==
    ASSUME TypeOK, NEW s \in Stores, file[s] \in File, NEW E, NEW f, NEW staged \in SUBSET Roots,
           f.events = Accepted(s, staged, E).events, f.bytes = Accepted(s, staged, E).bytes,
           \A e \in E \ file[s].events :
              RetainedRoots(file[s].events \cup E)[e] \cap session[s].condemned \subseteq staged,
           file' \in {file, [file EXCEPT ![s] = f]}
    PROVE  Careful
<1>1. /\ f.events = file[s].events \cup E
      /\ \A r \in staged \cap session[s].condemned : f.bytes[r] = "sound"
  <2> DEFINE g == Accepted(s, staged, E)
  <2>1. /\ g.events = file[s].events \cup E
        /\ \A r \in staged \cap session[s].condemned : g.bytes[r] = "sound"
    BY AcceptedObjects
  <2> HIDE DEF g
  <2> QED  BY <2>1 DEF g
<1>2. \A t \in Stores : file'[t] = file[t] \/ (t = s /\ file'[t] = f)
  BY DEF TypeOK
<1> QED  BY <1>1, <1>2 DEF Careful

LEMMA StepCareful == TypeOK /\ HeldInv /\ [Next]_vars => Careful
<1> SUFFICES ASSUME TypeOK, HeldInv, [Next]_vars PROVE Careful
  OBVIOUS
<1>1. CASE \E s \in Stores : CommitPublish(s)
  <2>1. PICK s \in Stores : CommitPublish(s)
    BY <1>1
  <2> DEFINE e == session[s].op.draft
             staged == session[s].op.staged
             g == Accepted(s, staged, {e})
             f == [g EXCEPT !.mine = @ \cup {e}]
  <2>2. /\ file[s] \in File /\ staged \in SUBSET Roots /\ e \in Event
    BY <2>1, WorkingTyped, OperationFields DEF CommitPublish
  <2>3. CASE UNCHANGED file
    BY <2>3 DEF Careful
  <2>4. CASE StillSound(s, e.roots \ staged) /\ \E x : Transaction(s, f, x)
    <3>1. g \in File
      BY <2>2, AcceptedTyped
    <3>2. f.events = g.events /\ f.bytes = g.bytes
      <4> HIDE DEF g, e
      <4> QED  BY <3>1 DEF File
    <3>3. RetainedRoots(file[s].events \cup {e})[e] \subseteq e.roots
      BY RetainedAt
    <3>4. file' \in {file, [file EXCEPT ![s] = f]}
      BY <2>4 DEF Transaction
    <3> HIDE DEF f, e, staged
    <3> QED  BY <2>2, <2>4, <3>2, <3>3, <3>4, AcceptedCareful DEF StillSound, g
  <2> QED  BY <2>1, <2>3, <2>4 DEF CommitPublish, Refuse
<1>2. CASE \E s \in Stores : ImportPublish(s)
  <2>1. PICK s \in Stores : ImportPublish(s)
    BY <1>2
  <2> DEFINE op == session[s].op
             E == op.events
             staged == op.staged
             f == Accepted(s, staged, E)
  <2>2. /\ file[s] \in File /\ session[s] # None /\ file[s] # None /\ op # None /\ op.kind = "import"
        /\ staged \in SUBSET Roots
    BY <2>1, WorkingTyped, OperationFields, NoneAssumption DEF ImportPublish
  <2>3. CASE UNCHANGED file
    BY <2>3 DEF Careful
  <2>4. CASE RequireSound(s) /\ StillSound(s, op.reused) /\ \E x : Transaction(s, f, x)
    <3>1. Rests(op, session[s].known, file[s]) /\ session[s].known = {}
      BY <2>2, <2>4 DEF HeldInv, StoreRests, SessionRests, RequireSound
    <3>2. \A e \in E \ file[s].events :
             RetainedRoots(file[s].events \cup E)[e] \subseteq staged \cup op.reused
      BY <2>2, <3>1 DEF Rests
    <3>3. file' \in {file, [file EXCEPT ![s] = f]}
      BY <2>4 DEF Transaction
    <3> HIDE DEF f, E, staged
    <3> QED  BY <2>2, <2>4, <3>2, <3>3, AcceptedCareful DEF StillSound, f
  <2> QED  BY <2>1, <2>3, <2>4 DEF ImportPublish, Refuse
<1>3. CASE /\ ~\E s \in Stores : CommitPublish(s)
           /\ ~\E s \in Stores : ImportPublish(s)
  <2>1. \A s \in Stores : session[s] # None /\ file[s] # None => file'[s].events = file[s].events
    <3>1. CASE UNCHANGED file
      BY <3>1
    <3>2. CASE \E s \in Stores : Collect(s) \/ Fault(s)
      BY <3>2, CollectMoves, OpeningMoves DEF Quiet, SameFile
    <3>3. CASE \E s \in Stores : \/ \E x \in snapshots : Restore(s, x)
                                \/ ResetIdentity(s)
                                \/ \E t \in Stores : CopyFile(s, t)
      BY <3>3 DEF Restore, ResetIdentity, CopyFile, TypeOK
    <3> QED  BY <1>3, <3>1, <3>2, <3>3
             DEF Next, vars, OpenStream, EndStream, Commit, Keep, Export, ExportSelect, ExportGather,
                 ExportCopy, Import, Plan,
                 Open, Close, Crash
  <2> QED  BY <2>1 DEF Careful
<1> QED  BY <1>1, <1>2, <1>3

(* No event is accepted that retains an object found damaged before, even  *)
(* after the write looked at it: publish and the import's transaction ask  *)
(* once more of what they did not stage, and what is staged replaces what  *)
(* is known damaged.                                                       *)
THEOREM VaultNotOverDamage == Spec => NotOverKnownDamage
<1>1. TypeOK /\ HeldInv /\ [Next]_vars => [Careful]_vars
  BY StepCareful
<1>2. [][Careful]_vars <=> NotOverKnownDamage
  BY DEF Careful, NotOverKnownDamage
<1> QED  BY <1>1, <1>2, VaultTypeCorrect, HeldInductive, PTL DEF Spec

-----------------------------------------------------------------------------
(***************************************************************************)
(* The runtime over one such store, for any calls, events and mutations:   *)
(* what the writer lock keeps apart.                                       *)
(***************************************************************************)

(* Who is admitted is queued once, and who is in holds the lock; only who  *)
(* is in has mutations, and none is once the database is let go of.        *)
Waits(c) == calls[c].stage \in {"queued", "in"}

LockInv ==
    /\ \A i, j \in 1..Len(lock) : lock[i] = lock[j] => i = j
    /\ \A i \in 1..Len(lock) : Waits(lock[i])
    /\ \A c \in Calls : Waits(c) => \E i \in 1..Len(lock) : lock[i] = c
    /\ \A c \in Calls : calls[c].stage = "in" => Holds(c)
    /\ \A c \in Calls : calls[c].muts # <<>> => calls[c].stage = "in"
    /\ life.is = "closed" => lock = <<>>

(* Of the mutations of an operation the first alone has begun; what it     *)
(* staged is there, and what it keeps is what is to be kept.               *)
Begun(m, bytes, keep) ==
    /\ m.step = "staged" => \A o \in RootsOf[m.event] \ m.put : bytes[o] # "absent"
    /\ m.step = "kept" => m.keep = keep

Going(muts, bytes, keep) ==
    /\ \A i \in 1..Len(muts) : i # 1 => muts[i].step = "new"
    /\ muts # <<>> => Begun(muts[1], bytes, keep)

MutationsInv == \A c \in Calls : Going(calls[c].muts, store.bytes, Folded(Held))

(* A follower has seen what was accepted up to its token, each event once. *)
FollowInv ==
    /\ \A i, j \in 1..Len(store.accepted) : store.accepted[i] = store.accepted[j] => i = j
    /\ reader.token <= Len(store.accepted)
    /\ Len(reader.seen) = reader.token
    /\ \A i \in 1..reader.token : reader.seen[i] = store.accepted[i]

RuntimeInv == RuntimeTypeOK /\ LockInv /\ MutationsInv /\ RootsHeld /\ FollowInv

-----------------------------------------------------------------------------
(* A sequence of mutations whose first ends, or goes on as another.        *)
LEMMA FirstFacts ==
    ASSUME NEW M, NEW s \in Seq(M), s # <<>>, NEW x \in M
    PROVE  /\ Len(s) \in Nat /\ Len(s) >= 1 /\ Head(s) = s[1] /\ s[1] \in M
           /\ Tail(s) \in Seq(M) /\ Len(Tail(s)) = Len(s) - 1
           /\ \A i \in 1..Len(Tail(s)) : Tail(s)[i] = s[i + 1]
           /\ <<x>> \o Tail(s) \in Seq(M) /\ Len(<<x>> \o Tail(s)) = Len(s) /\ (<<x>> \o Tail(s))[1] = x
           /\ \A i \in 2..Len(s) : (<<x>> \o Tail(s))[i] = s[i]
<1>1. Len(s) \in Nat /\ Len(s) >= 1 /\ Head(s) = s[1] /\ s[1] \in M
  OBVIOUS
<1>2. Tail(s) \in Seq(M) /\ Len(Tail(s)) = Len(s) - 1 /\ \A i \in 1..Len(Tail(s)) : Tail(s)[i] = s[i + 1]
  OBVIOUS
<1>3. \A t \in Seq(M) : <<x>> \o t \in Seq(M) /\ Len(<<x>> \o t) = Len(t) + 1 /\ (<<x>> \o t)[1] = x
                        /\ \A i \in 2..(Len(t) + 1) : (<<x>> \o t)[i] = t[i - 1]
  OBVIOUS
<1>4. \A i \in 2..Len(s) : (<<x>> \o Tail(s))[i] = s[i]
  <2> TAKE i \in 2..Len(s)
  <2>1. (<<x>> \o Tail(s))[i] = Tail(s)[i - 1] BY <1>1, <1>2, <1>3
  <2>2. i - 1 \in 1..Len(Tail(s)) BY <1>1, <1>2
  <2>3. Tail(s)[i - 1] = s[(i - 1) + 1] BY <1>2, <2>2
  <2>4. (i - 1) + 1 = i BY <1>1
  <2> QED BY <2>1, <2>3, <2>4
<1> QED BY <1>1, <1>2, <1>3, <1>4

(* A mutation issued comes last and has not begun.                         *)
LEMMA IssuedFacts ==
    ASSUME NEW M, NEW s \in Seq(M), NEW x \in M
    PROVE  /\ Append(s, x) \in Seq(M) /\ Append(s, x) # <<>> /\ Len(Append(s, x)) = Len(s) + 1 /\ Len(s) \in Nat
           /\ \A i \in 1..Len(s) : Append(s, x)[i] = s[i]
           /\ Append(s, x)[Len(s) + 1] = x
OBVIOUS

(* What follows n of a sequence's members, and one sequence after another. *)
LEMMA AfterFacts ==
    ASSUME NEW M, NEW s \in Seq(M), NEW n \in Nat, n <= Len(s)
    PROVE  /\ SubSeq(s, n + 1, Len(s)) \in Seq(M) /\ Len(SubSeq(s, n + 1, Len(s))) = Len(s) - n
           /\ \A i \in 1..(Len(s) - n) : SubSeq(s, n + 1, Len(s))[i] = s[n + i]
<1>1. Len(s) \in Nat /\ \A i \in 1..Len(s) : s[i] \in M
  OBVIOUS
<1>2. \A i \in (n + 1)..Len(s) : s[i] \in M
  BY <1>1
<1>3. Len(SubSeq(s, n + 1, Len(s))) = Len(s) - n /\ \A i \in 1..(Len(s) - n) : SubSeq(s, n + 1, Len(s))[i] = s[n + i]
  BY <1>1, SubSeqProperties
<1>4. SubSeq(s, n + 1, Len(s)) \in Seq(M)
  BY <1>1, <1>2, SubSeqProperties
<1> QED BY <1>3, <1>4

LEMMA BehindFacts ==
    ASSUME NEW M, NEW s \in Seq(M), NEW t \in Seq(M)
    PROVE  /\ s \o t \in Seq(M) /\ Len(s \o t) = Len(s) + Len(t) /\ Len(s) \in Nat /\ Len(t) \in Nat
           /\ \A i \in 1..Len(s) : (s \o t)[i] = s[i]
           /\ \A i \in 1..Len(t) : (s \o t)[Len(s) + i] = t[i]
BY ConcatProperties

(* What a call may be asked to write has its type.                         *)
LEMMA MutationFacts ==
    ASSUME RuntimeAssumption, NEW kind \in {"commit", "collect", "ingest"}, NEW m \in Mutations(kind)
    PROVE  m \in Put \cup Collection /\ m.step = "new"
<1>1. CASE kind = "collect"
  BY <1>1 DEF Mutations, Collection
<1>2. CASE kind # "collect"
  <2>1. m \in Writes(kind)
    BY <1>2 DEF Mutations
  <2>2. PICK e \in IF kind = "ingest" THEN Foreign ELSE Events \ Foreign :
          \E put \in SUBSET Objects : m = [kind |-> kind, event |-> e, put |-> put, step |-> "new"]
    BY <2>1 DEF Writes
  <2>3. PICK put \in SUBSET Objects : m = [kind |-> kind, event |-> e, put |-> put, step |-> "new"]
    BY <2>2
  <2>4. e \in Events
    BY <2>2 DEF RuntimeAssumption
  <2> QED BY <1>2, <2>3, <2>4 DEF Put
<1> QED BY <1>1, <1>2

(* One call moves, and no other.                                           *)
LEMMA MovesFacts ==
    ASSUME RuntimeTypeOK, NEW c \in Calls, NEW k \in Operations, calls' = [calls EXCEPT ![c] = k]
    PROVE  /\ calls' \in [Calls -> Operations] /\ calls'[c] = k
           /\ \A d \in Calls : d # c => calls'[d] = calls[d]
BY DEF RuntimeTypeOK

-----------------------------------------------------------------------------
(* The lock.                                                               *)

(* Who has mutations holds the lock, so nobody else has any.               *)
LEMMA HolderAlone ==
    ASSUME LockInv, NEW c \in Calls, calls[c].muts # <<>>
    PROVE  calls[c].stage = "in" /\ Holds(c) /\ lock # <<>> /\ \A d \in Calls : d # c => calls[d].muts = <<>>
BY DEF LockInv, Holds

(* No call's stage moves, and nobody else has mutations to run.            *)
LEMMA LockStays ==
    ASSUME RuntimeTypeOK, LockInv, lock' = lock,
           \A c \in Calls : calls'[c].stage = calls[c].stage,
           \A c \in Calls : calls'[c].muts # <<>> => calls[c].stage = "in",
           life'.is = "closed" => lock = <<>>
    PROVE  LockInv'
<1>1. lock \in Seq(Calls) BY DEF RuntimeTypeOK
<1>2. \A i \in 1..Len(lock) : lock[i] \in Calls BY <1>1
<1>3. \A i, j \in 1..Len(lock) : lock[i] = lock[j] => i = j BY DEF LockInv
<1>4. \A i \in 1..Len(lock) : calls'[lock[i]].stage \in {"queued", "in"} BY <1>2 DEF LockInv, Waits
<1>5. \A c \in Calls : calls'[c].stage \in {"queued", "in"} => \E i \in 1..Len(lock) : lock[i] = c BY DEF LockInv, Waits
<1>6. \A c \in Calls : calls'[c].stage = "in" => lock # <<>> /\ Head(lock) = c BY DEF LockInv, Holds
<1>7. \A c \in Calls : calls'[c].muts # <<>> => calls'[c].stage = "in" OBVIOUS
<1> QED BY <1>3, <1>4, <1>5, <1>6, <1>7 DEF LockInv, Waits, Holds

(* A call is admitted behind all the others.                               *)
LEMMA LockEnters ==
    ASSUME RuntimeTypeOK, LockInv, NEW c \in Calls, ~Waits(c), life.is # "closed", life' = life,
           lock' = Append(lock, c), calls'[c].stage = "queued", calls'[c].muts = <<>>,
           \A d \in Calls : d # c => calls'[d] = calls[d]
    PROVE  LockInv'
<1>1. lock \in Seq(Calls) /\ Len(lock) \in Nat BY DEF RuntimeTypeOK
<1>2. Len(lock') = Len(lock) + 1 /\ lock'[Len(lock) + 1] = c /\ \A i \in 1..Len(lock) : lock'[i] = lock[i] BY <1>1
<1>3. \A i \in 1..Len(lock) : lock[i] \in Calls /\ lock[i] # c BY <1>1 DEF LockInv
<1>4. \A i, j \in 1..Len(lock') : lock'[i] = lock'[j] => i = j
  <2> SUFFICES ASSUME NEW i \in 1..Len(lock'), NEW j \in 1..Len(lock'), lock'[i] = lock'[j] PROVE i = j
    OBVIOUS
  <2>1. CASE i \in 1..Len(lock) /\ j \in 1..Len(lock) BY <2>1, <1>2 DEF LockInv
  <2>2. CASE i = Len(lock) + 1 BY <2>2, <1>1, <1>2, <1>3
  <2>3. CASE j = Len(lock) + 1 BY <2>3, <1>1, <1>2, <1>3
  <2> QED BY <1>1, <1>2, <2>1, <2>2, <2>3
<1>5. \A i \in 1..Len(lock') : calls'[lock'[i]].stage \in {"queued", "in"}
  <2> SUFFICES ASSUME NEW i \in 1..Len(lock') PROVE calls'[lock'[i]].stage \in {"queued", "in"}
    OBVIOUS
  <2>1. CASE i \in 1..Len(lock) BY <2>1, <1>2, <1>3 DEF LockInv, Waits
  <2>2. CASE i = Len(lock) + 1 BY <2>2, <1>2
  <2> QED BY <1>1, <1>2, <2>1, <2>2
<1>6. \A d \in Calls : calls'[d].stage \in {"queued", "in"} => \E i \in 1..Len(lock') : lock'[i] = d
  <2> SUFFICES ASSUME NEW d \in Calls, calls'[d].stage \in {"queued", "in"} PROVE \E i \in 1..Len(lock') : lock'[i] = d
    OBVIOUS
  <2>1. CASE d = c BY <2>1, <1>1, <1>2
  <2>2. CASE d # c
    <3>1. PICK i \in 1..Len(lock) : lock[i] = d BY <2>2 DEF LockInv, Waits
    <3> QED BY <3>1, <1>1, <1>2
  <2> QED BY <2>1, <2>2
<1>7. \A d \in Calls : calls'[d].stage = "in" => lock' # <<>> /\ Head(lock') = d
  <2> SUFFICES ASSUME NEW d \in Calls, calls'[d].stage = "in" PROVE lock' # <<>> /\ Head(lock') = d
    OBVIOUS
  <2>1. d # c /\ calls[d].stage = "in" OBVIOUS
  <2>2. lock # <<>> /\ Head(lock) = d BY <2>1 DEF LockInv, Holds
  <2> QED BY <2>2, <1>1
<1>8. \A d \in Calls : calls'[d].muts # <<>> => calls'[d].stage = "in"
  <2> SUFFICES ASSUME NEW d \in Calls, calls'[d].muts # <<>> PROVE calls'[d].stage = "in"
    OBVIOUS
  <2>1. d # c OBVIOUS
  <2> QED BY <2>1 DEF LockInv
<1> QED BY <1>4, <1>5, <1>6, <1>7, <1>8 DEF LockInv, Waits, Holds

(* The holder is answered, and the next in turn holds the lock.            *)
LEMMA LockLeaves ==
    ASSUME RuntimeTypeOK, LockInv, NEW c \in Calls, Holds(c), life' = life,
           lock' = Tail(lock), calls'[c].stage = "answered", calls'[c].muts = <<>>,
           \A d \in Calls : d # c => calls'[d] = calls[d]
    PROVE  LockInv'
<1>1. lock \in Seq(Calls) /\ Len(lock) \in Nat /\ Len(lock) >= 1 /\ lock[1] = c BY DEF RuntimeTypeOK, Holds
<1>2. Len(lock') = Len(lock) - 1 /\ \A i \in 1..Len(lock') : lock'[i] = lock[i + 1] BY <1>1
<1>3. \A i \in 1..Len(lock') : lock'[i] \in Calls /\ lock'[i] # c
  <2> TAKE i \in 1..Len(lock')
  <2>1. i + 1 \in 1..Len(lock) /\ 1 \in 1..Len(lock) /\ i + 1 # 1 BY <1>1, <1>2
  <2> QED BY <2>1, <1>1, <1>2 DEF LockInv
<1>4. \A i, j \in 1..Len(lock') : lock'[i] = lock'[j] => i = j
  <2> TAKE i, j \in 1..Len(lock')
  <2>1. i + 1 \in 1..Len(lock) /\ j + 1 \in 1..Len(lock) BY <1>1, <1>2
  <2>2. lock[i + 1] = lock[j + 1] => i + 1 = j + 1 BY <2>1 DEF LockInv
  <2> QED BY <2>2, <1>2
<1>5. \A i \in 1..Len(lock') : calls'[lock'[i]].stage \in {"queued", "in"}
  <2> TAKE i \in 1..Len(lock')
  <2>1. i + 1 \in 1..Len(lock) BY <1>1, <1>2
  <2>2. Waits(lock[i + 1]) BY <2>1 DEF LockInv
  <2> QED BY <2>2, <1>2, <1>3 DEF Waits
<1>6. \A d \in Calls : calls'[d].stage \in {"queued", "in"} => \E i \in 1..Len(lock') : lock'[i] = d
  <2> SUFFICES ASSUME NEW d \in Calls, calls'[d].stage \in {"queued", "in"} PROVE \E i \in 1..Len(lock') : lock'[i] = d
    OBVIOUS
  <2>1. d # c OBVIOUS
  <2>2. PICK i \in 1..Len(lock) : lock[i] = d BY <2>1 DEF LockInv, Waits
  <2>3. i - 1 \in 1..Len(lock') /\ (i - 1) + 1 = i BY <2>1, <2>2, <1>1, <1>2
  <2>4. lock'[i - 1] = d BY <2>2, <2>3, <1>2
  <2> QED BY <2>3, <2>4
<1>7. \A d \in Calls : calls'[d].stage # "in"
  <2> SUFFICES ASSUME NEW d \in Calls, calls'[d].stage = "in" PROVE FALSE
    OBVIOUS
  <2>1. d # c /\ calls[d].stage = "in" OBVIOUS
  <2> QED BY <2>1 DEF LockInv, Holds
<1>8. \A d \in Calls : calls'[d].muts # <<>> => calls'[d].stage = "in"
  <2> SUFFICES ASSUME NEW d \in Calls, calls'[d].muts # <<>> PROVE calls'[d].stage = "in"
    OBVIOUS
  <2>1. d # c OBVIOUS
  <2> QED BY <2>1 DEF LockInv
<1>9. life'.is # "closed" BY <1>1 DEF LockInv
<1> QED BY <1>4, <1>5, <1>6, <1>7, <1>8, <1>9 DEF LockInv, Waits, Holds

-----------------------------------------------------------------------------
(* What the stores hold, and what is to be kept of it.                     *)

Present(o) == store.bytes[o] # "absent"

(* What is to be kept is of the objects.                                   *)
LEMMA FoldedFacts ==
    ASSUME RuntimeAssumption, RuntimeTypeOK
    PROVE  Held \subseteq Events /\ Folded(Held) \subseteq Objects
<1>1. \A i \in DOMAIN store.accepted : store.accepted[i] \in Events BY DEF RuntimeTypeOK
<1>2. Held \subseteq Events BY <1>1 DEF Held
<1> QED BY <1>2 DEF Folded, RuntimeAssumption

(* One more event is held: only its own roots are to be kept besides.      *)
LEMMA FoldedGrows ==
    ASSUME NEW E, NEW e
    PROVE  Folded(E \cup {e}) \subseteq Folded(E) \cup RootsOf[e]
BY DEF Folded

(* The same is accepted, and no object goes.                               *)
LEMMA StoreStays ==
    ASSUME RuntimeInv, store'.accepted = store.accepted,
           \A o \in Objects : Present(o) => store'.bytes[o] # "absent"
    PROVE  /\ Held' = Held /\ RootsHeld'
           /\ reader'.token = reader.token /\ reader'.seen = reader.seen => FollowInv'
<1>1. Held' = Held BY DEF Held
<1>2. Folded(Held)' = Folded(Held) BY <1>1 DEF Folded
<1>3. RootsHeld' BY <1>2 DEF RootsHeld, RuntimeInv, Present
<1>4. reader'.token = reader.token /\ reader'.seen = reader.seen => FollowInv' BY DEF RuntimeInv, FollowInv
<1> QED BY <1>1, <1>3, <1>4

(* No mutation moves.                                                      *)
LEMMA MutationsStay ==
    ASSUME RuntimeAssumption, RuntimeInv, store'.accepted = store.accepted,
           \A o \in Objects : Present(o) => store'.bytes[o] # "absent",
           \A c \in Calls : calls'[c].muts = calls[c].muts
    PROVE  MutationsInv'
<1>1. Held' = Held BY DEF Held
<1>2. Folded(Held)' = Folded(Held) BY <1>1 DEF Folded
<1> SUFFICES ASSUME NEW c \in Calls PROVE Going(calls'[c].muts, store'.bytes, Folded(Held)')
  BY DEF MutationsInv
<1>3. PICK s : s = calls[c].muts OBVIOUS
<1>4. Going(s, store.bytes, Folded(Held)) BY <1>3 DEF RuntimeInv, MutationsInv
<1>5. s \in Seq(Put \cup Collection) BY <1>3 DEF RuntimeInv, RuntimeTypeOK, Operations
<1>6. ASSUME s # <<>> PROVE Begun(s[1], store'.bytes, Folded(Held))
  <2>1. s[1] \in Put \cup Collection BY <1>5, <1>6
  <2>2. PICK m \in Put \cup Collection : m = s[1] BY <2>1
  <2>3. Begun(m, store.bytes, Folded(Held)) BY <1>4, <1>6, <2>2 DEF Going
  <2>4. ASSUME m.step = "staged", NEW o \in RootsOf[m.event] \ m.put PROVE store'.bytes[o] # "absent"
    <3>1. m \in Put BY <2>4 DEF Collection
    <3>2. o \in Objects BY <2>4, <3>1 DEF Put, RuntimeAssumption
    <3> QED BY <3>2, <2>3, <2>4 DEF Begun, Present
  <2>5. Begun(m, store'.bytes, Folded(Held)) BY <2>3, <2>4 DEF Begun
  <2> QED BY <2>2, <2>5
<1>7. Going(s, store'.bytes, Folded(Held)) BY <1>4, <1>6 DEF Going
<1>8. calls'[c].muts = s BY <1>3
<1> QED BY <1>2, <1>7, <1>8

(* A mutation that has not begun has nothing to keep true.                 *)
LEMMA NoneBegun ==
    ASSUME NEW t, Len(t) \in Nat, t # <<>> => Len(t) >= 1, NEW bytes, NEW keep,
           \A i \in 1..Len(t) : t[i].step = "new"
    PROVE  Going(t, bytes, keep)
<1>1. t # <<>> => t[1].step = "new" OBVIOUS
<1> QED BY <1>1 DEF Going, Begun

(* The first mutation of the holder ends: what was issued behind it has    *)
(* not begun, and nobody else has any.                                     *)
LEMMA MutationEnds ==
    ASSUME RuntimeInv, NEW c \in Calls, calls[c].muts # <<>>, Done(c)
    PROVE  /\ calls' \in [Calls -> Operations]
           /\ \A d \in Calls : calls'[d].stage = calls[d].stage
           /\ \A d \in Calls : calls'[d].muts # <<>> => calls[d].stage = "in"
           /\ MutationsInv'
<1> DEFINE k == [calls[c] EXCEPT !.muts = Tail(calls[c].muts)]
<1>1. calls[c] \in Operations /\ calls[c].muts \in Seq(Put \cup Collection) BY DEF RuntimeInv, RuntimeTypeOK, Operations
<1>2. calls[c].muts[1] \in Put \cup Collection BY <1>1
<1>3. PICK s \in Seq(Put \cup Collection) : s = calls[c].muts BY <1>1
<1>4. PICK t : t = Tail(s) OBVIOUS
<1>5. t \in Seq(Put \cup Collection) /\ Len(t) = Len(s) - 1 /\ Len(s) \in Nat /\ \A i \in 1..Len(t) : t[i] = s[i + 1]
  BY <1>2, <1>3, <1>4, FirstFacts
<1>6. k \in Operations /\ k.stage = calls[c].stage /\ k.muts = t BY <1>1, <1>3, <1>4, <1>5 DEF Operations
<1>7. calls' = [calls EXCEPT ![c] = k] BY DEF Done
<1> HIDE DEF k
<1>8. calls' \in [Calls -> Operations] /\ calls'[c] = k /\ \A d \in Calls : d # c => calls'[d] = calls[d]
  BY <1>6, <1>7, MovesFacts DEF RuntimeInv
<1>9. \A d \in Calls : d # c => calls'[d].muts = <<>> BY <1>8, HolderAlone DEF RuntimeInv
<1>10. calls[c].stage = "in" BY HolderAlone DEF RuntimeInv
<1>11. \A i \in 1..Len(t) : t[i].step = "new"
  <2> TAKE i \in 1..Len(t)
  <2>1. i + 1 \in 1..Len(s) /\ i + 1 # 1 BY <1>5
  <2>2. s[i + 1].step = "new" BY <2>1, <1>3 DEF RuntimeInv, MutationsInv, Going
  <2> QED BY <2>2, <1>5
<1>12. MutationsInv'
  <2> SUFFICES ASSUME NEW d \in Calls PROVE Going(calls'[d].muts, store'.bytes, Folded(Held)')
    BY DEF MutationsInv
  <2>1. CASE d # c
    <3>1. calls'[d].muts = <<>> BY <2>1, <1>9
    <3> QED BY <3>1 DEF Going
  <2>2. CASE d = c
    <3>1. Len(t) \in Nat /\ (t # <<>> => Len(t) >= 1) BY <1>5
    <3>2. Going(t, store'.bytes, Folded(Held)') BY <3>1, <1>11, NoneBegun
    <3> QED BY <2>2, <3>2, <1>6, <1>8
  <2> QED BY <2>1, <2>2
<1> QED BY <1>6, <1>8, <1>9, <1>10, <1>12

(* It goes on as another.                                                  *)
LEMMA MutationGoes ==
    ASSUME RuntimeInv, NEW c \in Calls, calls[c].muts # <<>>, NEW m \in Put \cup Collection,
           calls' = [calls EXCEPT ![c].muts = <<m>> \o Tail(@)],
           store' = store, Begun(m, store.bytes, Folded(Held))
    PROVE  /\ calls' \in [Calls -> Operations]
           /\ \A d \in Calls : calls'[d].stage = calls[d].stage
           /\ \A d \in Calls : calls'[d].muts # <<>> => calls[d].stage = "in"
           /\ MutationsInv'
<1> DEFINE k == [calls[c] EXCEPT !.muts = <<m>> \o Tail(calls[c].muts)]
<1>1. calls[c] \in Operations /\ calls[c].muts \in Seq(Put \cup Collection) BY DEF RuntimeInv, RuntimeTypeOK, Operations
<1>2. PICK s \in Seq(Put \cup Collection) : s = calls[c].muts BY <1>1
<1>3. PICK t : t = <<m>> \o Tail(s) OBVIOUS
<1>4. t \in Seq(Put \cup Collection) /\ Len(t) = Len(s) /\ Len(s) \in Nat /\ t[1] = m /\ \A i \in 2..Len(s) : t[i] = s[i]
  BY <1>2, <1>3, FirstFacts
<1>5. k \in Operations /\ k.stage = calls[c].stage /\ k.muts = t BY <1>1, <1>2, <1>3, <1>4 DEF Operations
<1>6. calls' = [calls EXCEPT ![c] = k] OBVIOUS
<1> HIDE DEF k
<1>7. calls' \in [Calls -> Operations] /\ calls'[c] = k /\ \A d \in Calls : d # c => calls'[d] = calls[d]
  BY <1>5, <1>6, MovesFacts DEF RuntimeInv
<1>8. \A d \in Calls : d # c => calls'[d].muts = <<>> BY <1>7, HolderAlone DEF RuntimeInv
<1>9. calls[c].stage = "in" BY HolderAlone DEF RuntimeInv
<1>10. \A i \in 1..Len(t) : i # 1 => t[i].step = "new"
  <2> SUFFICES ASSUME NEW i \in 1..Len(t), i # 1 PROVE t[i].step = "new"
    OBVIOUS
  <2>1. i \in 2..Len(s) /\ i \in 1..Len(s) BY <1>4
  <2>2. s[i].step = "new" BY <2>1, <1>2 DEF RuntimeInv, MutationsInv, Going
  <2> QED BY <2>1, <2>2, <1>4
<1>11. Held' = Held BY DEF Held
<1>12. Folded(Held)' = Folded(Held) BY <1>11 DEF Folded
<1>13. Going(t, store'.bytes, Folded(Held)') BY <1>4, <1>10, <1>12 DEF Going
<1>14. MutationsInv'
  <2> SUFFICES ASSUME NEW d \in Calls PROVE Going(calls'[d].muts, store'.bytes, Folded(Held)')
    BY DEF MutationsInv
  <2>1. CASE d # c
    <3>1. calls'[d].muts = <<>> BY <2>1, <1>8
    <3> QED BY <3>1 DEF Going
  <2>2. CASE d = c
    <3>1. calls'[d].muts = t BY <2>2, <1>5, <1>7
    <3> QED BY <3>1, <1>13
  <2> QED BY <2>1, <2>2
<1> QED BY <1>5, <1>7, <1>8, <1>9, <1>14

-----------------------------------------------------------------------------
(* Each step keeps the invariant. *)

(* One call moves between its stages, with the mutations it has.           *)
LEMMA StageKeeps ==
    ASSUME RuntimeAssumption, RuntimeInv, NEW c \in Calls, NEW k \in Operations, calls' = [calls EXCEPT ![c] = k],
           k.muts = calls[c].muts, lock' \in Seq(Calls), UNCHANGED <<store, reader, life>>, LockInv'
    PROVE  RuntimeInv'
<1>1. calls' \in [Calls -> Operations] /\ calls'[c] = k /\ \A d \in Calls : d # c => calls'[d] = calls[d]
  BY MovesFacts DEF RuntimeInv
<1>2. RuntimeTypeOK' BY <1>1 DEF RuntimeInv, RuntimeTypeOK
<1>3. \A d \in Calls : calls'[d].muts = calls[d].muts BY <1>1
<1>4. MutationsInv' BY <1>3, MutationsStay DEF Present
<1>5. RootsHeld' /\ FollowInv' BY StoreStays DEF Present
<1> QED BY <1>2, <1>4, <1>5 DEF RuntimeInv

(* A call is admitted, refused, or reads its source first.                 *)
LEMMA CallKeeps ==
    ASSUME RuntimeAssumption, RuntimeInv, NEW c \in Calls, NEW kind \in OperationKinds, Call(c, kind)
    PROVE  RuntimeInv'
<1> DEFINE asked == [calls[c] EXCEPT !.kind = kind]
           k == [asked EXCEPT !.stage = IF kind = "ingest" THEN "reading" ELSE "queued"]
           x == [calls[c] EXCEPT !.stage = "answered"]
<1>1. calls \in [Calls -> Operations] /\ lock \in Seq(Calls) BY DEF RuntimeInv, RuntimeTypeOK
<1>2. calls[c] \in Operations /\ calls[c].stage = "new" /\ calls[c].muts = <<>> BY <1>1 DEF Call, RuntimeInv, LockInv
<1>3. k \in Operations /\ k.muts = calls[c].muts /\ k.stage = IF kind = "ingest" THEN "reading" ELSE "queued" BY <1>2 DEF Operations
<1>4. x \in Operations /\ x.muts = calls[c].muts /\ x.stage = "answered" BY <1>2 DEF Operations
<1>5. UNCHANGED <<store, reader, life>> BY DEF Call
<1>6. CASE Admits
  <2>1. calls' = [calls EXCEPT ![c] = k] BY <1>6 DEF Call
  <2>2. lock' = IF kind = "ingest" THEN lock ELSE Append(lock, c) BY <1>6 DEF Call
  <2> HIDE DEF k
  <2>3. calls'[c] = k /\ \A d \in Calls : d # c => calls'[d] = calls[d] BY <2>1, <1>3, MovesFacts DEF RuntimeInv
  <2>4. CASE kind = "ingest"
    <3>1. calls'[c].stage = "reading" /\ calls'[c].muts = <<>> BY <2>3, <2>4, <1>2, <1>3
    <3>2. LockInv' BY <3>1, <2>2, <2>3, <2>4, <1>1, <1>2, <1>5 DEF RuntimeInv, LockInv, Waits, Holds
    <3> QED BY <3>2, <2>1, <2>2, <2>4, <1>1, <1>3, <1>5, StageKeeps
  <2>5. CASE kind # "ingest"
    <3>1. calls'[c].stage = "queued" /\ calls'[c].muts = <<>> BY <2>3, <2>5, <1>2, <1>3
    <3>2. LockInv' BY <3>1, <2>2, <2>3, <2>5, <1>2, <1>5, <1>6, LockEnters DEF RuntimeInv, Waits, Admits
    <3>3. lock' \in Seq(Calls) BY <2>2, <2>5, <1>1
    <3> QED BY <3>2, <3>3, <2>1, <1>3, <1>5, StageKeeps
  <2> QED BY <2>4, <2>5
<1>7. CASE ~Admits
  <2>1. calls' = [calls EXCEPT ![c] = x] /\ lock' = lock BY <1>7 DEF Call, Refused
  <2> HIDE DEF x
  <2>2. calls'[c] = x /\ \A d \in Calls : d # c => calls'[d] = calls[d] BY <2>1, <1>4, MovesFacts DEF RuntimeInv
  <2>3. LockInv' BY <2>1, <2>2, <1>1, <1>2, <1>4, <1>5 DEF RuntimeInv, LockInv, Waits, Holds
  <2> QED BY <2>1, <2>3, <1>1, <1>4, <1>5, StageKeeps
<1> QED BY <1>6, <1>7

(* An ingest that has read its source queues behind what was admitted      *)
(* meanwhile.                                                              *)
LEMMA ReadAllKeeps ==
    ASSUME RuntimeAssumption, RuntimeInv, NEW c \in Calls, ReadAll(c)
    PROVE  RuntimeInv'
<1> DEFINE k == [calls[c] EXCEPT !.stage = "queued"]
           x == [calls[c] EXCEPT !.stage = "answered"]
<1>1. calls \in [Calls -> Operations] /\ lock \in Seq(Calls) BY DEF RuntimeInv, RuntimeTypeOK
<1>2. calls[c] \in Operations /\ calls[c].stage = "reading" /\ calls[c].muts = <<>> BY <1>1 DEF ReadAll, RuntimeInv, LockInv
<1>3. k \in Operations /\ k.muts = calls[c].muts /\ k.stage = "queued" BY <1>2 DEF Operations
<1>4. x \in Operations /\ x.muts = calls[c].muts /\ x.stage = "answered" BY <1>2 DEF Operations
<1>5. UNCHANGED <<store, reader, life>> BY DEF ReadAll
<1>6. CASE Admits
  <2>1. calls' = [calls EXCEPT ![c] = k] /\ lock' = Append(lock, c) BY <1>6 DEF ReadAll, Enter
  <2> HIDE DEF k
  <2>2. calls'[c] = k /\ \A d \in Calls : d # c => calls'[d] = calls[d] BY <2>1, <1>3, MovesFacts DEF RuntimeInv
  <2>3. LockInv' BY <2>1, <2>2, <1>2, <1>3, <1>5, <1>6, LockEnters DEF RuntimeInv, Waits, Admits
  <2>4. lock' \in Seq(Calls) BY <2>1, <1>1
  <2> QED BY <2>1, <2>3, <2>4, <1>3, <1>5, StageKeeps
<1>7. CASE ~Admits
  <2>1. calls' = [calls EXCEPT ![c] = x] /\ lock' = lock BY <1>7 DEF ReadAll, Enter, Refused
  <2> HIDE DEF x
  <2>2. calls'[c] = x /\ \A d \in Calls : d # c => calls'[d] = calls[d] BY <2>1, <1>4, MovesFacts DEF RuntimeInv
  <2>3. LockInv' BY <2>1, <2>2, <1>1, <1>2, <1>4, <1>5 DEF RuntimeInv, LockInv, Waits, Holds
  <2> QED BY <2>1, <2>3, <1>1, <1>4, <1>5, StageKeeps
<1> QED BY <1>6, <1>7

(* A call that is in holds the lock, and what it was given to do has not   *)
(* begun.                                                                  *)
LEMMA InKeeps ==
    ASSUME RuntimeAssumption, RuntimeInv, NEW c \in Calls, NEW k \in Operations, calls' = [calls EXCEPT ![c] = k],
           Waits(c), Holds(c), k.stage = "in", UNCHANGED <<lock, store, reader, life>>,
           Going(k.muts, store.bytes, Folded(Held))
    PROVE  RuntimeInv'
<1>1. calls' \in [Calls -> Operations] /\ calls'[c] = k /\ \A d \in Calls : d # c => calls'[d] = calls[d]
  BY MovesFacts DEF RuntimeInv
<1>2. RuntimeTypeOK' BY <1>1 DEF RuntimeInv, RuntimeTypeOK
<1>3. LockInv' BY <1>1 DEF RuntimeInv, RuntimeTypeOK, LockInv, Waits, Holds
<1>4. Held' = Held BY DEF Held
<1>5. Folded(Held)' = Folded(Held) BY <1>4 DEF Folded
<1>6. MutationsInv'
  <2> SUFFICES ASSUME NEW d \in Calls PROVE Going(calls'[d].muts, store'.bytes, Folded(Held)')
    BY DEF MutationsInv
  <2>1. CASE d # c
    <3>1. calls'[d].muts = calls[d].muts BY <2>1, <1>1
    <3>2. Going(calls[d].muts, store.bytes, Folded(Held)) BY DEF RuntimeInv, MutationsInv
    <3> QED BY <3>1, <3>2, <1>5
  <2>2. CASE d = c
    <3>1. calls'[d].muts = k.muts BY <2>2, <1>1
    <3> QED BY <3>1, <1>5
  <2> QED BY <2>1, <2>2
<1>7. RootsHeld' /\ FollowInv' BY StoreStays DEF Present
<1> QED BY <1>2, <1>3, <1>6, <1>7 DEF RuntimeInv

(* A call whose turn has come is in, or refused by a vault that stopped.   *)
LEMMA BeginKeeps ==
    ASSUME RuntimeAssumption, RuntimeInv, NEW c \in Calls, Begin(c)
    PROVE  RuntimeInv'
<1>1. calls \in [Calls -> Operations] /\ lock \in Seq(Calls) BY DEF RuntimeInv, RuntimeTypeOK
<1>2. calls[c] \in Operations /\ calls[c].stage = "queued" /\ Holds(c) /\ calls[c].muts = <<>> BY <1>1 DEF Begin, RuntimeInv, LockInv
<1>3. UNCHANGED <<store, reader, life>> BY DEF Begin
<1>4. CASE life.stopped
  <2> DEFINE x == [calls[c] EXCEPT !.stage = "answered"]
  <2>1. calls' = [calls EXCEPT ![c] = x] /\ lock' = Tail(lock) BY <1>4 DEF Begin, Refused
  <2>2. x \in Operations /\ x.muts = calls[c].muts /\ x.stage = "answered" BY <1>2 DEF Operations
  <2> HIDE DEF x
  <2>3. calls'[c] = x /\ \A d \in Calls : d # c => calls'[d] = calls[d] BY <2>1, <2>2, MovesFacts DEF RuntimeInv
  <2>4. LockInv' BY <2>1, <2>2, <2>3, <1>2, <1>3, LockLeaves DEF RuntimeInv
  <2>5. lock' \in Seq(Calls) BY <2>1, <1>1, <1>2 DEF Holds
  <2> QED BY <2>1, <2>2, <2>4, <2>5, <1>3, StageKeeps
<1>5. CASE ~life.stopped /\ calls[c].kind = "program"
  <2> DEFINE k == [calls[c] EXCEPT !.stage = "in"]
  <2>1. calls' = [calls EXCEPT ![c] = k] /\ lock' = lock BY <1>5 DEF Begin
  <2>2. k \in Operations /\ k.muts = <<>> /\ k.stage = "in" BY <1>2 DEF Operations
  <2> HIDE DEF k
  <2>3. Going(k.muts, store.bytes, Folded(Held)) BY <2>2 DEF Going
  <2> QED BY <2>1, <2>2, <2>3, <1>2, <1>3, InKeeps DEF Waits
<1>6. CASE ~life.stopped /\ calls[c].kind # "program"
  <2>1. lock' = lock BY <1>6 DEF Begin
  <2>2. PICK m \in Mutations(calls[c].kind) :
          calls' = [calls EXCEPT ![c].stage = "in", ![c].muts = <<m>>, ![c].returned = TRUE]
    BY <1>6 DEF Begin
  <2>3. calls[c].kind \in {"commit", "collect", "ingest"} BY <1>2, <1>6 DEF Operations, OperationKinds
  <2>4. m \in Put \cup Collection /\ m.step = "new" BY <2>2, <2>3, MutationFacts
  <2> DEFINE k == [calls[c] EXCEPT !.stage = "in", !.muts = <<m>>, !.returned = TRUE]
  <2>5. <<m>> \in Seq(Put \cup Collection) /\ Len(<<m>>) = 1 /\ <<m>>[1] = m BY <2>4
  <2>6. k \in Operations /\ k.muts = <<m>> /\ k.stage = "in" BY <1>2, <2>5 DEF Operations
  <2>7. calls' = [calls EXCEPT ![c] = k] BY <2>2, <1>1
  <2> HIDE DEF k
  <2>8. Going(<<m>>, store.bytes, Folded(Held)) BY <2>4, <2>5 DEF Going, Begun
  <2>9. Going(k.muts, store.bytes, Folded(Held)) BY <2>6, <2>8
  <2> QED BY <2>1, <2>6, <2>7, <2>9, <1>2, <1>3, InKeeps DEF Waits
<1> QED BY <1>4, <1>5, <1>6

(* What a program issues comes behind what it issued before.               *)
LEMMA IssueKeeps ==
    ASSUME RuntimeAssumption, RuntimeInv, NEW c \in Calls, Issue(c)
    PROVE  RuntimeInv'
<1>1. calls \in [Calls -> Operations] /\ calls[c] \in Operations BY DEF RuntimeInv, RuntimeTypeOK
<1>2. calls[c].stage = "in" /\ Holds(c) BY DEF Issue, Issuable, RuntimeInv, LockInv
<1>3. PICK kind \in {"commit", "collect", "ingest"} : \E m \in Mutations(kind) :
        calls' = [calls EXCEPT ![c].muts = Append(@, m), ![c].issued = @ + 1]
  BY DEF Issue
<1>4. PICK m \in Mutations(kind) : calls' = [calls EXCEPT ![c].muts = Append(@, m), ![c].issued = @ + 1]
  BY <1>3
<1>5. m \in Put \cup Collection /\ m.step = "new" BY <1>4, MutationFacts
<1>6. PICK s \in Seq(Put \cup Collection) : s = calls[c].muts BY <1>1 DEF Operations
<1>7. PICK t : t = Append(s, m) OBVIOUS
<1>8. t \in Seq(Put \cup Collection) /\ Len(t) = Len(s) + 1 /\ Len(s) \in Nat /\ (\A i \in 1..Len(s) : t[i] = s[i]) /\ t[Len(s) + 1] = m
  BY <1>5, <1>6, <1>7, IssuedFacts
<1> DEFINE k == [calls[c] EXCEPT !.muts = t, !.issued = calls[c].issued + 1]
<1>9. k \in Operations /\ k.muts = t /\ k.stage = "in"
  <2>1. calls[c].issued + 1 \in Nat BY <1>1 DEF Operations
  <2> QED BY <1>1, <1>2, <1>8, <2>1 DEF Operations
<1>10. calls' = [calls EXCEPT ![c] = k] BY <1>1, <1>4, <1>6, <1>7
<1> HIDE DEF k
<1>11. Going(s, store.bytes, Folded(Held)) BY <1>6 DEF RuntimeInv, MutationsInv
<1>12. \A i \in 1..Len(t) : i # 1 => t[i].step = "new"
  <2> SUFFICES ASSUME NEW i \in 1..Len(t), i # 1 PROVE t[i].step = "new"
    OBVIOUS
  <2>1. CASE i \in 1..Len(s) BY <2>1, <1>8, <1>11 DEF Going
  <2>2. CASE i = Len(s) + 1 BY <2>2, <1>5, <1>8
  <2> QED BY <1>8, <2>1, <2>2
<1>13. Begun(t[1], store.bytes, Folded(Held))
  <2>1. CASE s = <<>>
    <3>1. t[1] = m BY <2>1, <1>8
    <3> QED BY <3>1, <1>5 DEF Begun
  <2>2. CASE s # <<>>
    <3>1. 1 \in 1..Len(s) BY <2>2, <1>6
    <3>2. t[1] = s[1] BY <3>1, <1>8
    <3> QED BY <3>2, <2>2, <1>11 DEF Going
  <2> QED BY <2>1, <2>2
<1>14. Going(t, store.bytes, Folded(Held)) BY <1>12, <1>13 DEF Going
<1>15. UNCHANGED <<lock, store, reader, life>> BY DEF Issue
<1>16. Going(k.muts, store.bytes, Folded(Held)) BY <1>9, <1>14
<1> QED BY <1>2, <1>9, <1>10, <1>15, <1>16, InKeeps DEF Waits

(* A callback returns, and what it issued still runs.                      *)
LEMMA ReturnKeeps ==
    ASSUME RuntimeAssumption, RuntimeInv, NEW c \in Calls, Return(c)
    PROVE  RuntimeInv'
<1> DEFINE k == [calls[c] EXCEPT !.returned = TRUE]
<1>1. calls[c] \in Operations /\ calls[c].stage = "in" /\ Holds(c) BY DEF RuntimeInv, RuntimeTypeOK, Return, LockInv
<1>2. k \in Operations /\ k.muts = calls[c].muts /\ k.stage = "in" BY <1>1 DEF Operations
<1>3. calls' = [calls EXCEPT ![c] = k] /\ UNCHANGED <<lock, store, reader, life>> BY DEF Return
<1> HIDE DEF k
<1>4. Going(k.muts, store.bytes, Folded(Held)) BY <1>2 DEF RuntimeInv, MutationsInv
<1> QED BY <1>1, <1>2, <1>3, <1>4, InKeeps DEF Waits

(* An operation with nothing left to run lets the lock go on.              *)
LEMMA EndKeeps ==
    ASSUME RuntimeAssumption, RuntimeInv, NEW c \in Calls, End(c)
    PROVE  RuntimeInv'
<1> DEFINE x == [calls[c] EXCEPT !.stage = "answered"]
<1>1. calls[c] \in Operations /\ lock \in Seq(Calls) /\ Holds(c) /\ calls[c].muts = <<>> BY DEF RuntimeInv, RuntimeTypeOK, End, Ended
<1>2. calls' = [calls EXCEPT ![c] = x] /\ lock' = Tail(lock) /\ UNCHANGED <<store, reader, life>> BY DEF End
<1>3. x \in Operations /\ x.muts = calls[c].muts /\ x.stage = "answered" BY <1>1 DEF Operations
<1> HIDE DEF x
<1>4. calls'[c] = x /\ \A d \in Calls : d # c => calls'[d] = calls[d] BY <1>2, <1>3, MovesFacts DEF RuntimeInv
<1>5. LockInv' BY <1>1, <1>2, <1>3, <1>4, LockLeaves DEF RuntimeInv
<1>6. lock' \in Seq(Calls) BY <1>1, <1>2 DEF Holds
<1> QED BY <1>2, <1>3, <1>5, <1>6, StageKeeps

(* The holder's first mutation ends with nothing changed.                  *)
LEMMA DoneKeeps ==
    ASSUME RuntimeAssumption, RuntimeInv, NEW c \in Calls, calls[c].muts # <<>>, Done(c), UNCHANGED <<lock, store, reader, life>>
    PROVE  RuntimeInv'
<1>1. /\ calls' \in [Calls -> Operations] /\ \A d \in Calls : calls'[d].stage = calls[d].stage
      /\ \A d \in Calls : calls'[d].muts # <<>> => calls[d].stage = "in"
      /\ MutationsInv'
  BY MutationEnds
<1>2. RuntimeTypeOK' BY <1>1 DEF RuntimeInv, RuntimeTypeOK
<1>3. life'.is = "closed" => lock = <<>> BY DEF RuntimeInv, LockInv
<1>4. LockInv' BY <1>1, <1>3, LockStays DEF RuntimeInv
<1>5. RootsHeld' /\ FollowInv' BY StoreStays DEF Present
<1> QED BY <1>1, <1>2, <1>4, <1>5 DEF RuntimeInv

(* Or it goes on to its next step.                                         *)
LEMMA GoesKeeps ==
    ASSUME RuntimeAssumption, RuntimeInv, NEW c \in Calls, calls[c].muts # <<>>, NEW m \in Put \cup Collection,
           calls' = [calls EXCEPT ![c].muts = <<m>> \o Tail(@)],
           UNCHANGED <<lock, store, reader, life>>, Begun(m, store.bytes, Folded(Held))
    PROVE  RuntimeInv'
<1>1. /\ calls' \in [Calls -> Operations] /\ \A d \in Calls : calls'[d].stage = calls[d].stage
      /\ \A d \in Calls : calls'[d].muts # <<>> => calls[d].stage = "in"
      /\ MutationsInv'
  BY MutationGoes
<1>2. RuntimeTypeOK' BY <1>1 DEF RuntimeInv, RuntimeTypeOK
<1>3. life'.is = "closed" => lock = <<>> BY DEF RuntimeInv, LockInv
<1>4. LockInv' BY <1>1, <1>3, LockStays DEF RuntimeInv
<1>5. RootsHeld' /\ FollowInv' BY StoreStays DEF Present
<1> QED BY <1>1, <1>2, <1>4, <1>5 DEF RuntimeInv

(* The mutation a call is doing.                                           *)
LEMMA DoingFacts ==
    ASSUME RuntimeInv, NEW c \in Calls, NEW kinds, NEW step, Doing(c, kinds, step), NEW m, m = Head(calls[c].muts)
    PROVE  /\ calls[c].muts # <<>> /\ m = calls[c].muts[1] /\ m \in Put \cup Collection
           /\ m.kind \in kinds /\ m.step = step
           /\ Begun(m, store.bytes, Folded(Held))
<1>1. calls[c].muts # <<>> /\ m.kind \in kinds /\ m.step = step BY DEF Doing
<1>2. PICK s \in Seq(Put \cup Collection) : s = calls[c].muts BY DEF RuntimeInv, RuntimeTypeOK, Operations
<1>3. Head(s) = s[1] /\ s[1] \in Put \cup Collection BY <1>1, <1>2
<1>4. Begun(s[1], store.bytes, Folded(Held)) BY <1>1, <1>2 DEF RuntimeInv, MutationsInv, Going
<1> QED BY <1>1, <1>2, <1>3, <1>4

(* A write is staged over roots that are there, or ends.                   *)
LEMMA StageStepKeeps ==
    ASSUME RuntimeAssumption, RuntimeInv, NEW c \in Calls, Stage(c)
    PROVE  RuntimeInv'
<1>1. PICK m : m = Head(calls[c].muts) OBVIOUS
<1>2. Doing(c, {"commit", "ingest"}, "new") /\ UNCHANGED <<lock, store, reader, life>> BY DEF Stage
<1>3. calls[c].muts # <<>> /\ m \in Put \cup Collection /\ m.kind \in {"commit", "ingest"} BY <1>1, <1>2, DoingFacts
<1>4. m \in Put BY <1>3 DEF Collection
<1>5. CASE ~life.stopped /\ \A o \in RootsOf[m.event] \ m.put : Sound(o)
  <2> DEFINE n == [m EXCEPT !.step = "staged"]
  <2>1. n \in Put /\ n.step = "staged" /\ n.event = m.event /\ n.put = m.put BY <1>4 DEF Put
  <2>2. calls' = [calls EXCEPT ![c].muts = <<n>> \o Tail(@)] BY <1>1, <1>5 DEF Stage
  <2>3. Begun(n, store.bytes, Folded(Held)) BY <2>1, <1>5 DEF Begun, Sound
  <2> HIDE DEF n
  <2> QED BY <2>1, <2>2, <2>3, <1>2, <1>3, GoesKeeps
<1>6. CASE ~(~life.stopped /\ \A o \in RootsOf[m.event] \ m.put : Sound(o))
  <2>1. Done(c) BY <1>1, <1>6 DEF Stage
  <2> QED BY <2>1, <1>2, <1>3, DoneKeeps
<1> QED BY <1>5, <1>6

(* What lands is there, and what was there stays.                          *)
LEMMA LandFacts ==
    ASSUME RuntimeTypeOK, NEW put \in SUBSET Objects
    PROVE  /\ Landing(put) \subseteq Objects
           /\ Land(put) \in [Objects -> {"absent", "sound", "bad"}]
           /\ \A o \in put : Land(put)[o] # "absent"
           /\ \A o \in Objects : Present(o) => Land(put)[o] # "absent"
<1>1. store.bytes \in [Objects -> {"absent", "sound", "bad"}] BY DEF RuntimeTypeOK
<1> QED BY <1>1 DEF Landing, Land, Sound, Present

(* What is accepted once e is.                                             *)
AcceptedWith(a, e) ==
    /\ a \in Seq(Events)
    /\ \A i, j \in 1..Len(a) : a[i] = a[j] => i = j
    /\ Len(store.accepted) \in Nat /\ Len(a) \in Nat /\ Len(a) >= Len(store.accepted)
    /\ \A i \in 1..Len(store.accepted) : a[i] = store.accepted[i]
    /\ \A x : x \in Held \cup {e} <=> \E i \in DOMAIN a : a[i] = x

(* What is accepted is accepted once.                                      *)
LEMMA AcceptFacts ==
    ASSUME RuntimeInv, NEW e \in Events
    PROVE  AcceptedWith(Accept(store.accepted, e), e)
<1> SUFFICES ASSUME NEW a, a = Accept(store.accepted, e) PROVE AcceptedWith(a, e)
  OBVIOUS
<1>1. PICK s \in Seq(Events) : s = store.accepted BY DEF RuntimeInv, RuntimeTypeOK
<1>2. \A i, j \in 1..Len(s) : s[i] = s[j] => i = j BY <1>1 DEF RuntimeInv, FollowInv
<1>3. Held = {s[i] : i \in 1..Len(s)} BY <1>1 DEF Held
<1>4. CASE e \in Held
  <2>1. a = s BY <1>1, <1>4 DEF Accept
  <2>2. \A x : x \in Held \cup {e} <=> \E i \in DOMAIN a : a[i] = x BY <2>1, <1>1, <1>3, <1>4
  <2> QED BY <2>1, <2>2, <1>1, <1>2 DEF AcceptedWith
<1>5. CASE e \notin Held
  <2>1. a = Append(s, e) BY <1>1, <1>5 DEF Accept
  <2>2. a \in Seq(Events) /\ Len(a) = Len(s) + 1 /\ Len(s) \in Nat /\ DOMAIN a = 1..(Len(s) + 1) BY <2>1
  <2>3. a[Len(s) + 1] = e /\ \A i \in 1..Len(s) : a[i] = s[i] BY <2>1
  <2>4. \A i \in 1..Len(s) : s[i] # e BY <1>3, <1>5
  <2>5. \A i, j \in 1..Len(a) : a[i] = a[j] => i = j
    <3> SUFFICES ASSUME NEW i \in 1..Len(a), NEW j \in 1..Len(a), a[i] = a[j] PROVE i = j
      OBVIOUS
    <3>1. CASE i \in 1..Len(s) /\ j \in 1..Len(s) BY <3>1, <2>3, <1>2
    <3>2. CASE i = Len(s) + 1 BY <3>2, <2>2, <2>3, <2>4
    <3>3. CASE j = Len(s) + 1 BY <3>3, <2>2, <2>3, <2>4
    <3> QED BY <2>2, <3>1, <3>2, <3>3
  <2>6. \A x : x \in Held \cup {e} <=> \E i \in DOMAIN a : a[i] = x
    <3> TAKE x
    <3>1. ASSUME NEW i \in DOMAIN a, a[i] = x PROVE x \in Held \cup {e}
      <4>1. CASE i \in 1..Len(s) BY <3>1, <4>1, <2>3, <1>3
      <4>2. CASE i = Len(s) + 1 BY <3>1, <4>2, <2>3
      <4> QED BY <4>1, <4>2, <2>2
    <3>2. ASSUME x = e PROVE \E i \in DOMAIN a : a[i] = x
      <4>1. Len(s) + 1 \in DOMAIN a BY <2>2
      <4> QED BY <3>2, <4>1, <2>3
    <3>3. ASSUME x \in Held PROVE \E i \in DOMAIN a : a[i] = x
      <4>1. PICK i \in 1..Len(s) : x = s[i] BY <3>3, <1>3
      <4>2. i \in DOMAIN a BY <2>2
      <4> QED BY <4>1, <4>2, <2>3
    <3> QED BY <3>1, <3>2, <3>3
  <2>7. Len(a) >= Len(s) /\ Len(a) \in Nat BY <2>2
  <2> QED BY <2>2, <2>3, <2>5, <2>6, <2>7, <1>1 DEF AcceptedWith
<1> QED BY <1>4, <1>5

(* The store after an event and its objects were accepted.                 *)
LEMMA AcceptedKeeps ==
    ASSUME RuntimeAssumption, RuntimeInv, NEW c \in Calls, calls[c].muts # <<>>, Done(c),
           NEW m \in Put, Begun(m, store.bytes, Folded(Held)), m.step = "staged",
           lock' = lock, life'.is = life.is, life' \in [is : {"open", "closing", "closed"}, stopped : BOOLEAN],
           store'.accepted = Accept(store.accepted, m.event), store'.bytes = Land(m.put),
           store' \in [accepted : Seq(Events), bytes : [Objects -> {"absent", "sound", "bad"}], damaged : SUBSET Objects, ruined : Nat],
           reader'.token = reader.token, reader'.seen = reader.seen,
           reader' \in [stream : [cid : Objects \cup {"none"}, stale : BOOLEAN], token : Nat, seen : Seq(Events)]
    PROVE  RuntimeInv'
<1>1. /\ calls' \in [Calls -> Operations] /\ \A d \in Calls : calls'[d].stage = calls[d].stage
      /\ \A d \in Calls : calls'[d].muts # <<>> => calls[d].stage = "in"
      /\ MutationsInv'
  BY MutationEnds
<1>2. RuntimeTypeOK' BY <1>1 DEF RuntimeInv, RuntimeTypeOK
<1>3. life'.is = "closed" => lock = <<>> BY DEF RuntimeInv, LockInv
<1>4. LockInv' BY <1>1, <1>3, LockStays DEF RuntimeInv
<1>5. m.event \in Events /\ m.put \in SUBSET Objects BY DEF Put
<1>6. PICK a : a = Accept(store.accepted, m.event) OBVIOUS
<1>7. AcceptedWith(a, m.event) BY <1>5, <1>6, AcceptFacts
<1>8. store'.accepted = a BY <1>6
<1>9. Held' = Held \cup {m.event}
  <2>1. Held' = {a[i] : i \in DOMAIN a} BY <1>8 DEF Held
  <2>2. \A x : x \in Held \cup {m.event} <=> \E i \in DOMAIN a : a[i] = x BY <1>7 DEF AcceptedWith
  <2> QED BY <2>1, <2>2
<1>10. Folded(Held)' \subseteq Folded(Held) \cup RootsOf[m.event]
  <2>1. Folded(Held)' = Folded(Held \cup {m.event}) BY <1>9 DEF Folded
  <2> QED BY <2>1, FoldedGrows
<1>11. RootsHeld'
  <2> SUFFICES ASSUME NEW o \in Folded(Held)' PROVE o \in Objects /\ store'.bytes[o] # "absent"
    BY DEF RootsHeld
  <2>1. CASE o \in Folded(Held)
    <3>1. o \in Objects /\ Present(o) BY <2>1 DEF RuntimeInv, RootsHeld, Present
    <3> QED BY <3>1, <1>5, LandFacts DEF RuntimeInv
  <2>2. CASE o \in RootsOf[m.event]
    <3>1. o \in Objects BY <2>2, <1>5 DEF RuntimeAssumption
    <3>2. CASE o \in m.put BY <3>2, <1>5, <3>1, LandFacts DEF RuntimeInv
    <3>3. CASE o \notin m.put
      <4>1. Present(o) BY <3>3, <2>2 DEF Begun, Present
      <4> QED BY <4>1, <3>1, <1>5, LandFacts DEF RuntimeInv
    <3> QED BY <3>2, <3>3
  <2> QED BY <1>10, <2>1, <2>2
<1>12. FollowInv'
  <2>1. reader.token \in Nat /\ reader.token <= Len(store.accepted) BY DEF RuntimeInv, RuntimeTypeOK, FollowInv
  <2>2. \A i \in 1..reader.token : reader.seen[i] = a[i]
    <3> TAKE i \in 1..reader.token
    <3>1. i \in 1..Len(store.accepted) BY <2>1, <1>7 DEF AcceptedWith
    <3> QED BY <3>1, <1>7 DEF RuntimeInv, FollowInv, AcceptedWith
  <2>3. Len(reader.seen) = reader.token BY DEF RuntimeInv, FollowInv
  <2>4. /\ \A i, j \in 1..Len(a) : a[i] = a[j] => i = j
        /\ Len(a) \in Nat /\ Len(store.accepted) \in Nat /\ Len(a) >= Len(store.accepted)
    BY <1>7 DEF AcceptedWith
  <2>5. reader.token <= Len(a) BY <2>1, <2>4
  <2> QED BY <2>2, <2>3, <2>4, <2>5, <1>8 DEF FollowInv
<1> QED BY <1>1, <1>2, <1>4, <1>11, <1>12 DEF RuntimeInv

(* A write is published, refused, or its outcome is not known.             *)
LEMMA PublishKeeps ==
    ASSUME RuntimeAssumption, RuntimeInv, NEW c \in Calls, Publish(c)
    PROVE  RuntimeInv'
<1>1. PICK m : m = Head(calls[c].muts) OBVIOUS
<1> DEFINE landed == [store EXCEPT !.accepted = Accept(store.accepted, m.event), !.bytes = Land(m.put), !.damaged = store.damaged \ m.put]
<1>2. Doing(c, {"commit", "ingest"}, "staged") /\ Done(c) /\ lock' = lock BY DEF Publish
<1>3. /\ calls[c].muts # <<>> /\ m \in Put \cup Collection /\ m.kind \in {"commit", "ingest"} /\ m.step = "staged"
      /\ Begun(m, store.bytes, Folded(Held))
  BY <1>1, <1>2, DoingFacts
<1>4. m \in Put BY <1>3 DEF Collection
<1>5. m.event \in Events /\ m.put \in SUBSET Objects BY <1>4 DEF Put
<1>6. /\ store \in [accepted : Seq(Events), bytes : [Objects -> {"absent", "sound", "bad"}], damaged : SUBSET Objects, ruined : Nat]
      /\ reader \in [stream : [cid : Objects \cup {"none"}, stale : BOOLEAN], token : Nat, seen : Seq(Events)]
      /\ life \in [is : {"open", "closing", "closed"}, stopped : BOOLEAN]
  BY DEF RuntimeInv, RuntimeTypeOK
<1>7. Accept(store.accepted, m.event) \in Seq(Events) BY <1>5, AcceptFacts DEF AcceptedWith
<1>8. Land(m.put) \in [Objects -> {"absent", "sound", "bad"}] BY <1>5, LandFacts DEF RuntimeInv
<1>9. /\ landed \in [accepted : Seq(Events), bytes : [Objects -> {"absent", "sound", "bad"}], damaged : SUBSET Objects, ruined : Nat]
      /\ landed.accepted = Accept(store.accepted, m.event) /\ landed.bytes = Land(m.put)
  BY <1>6, <1>7, <1>8
<1>10. CASE UNCHANGED <<store, reader, life>> BY <1>2, <1>3, <1>10, DoneKeeps
<1>11. CASE store' = landed /\ reader' = Moved(Landing(m.put)) /\ UNCHANGED life
  <2>1. /\ reader' \in [stream : [cid : Objects \cup {"none"}, stale : BOOLEAN], token : Nat, seen : Seq(Events)]
        /\ reader'.token = reader.token /\ reader'.seen = reader.seen
    BY <1>6, <1>11 DEF Moved
  <2> HIDE DEF landed
  <2> QED BY <2>1, <1>2, <1>3, <1>4, <1>6, <1>9, <1>11, AcceptedKeeps
<1>12. CASE /\ \E x \in {store, landed} : store' = [x EXCEPT !.ruined = @ + 1]
            /\ life' = [life EXCEPT !.stopped = TRUE] /\ UNCHANGED reader
  <2>1. life' \in [is : {"open", "closing", "closed"}, stopped : BOOLEAN] /\ life'.is = life.is BY <1>6, <1>12
  <2>2. PICK x \in {store, landed} : store' = [x EXCEPT !.ruined = x.ruined + 1] BY <1>12
  <2> HIDE DEF landed
  <2>3. x \in [accepted : Seq(Events), bytes : [Objects -> {"absent", "sound", "bad"}], damaged : SUBSET Objects, ruined : Nat]
    BY <2>2, <1>6, <1>9
  <2>4. /\ store' \in [accepted : Seq(Events), bytes : [Objects -> {"absent", "sound", "bad"}], damaged : SUBSET Objects, ruined : Nat]
        /\ store'.accepted = x.accepted /\ store'.bytes = x.bytes
    BY <2>2, <2>3
  <2>5. CASE x = store
    <3>1. store'.accepted = store.accepted /\ store'.bytes = store.bytes BY <2>4, <2>5
    <3>2. /\ calls' \in [Calls -> Operations] /\ \A d \in Calls : calls'[d].stage = calls[d].stage
          /\ \A d \in Calls : calls'[d].muts # <<>> => calls[d].stage = "in"
          /\ MutationsInv'
      BY <1>2, <1>3, MutationEnds
    <3>3. RuntimeTypeOK' BY <1>2, <1>12, <2>1, <2>4, <3>2 DEF RuntimeInv, RuntimeTypeOK
    <3>4. life'.is = "closed" => lock = <<>> BY <2>1 DEF RuntimeInv, LockInv
    <3>5. LockInv' BY <1>2, <3>2, <3>4, LockStays DEF RuntimeInv
    <3>6. RootsHeld' /\ FollowInv' BY <1>12, <3>1, StoreStays DEF Present
    <3> QED BY <3>2, <3>3, <3>5, <3>6 DEF RuntimeInv
  <2>6. CASE x = landed
    <3>1. store'.accepted = Accept(store.accepted, m.event) /\ store'.bytes = Land(m.put) BY <2>4, <2>6, <1>9
    <3>2. reader' = reader BY <1>12
    <3> QED BY <3>1, <3>2, <2>1, <2>4, <1>2, <1>3, <1>4, <1>6, AcceptedKeeps
  <2> QED BY <2>2, <2>5, <2>6
<1> QED BY <1>1, <1>10, <1>11, <1>12 DEF Publish

(* A collection folds what to keep from what is held.                      *)
LEMMA KeepFoldKeeps ==
    ASSUME RuntimeAssumption, RuntimeInv, NEW c \in Calls, KeepFold(c)
    PROVE  RuntimeInv'
<1>1. PICK m : m = Head(calls[c].muts) OBVIOUS
<1>2. Doing(c, {"collect"}, "new") /\ UNCHANGED <<lock, store, reader, life>> BY DEF KeepFold
<1>3. calls[c].muts # <<>> /\ m \in Put \cup Collection /\ m.kind \in {"collect"} BY <1>1, <1>2, DoingFacts
<1>4. m \in Collection BY <1>3 DEF Put
<1>5. CASE ~life.stopped
  <2> DEFINE n == [m EXCEPT !.step = "kept", !.keep = Folded(Held)]
  <2>1. Folded(Held) \subseteq Objects BY FoldedFacts DEF RuntimeInv
  <2>2. n \in Collection /\ n.step = "kept" /\ n.keep = Folded(Held) BY <1>4, <2>1 DEF Collection
  <2>3. calls' = [calls EXCEPT ![c].muts = <<n>> \o Tail(@)] BY <1>1, <1>5 DEF KeepFold
  <2>4. Begun(n, store.bytes, Folded(Held)) BY <2>2 DEF Begun
  <2> HIDE DEF n
  <2> QED BY <2>2, <2>3, <2>4, <1>2, <1>3, GoesKeeps
<1>6. CASE life.stopped
  <2>1. Done(c) BY <1>6 DEF KeepFold
  <2> QED BY <2>1, <1>2, <1>3, DoneKeeps
<1> QED BY <1>5, <1>6

(* A fold that writes fails, and its collection ends.                      *)
LEMMA KeepMisusedKeeps ==
    ASSUME RuntimeAssumption, RuntimeInv, NEW c \in Calls, KeepMisused(c)
    PROVE  RuntimeInv'
<1>1. calls[c].muts # <<>> /\ Done(c) /\ UNCHANGED <<lock, store, reader, life>> BY DEF KeepMisused, KeepWrites, Doing
<1> QED BY <1>1, DoneKeeps

(* A collection deletes nothing the events hold, since nothing was         *)
(* accepted since its fold.                                                *)
LEMMA DeleteKeeps ==
    ASSUME RuntimeAssumption, RuntimeInv, NEW c \in Calls, Delete(c)
    PROVE  RuntimeInv'
<1>1. PICK m : m = Head(calls[c].muts) OBVIOUS
<1>2. Doing(c, {"collect"}, "kept") /\ Done(c) /\ UNCHANGED <<lock, life>> BY DEF Delete
<1>3. calls[c].muts # <<>> /\ m.step = "kept" /\ Begun(m, store.bytes, Folded(Held)) BY <1>1, <1>2, DoingFacts
<1>4. m.keep = Folded(Held) BY <1>3 DEF Begun
<1>5. /\ store \in [accepted : Seq(Events), bytes : [Objects -> {"absent", "sound", "bad"}], damaged : SUBSET Objects, ruined : Nat]
      /\ reader \in [stream : [cid : Objects \cup {"none"}, stale : BOOLEAN], token : Nat, seen : Seq(Events)]
  BY DEF RuntimeInv, RuntimeTypeOK
<1>6. CASE life.stopped
  <2>1. UNCHANGED <<store, reader>> BY <1>6 DEF Delete
  <2> QED BY <2>1, <1>2, <1>3, DoneKeeps
<1>7. CASE ~life.stopped
  <2> DEFINE removed == {o \in Objects : store.bytes[o] # "absent"} \ m.keep
             bytes == [o \in Objects |-> IF o \in removed THEN "absent" ELSE store.bytes[o]]
  <2>1. /\ store' = [store EXCEPT !.bytes = bytes, !.damaged = store.damaged \ removed]
        /\ reader' = Moved(removed)
    BY <1>1, <1>7 DEF Delete
  <2>2. bytes \in [Objects -> {"absent", "sound", "bad"}] BY <1>5
  <2>3. \A o \in m.keep : o \in Objects => bytes[o] = store.bytes[o] OBVIOUS
  <2> HIDE DEF removed, bytes
  <2>4. /\ store' \in [accepted : Seq(Events), bytes : [Objects -> {"absent", "sound", "bad"}], damaged : SUBSET Objects, ruined : Nat]
        /\ store'.accepted = store.accepted /\ store'.bytes = bytes
    BY <2>1, <2>2, <1>5
  <2>5. /\ reader' \in [stream : [cid : Objects \cup {"none"}, stale : BOOLEAN], token : Nat, seen : Seq(Events)]
        /\ reader'.token = reader.token /\ reader'.seen = reader.seen
    BY <2>1, <1>5 DEF Moved
  <2>6. /\ calls' \in [Calls -> Operations] /\ \A d \in Calls : calls'[d].stage = calls[d].stage
        /\ \A d \in Calls : calls'[d].muts # <<>> => calls[d].stage = "in"
        /\ MutationsInv'
    BY <1>2, <1>3, MutationEnds
  <2>7. RuntimeTypeOK' BY <1>2, <2>4, <2>5, <2>6 DEF RuntimeInv, RuntimeTypeOK
  <2>8. life'.is = "closed" => lock = <<>> BY <1>2 DEF RuntimeInv, LockInv
  <2>9. LockInv' BY <1>2, <2>6, <2>8, LockStays DEF RuntimeInv
  <2>10. Held' = Held BY <2>4 DEF Held
  <2>11. Folded(Held)' = Folded(Held) BY <2>10 DEF Folded
  <2>12. RootsHeld'
    <3> SUFFICES ASSUME NEW o \in Folded(Held) PROVE o \in Objects /\ bytes[o] # "absent"
      BY <2>4, <2>11 DEF RootsHeld
    <3>1. o \in Objects /\ store.bytes[o] # "absent" BY DEF RuntimeInv, RootsHeld
    <3> QED BY <3>1, <2>3, <1>4
  <2>13. FollowInv' BY <2>4, <2>5 DEF RuntimeInv, FollowInv
  <2> QED BY <2>6, <2>7, <2>9, <2>12, <2>13 DEF RuntimeInv
<1> QED BY <1>6, <1>7

(* The stores are as they were but for bytes gone bad, damage found or     *)
(* forgotten, and what is read.                                            *)
LEMMA ReadKeeps ==
    ASSUME RuntimeAssumption, RuntimeInv, calls' = calls, lock' = lock,
           store'.accepted = store.accepted,
           store' \in [accepted : Seq(Events), bytes : [Objects -> {"absent", "sound", "bad"}], damaged : SUBSET Objects, ruined : Nat],
           \A o \in Objects : Present(o) => store'.bytes[o] # "absent",
           reader' \in [stream : [cid : Objects \cup {"none"}, stale : BOOLEAN], token : Nat, seen : Seq(Events)],
           FollowInv',
           life' \in [is : {"open", "closing", "closed"}, stopped : BOOLEAN],
           life'.is = "closed" => lock = <<>>
    PROVE  RuntimeInv'
<1>1. RuntimeTypeOK' BY DEF RuntimeInv, RuntimeTypeOK
<1>2. \A c \in Calls : calls'[c].stage = calls[c].stage /\ calls'[c].muts = calls[c].muts OBVIOUS
<1>3. \A c \in Calls : calls'[c].muts # <<>> => calls[c].stage = "in" BY <1>2 DEF RuntimeInv, LockInv
<1>4. LockInv' BY <1>2, <1>3, LockStays DEF RuntimeInv
<1>5. MutationsInv' BY <1>2, MutationsStay
<1>6. RootsHeld' BY StoreStays
<1> QED BY <1>1, <1>4, <1>5, <1>6 DEF RuntimeInv

(* Reading, decay and closing take nothing away.                           *)
LEMMA ReaderKeeps ==
    ASSUME RuntimeAssumption, RuntimeInv,
           \/ \E o \in Objects : ReadStream(o) \/ Ruin(o)
           \/ ReadStreamEnds \/ Follow \/ CloseVault \/ Closed \/ Reopen
    PROVE  RuntimeInv'
<1>1. /\ store \in [accepted : Seq(Events), bytes : [Objects -> {"absent", "sound", "bad"}], damaged : SUBSET Objects, ruined : Nat]
      /\ reader \in [stream : [cid : Objects \cup {"none"}, stale : BOOLEAN], token : Nat, seen : Seq(Events)]
      /\ life \in [is : {"open", "closing", "closed"}, stopped : BOOLEAN]
      /\ life.is = "closed" => lock = <<>>
  BY DEF RuntimeInv, RuntimeTypeOK, LockInv
<1>2. ASSUME store'.accepted = store.accepted, reader'.token = reader.token, reader'.seen = reader.seen PROVE FollowInv'
  BY <1>2 DEF RuntimeInv, FollowInv
<1>3. ASSUME NEW o \in Objects, ReadStream(o) PROVE RuntimeInv'
  <2>1. reader' = [reader EXCEPT !.stream = [cid |-> o, stale |-> FALSE]] /\ UNCHANGED <<calls, lock, store, life>> BY <1>3 DEF ReadStream
  <2>2. /\ reader' \in [stream : [cid : Objects \cup {"none"}, stale : BOOLEAN], token : Nat, seen : Seq(Events)]
        /\ reader'.token = reader.token /\ reader'.seen = reader.seen
    BY <1>1, <2>1
  <2> QED BY <1>1, <1>2, <2>1, <2>2, ReadKeeps DEF Present
<1>4. ASSUME NEW o \in Objects, Ruin(o) PROVE RuntimeInv'
  <2>1. store' = [store EXCEPT !.bytes[o] = "bad", !.ruined = store.ruined + 1] /\ UNCHANGED <<calls, lock, reader, life>> BY <1>4 DEF Ruin
  <2>2. store.ruined + 1 \in Nat BY <1>1
  <2>3. [store.bytes EXCEPT ![o] = "bad"] \in [Objects -> {"absent", "sound", "bad"}] BY <1>1
  <2>4. store' = [store EXCEPT !.bytes = [store.bytes EXCEPT ![o] = "bad"], !.ruined = store.ruined + 1] BY <2>1, <1>1
  <2>5. /\ store' \in [accepted : Seq(Events), bytes : [Objects -> {"absent", "sound", "bad"}], damaged : SUBSET Objects, ruined : Nat]
        /\ store'.accepted = store.accepted /\ store'.bytes = [store.bytes EXCEPT ![o] = "bad"]
    BY <2>2, <2>3, <2>4, <1>1
  <2>6. \A x \in Objects : Present(x) => store'.bytes[x] # "absent" BY <2>5, <1>1 DEF Present
  <2> QED BY <1>1, <1>2, <2>1, <2>5, <2>6, ReadKeeps
<1>5. ASSUME ReadStreamEnds PROVE RuntimeInv'
  <2>1. UNCHANGED <<calls, lock, life>> /\ reader.stream.cid # "none" /\ reader' = [reader EXCEPT !.stream = NoStream] BY <1>5 DEF ReadStreamEnds
  <2>2. /\ reader' \in [stream : [cid : Objects \cup {"none"}, stale : BOOLEAN], token : Nat, seen : Seq(Events)]
        /\ reader'.token = reader.token /\ reader'.seen = reader.seen
    BY <1>1, <2>1 DEF NoStream
  <2>3. reader.stream.cid \in Objects BY <1>1, <2>1
  <2>4. store' = store \/ store' = [store EXCEPT !.damaged = store.damaged \cup {reader.stream.cid}] BY <1>5 DEF ReadStreamEnds
  <2>5. /\ store' \in [accepted : Seq(Events), bytes : [Objects -> {"absent", "sound", "bad"}], damaged : SUBSET Objects, ruined : Nat]
        /\ store'.accepted = store.accepted /\ store'.bytes = store.bytes
    BY <1>1, <2>3, <2>4
  <2> QED BY <1>1, <1>2, <2>1, <2>2, <2>5, ReadKeeps DEF Present
<1>6. ASSUME Follow PROVE RuntimeInv'
  <2>1. UNCHANGED <<calls, lock, store, life>> BY <1>6 DEF Follow
  <2>2. PICK a \in Seq(Events) : a = store.accepted BY <1>1
  <2>3. PICK s \in Seq(Events) : s = reader.seen BY <1>1
  <2>4. PICK t \in Nat : t = reader.token /\ t < Len(a) BY <1>1, <1>6, <2>2 DEF Follow
  <2>5. Len(s) = t /\ \A i \in 1..t : s[i] = a[i] BY <2>2, <2>3, <2>4 DEF RuntimeInv, FollowInv
  <2>6. SubSeq(a, t + 1, Len(a)) \in Seq(Events) /\ Len(SubSeq(a, t + 1, Len(a))) = Len(a) - t
        /\ \A i \in 1..(Len(a) - t) : SubSeq(a, t + 1, Len(a))[i] = a[t + i]
    <3>1. t <= Len(a) BY <2>2, <2>4
    <3> QED BY <3>1, AfterFacts
  <2>7. PICK u \in Seq(Events) : u = SubSeq(a, t + 1, Len(a)) BY <2>6
  <2>8. PICK v \in Seq(Events) : v = s \o u BY BehindFacts
  <2>9. Len(v) = Len(a) /\ \A i \in 1..Len(a) : v[i] = a[i]
    <3>1. Len(a) \in Nat /\ Len(s) = t /\ Len(u) = Len(a) - t /\ \A i \in 1..(Len(a) - t) : u[i] = a[t + i]
      BY <2>2, <2>5, <2>6, <2>7
    <3>2. Len(v) = t + Len(u) /\ (\A i \in 1..t : v[i] = s[i]) /\ \A i \in 1..Len(u) : v[t + i] = u[i]
      BY <2>8, <3>1, BehindFacts
    <3>3. \A i \in 1..t : v[i] = a[i] BY <3>2, <2>5
    <3>4. \A i \in 1..Len(a) : i > t => v[i] = a[i]
      <4> SUFFICES ASSUME NEW i \in 1..Len(a), i > t PROVE v[i] = a[i]
        OBVIOUS
      <4>1. i - t \in 1..(Len(a) - t) /\ t + (i - t) = i BY <3>1, <2>4
      <4> QED BY <4>1, <3>1, <3>2
    <3>5. \A i \in 1..Len(a) : i <= t => i \in 1..t BY <2>4
    <3>6. \A i \in 1..Len(a) : i <= t \/ i > t BY <2>4
    <3>7. Len(v) = Len(a) BY <3>1, <3>2, <2>4
    <3> QED BY <3>3, <3>4, <3>5, <3>6, <3>7
  <2>10. reader' = [reader EXCEPT !.token = Len(a), !.seen = v] BY <1>6, <2>2, <2>3, <2>4, <2>7, <2>8 DEF Follow
  <2>11. Len(a) \in Nat BY <2>2
  <2>14. /\ reader' \in [stream : [cid : Objects \cup {"none"}, stale : BOOLEAN], token : Nat, seen : Seq(Events)]
         /\ reader'.token = Len(a) /\ reader'.seen = v
    BY <1>1, <2>8, <2>10, <2>11
  <2>16. \A i, j \in 1..Len(a) : a[i] = a[j] => i = j BY <2>2 DEF RuntimeInv, FollowInv
  <2>17. FollowInv' BY <2>1, <2>2, <2>9, <2>11, <2>14, <2>16 DEF FollowInv
  <2> QED BY <1>1, <2>1, <2>14, <2>17, ReadKeeps DEF Present
<1>7. ASSUME CloseVault PROVE RuntimeInv'
  <2>1. life' = [life EXCEPT !.is = "closing"] /\ UNCHANGED <<calls, lock, store, reader>> BY <1>7 DEF CloseVault
  <2>2. life' \in [is : {"open", "closing", "closed"}, stopped : BOOLEAN] /\ life'.is = "closing" BY <2>1, <1>1
  <2> QED BY <1>1, <1>2, <2>1, <2>2, ReadKeeps DEF Present
<1>8. ASSUME Closed PROVE RuntimeInv'
  <2>1. lock = <<>> /\ life' = [life EXCEPT !.is = "closed"] /\ UNCHANGED <<calls, lock, store, reader>> BY <1>8 DEF Closed, Idle
  <2>2. life' \in [is : {"open", "closing", "closed"}, stopped : BOOLEAN] BY <2>1, <1>1
  <2> QED BY <1>1, <1>2, <2>1, <2>2, ReadKeeps DEF Present
<1>9. ASSUME Reopen PROVE RuntimeInv'
  <2>1. /\ life' = [is |-> "open", stopped |-> FALSE] /\ store' = [store EXCEPT !.damaged = {}]
        /\ reader' = [reader EXCEPT !.stream = NoStream] /\ UNCHANGED <<calls, lock>>
    BY <1>9 DEF Reopen
  <2>2. life' \in [is : {"open", "closing", "closed"}, stopped : BOOLEAN] /\ life'.is = "open" BY <2>1
  <2>3. /\ store' \in [accepted : Seq(Events), bytes : [Objects -> {"absent", "sound", "bad"}], damaged : SUBSET Objects, ruined : Nat]
        /\ store'.accepted = store.accepted /\ store'.bytes = store.bytes
    BY <2>1, <1>1
  <2>4. /\ reader' \in [stream : [cid : Objects \cup {"none"}, stale : BOOLEAN], token : Nat, seen : Seq(Events)]
        /\ reader'.token = reader.token /\ reader'.seen = reader.seen
    BY <1>1, <2>1 DEF NoStream
  <2> QED BY <1>2, <2>1, <2>2, <2>3, <2>4, ReadKeeps DEF Present
<1> QED BY <1>3, <1>4, <1>5, <1>6, <1>7, <1>8, <1>9

-----------------------------------------------------------------------------
(* At first nothing is held, and nobody has called.                        *)
LEMMA RuntimeStarts == RuntimeInit => RuntimeInv
<1> SUFFICES ASSUME RuntimeInit PROVE RuntimeInv
  OBVIOUS
<1>1. RuntimeTypeOK BY DEF RuntimeInit, RuntimeTypeOK, Operations, OperationKinds, NoStream
<1>2. LockInv BY DEF RuntimeInit, LockInv, Waits
<1>3. MutationsInv BY DEF RuntimeInit, MutationsInv, Going
<1>4. RootsHeld
  <2>1. Held = {} BY DEF RuntimeInit, Held
  <2> QED BY <2>1 DEF RootsHeld, Folded
<1>5. FollowInv BY DEF RuntimeInit, FollowInv
<1> QED BY <1>1, <1>2, <1>3, <1>4, <1>5 DEF RuntimeInv

(* Every step of the runtime keeps the invariant.                          *)
LEMMA RuntimeStep == RuntimeAssumption /\ RuntimeInv /\ [RuntimeNext]_rtvars => RuntimeInv'
<1> SUFFICES ASSUME RuntimeAssumption, RuntimeInv, [RuntimeNext]_rtvars PROVE RuntimeInv'
  OBVIOUS
<1>1. ASSUME NEW c \in Calls, NEW kind \in OperationKinds, Call(c, kind) PROVE RuntimeInv' BY <1>1, CallKeeps
<1>2. ASSUME NEW c \in Calls, ReadAll(c) PROVE RuntimeInv' BY <1>2, ReadAllKeeps
<1>3. ASSUME NEW c \in Calls, Begin(c) PROVE RuntimeInv' BY <1>3, BeginKeeps
<1>4. ASSUME NEW c \in Calls, Return(c) PROVE RuntimeInv' BY <1>4, ReturnKeeps
<1>5. ASSUME NEW c \in Calls, End(c) PROVE RuntimeInv' BY <1>5, EndKeeps
<1>6. ASSUME NEW c \in Calls, Stage(c) PROVE RuntimeInv' BY <1>6, StageStepKeeps
<1>7. ASSUME NEW c \in Calls, Publish(c) PROVE RuntimeInv' BY <1>7, PublishKeeps
<1>8. ASSUME NEW c \in Calls, KeepFold(c) PROVE RuntimeInv' BY <1>8, KeepFoldKeeps
<1>9. ASSUME NEW c \in Calls, Delete(c) PROVE RuntimeInv' BY <1>9, DeleteKeeps
<1>10. ASSUME NEW c \in Calls, Issue(c) PROVE RuntimeInv' BY <1>10, IssueKeeps
<1>11. ASSUME NEW c \in Calls, KeepMisused(c) PROVE RuntimeInv' BY <1>11, KeepMisusedKeeps
<1>12. ASSUME UNCHANGED rtvars PROVE RuntimeInv'
  <2>1. UNCHANGED <<calls, lock, store, reader, life>> BY <1>12 DEF rtvars
  <2>2. FollowInv' BY <2>1 DEF RuntimeInv, FollowInv
  <2> QED BY <2>1, <2>2, ReadKeeps DEF RuntimeInv, RuntimeTypeOK, LockInv, Present
<1>13. ASSUME Owed PROVE RuntimeInv'
  <2>1. CASE Closed BY <2>1, ReaderKeeps
  <2> QED BY <1>13, <2>1, <1>2, <1>3, <1>4, <1>5, <1>6, <1>7, <1>8, <1>9 DEF Owed
<1> QED BY <1>1, <1>10, <1>11, <1>12, <1>13, ReaderKeeps DEF RuntimeNext

(* The lock keeps its invariant in every behaviour of the runtime.         *)
THEOREM RuntimeInvariant == RuntimeAssumption /\ RuntimeSpec => []RuntimeInv
<1>1. RuntimeInit => RuntimeInv BY RuntimeStarts
<1>2. RuntimeAssumption /\ RuntimeInv /\ [RuntimeNext]_rtvars => RuntimeInv' BY RuntimeStep
<1> SUFFICES ASSUME RuntimeAssumption PROVE RuntimeSpec => []RuntimeInv
  OBVIOUS
<1>3. RuntimeInv /\ [RuntimeNext]_rtvars => RuntimeInv' BY <1>2
<1> QED BY <1>1, <1>3, PTL DEF RuntimeSpec

(* Whatever commits, imports and collections were issued together, every   *)
(* root the accepted events hold has its object (vault.ts WriterLock, enter,*)
(* Operation.mutate): no collection deletes what another commit relies on. *)
THEOREM RuntimeRootsHeld == RuntimeAssumption /\ RuntimeSpec => []RootsHeld
<1>1. RuntimeInv => RootsHeld BY DEF RuntimeInv
<1> QED BY <1>1, RuntimeInvariant, PTL

(* Who follows the changes token by token sees each accepted event once    *)
(* (memory-events.ts changes, appendAll).                                  *)
THEOREM RuntimeFollowsExactly == RuntimeAssumption /\ RuntimeSpec => []FollowsExactly
<1>1. RuntimeInv => FollowsExactly
  <2> SUFFICES ASSUME RuntimeInv PROVE FollowsExactly
    OBVIOUS
  <2>1. PICK a \in Seq(Events) : a = store.accepted BY DEF RuntimeInv, RuntimeTypeOK
  <2>2. PICK s \in Seq(Events) : s = reader.seen BY DEF RuntimeInv, RuntimeTypeOK
  <2>3. PICK t \in Nat : t = reader.token BY DEF RuntimeInv, RuntimeTypeOK
  <2>4. t <= Len(a) /\ Len(s) = t /\ (\A i \in 1..t : s[i] = a[i]) /\ \A i, j \in 1..Len(a) : a[i] = a[j] => i = j
    BY <2>1, <2>2, <2>3 DEF RuntimeInv, FollowInv
  <2>5. DOMAIN s = 1..t /\ Len(a) \in Nat BY <2>1, <2>2, <2>4
  <2>6. \A i, j \in 1..t : s[i] = s[j] => i = j
    <3> TAKE i, j \in 1..t
    <3>1. i \in 1..Len(a) /\ j \in 1..Len(a) BY <2>4, <2>5
    <3> QED BY <3>1, <2>4
  <2>7. {s[i] : i \in 1..t} = {a[i] : i \in 1..t} BY <2>4
  <2>8. \A i, j \in DOMAIN reader.seen : i # j => reader.seen[i] # reader.seen[j] BY <2>2, <2>5, <2>6
  <2>9. {reader.seen[i] : i \in DOMAIN reader.seen} = {store.accepted[i] : i \in 1..reader.token}
    BY <2>1, <2>2, <2>3, <2>5, <2>7
  <2> QED BY <2>8, <2>9 DEF FollowsExactly
<1> QED BY <1>1, RuntimeInvariant, PTL

(* Once the vault is closed no call runs, waits or has a mutation left     *)
(* (vault.ts close, end): whatever was admitted ran out before.            *)
THEOREM RuntimeLetsGo == RuntimeAssumption /\ RuntimeSpec => []LetGo
<1>1. RuntimeInv => LetGo
  <2> SUFFICES ASSUME RuntimeInv, life.is = "closed", NEW c \in Calls
               PROVE  calls[c].muts = <<>> /\ calls[c].stage \notin {"queued", "in"}
    BY DEF LetGo
  <2>1. lock = <<>> BY DEF RuntimeInv, LockInv
  <2>2. ~Waits(c) BY <2>1 DEF RuntimeInv, LockInv
  <2> QED BY <2>2 DEF RuntimeInv, LockInv, Waits
<1> QED BY <1>1, RuntimeInvariant, PTL

-----------------------------------------------------------------------------
(***************************************************************************)
(* One vault file under any number of users.  What a stage of an open      *)
(* takes for granted of the file stands because nobody else writes it      *)
(* meanwhile (Alone): a connection that excludes others meets at most one  *)
(* that has just claimed the file, which is empty then.                    *)
(***************************************************************************)

AllTables == CommonTables \cup ControlTables \cup LocalTables

Files == [here : {TRUE}, vault : BOOLEAN, tables : SUBSET AllTables, odd : SUBSET Oddities,
          kind : {"runtime", "portable"}, ready : BOOLEAN, events : Nat, positions : Nat,
          lastSeq : Nat, whole : BOOLEAN, wal : BOOLEAN, generation : Nat,
          cache : SUBSET [generation : Nat, events : Nat], trace : SUBSET Nat,
          numbered : Nat, foreign : BOOLEAN]

Connections == [mode : {"create", "readwrite", "readonly"},
                purpose : {"create", "restore", "export", "run", "reset", "inspect", "deliver"},
                stage : {"reserved", "owned", "laid", "copied", "renewing", "open", "stopped"},
                made : SUBSET {"local_trace"}]

DatabaseTypeOK ==
    /\ db \in Files \cup {Absent}
    /\ conn \in [Users -> Connections \cup {Unconnected}]
    /\ told \in Nat
    /\ mishaps \in Nat

(* What is so of the file however it is used.                              *)
FileSound(f, last) ==
    f \in Files =>
        /\ f.ready => f.whole /\ f.vault
        /\ ~f.foreign => f.odd = {}
        /\ ~f.foreign /\ f.ready =>
             IF f.kind = "runtime" THEN FitsToRun(f) ELSE FitsToDeliver(f)
        /\ \A x \in f.cache : x.generation = f.generation /\ x.events = f.events
        /\ last <= f.numbered /\ \A n \in f.trace : n <= f.numbered
        /\ "local_trace_state" \notin f.tables => f.trace = {} /\ last = 0

Counted(f) == f.positions = f.events /\ f.lastSeq = f.events

(* What a connection may take for granted of the file at each stage.       *)
ConnectionSound(f, c) ==
    /\ f \in Files
    /\ c.mode = ModeOf(c.purpose)
    /\ c.stage \in {"reserved", "laid", "copied"} => c.mode = "create"
    /\ c.stage \notin {"open", "stopped"} => c.made = {}
    /\ c.stage = "reserved" => f = Empty
    /\ c.stage = "owned" /\ c.mode = "create" => f = [Empty EXCEPT !.wal = c.purpose # "export"]
    /\ c.stage \in {"laid", "copied"} =>
         /\ c.purpose \in {"restore", "export"} /\ f.vault /\ ~f.foreign /\ f.odd = {}
         /\ f.kind = (IF c.purpose = "restore" THEN "runtime" ELSE "portable")
         /\ f.tables = TablesOf(f.kind)
         /\ IF f.kind = "runtime" THEN Counted(f) ELSE ~f.wal
         /\ c.stage = "copied" => f.whole
    /\ c.stage = "renewing" => c.purpose = "reset" /\ f.ready /\ f.kind = "runtime" /\ Counted(f)
    /\ c.stage = "open" =>
         /\ f.ready /\ c.purpose # "export"
         /\ c.made # {} => "local_trace_state" \in f.tables
         /\ IF c.mode = "readonly" THEN f.kind = "portable" ELSE f.kind = "runtime" /\ Counted(f)

Exclusive ==
    \A u, v \in Users : u # v =>
        /\ Locks(u) /\ Locks(v) => conn[u].mode = "readonly" /\ conn[v].mode = "readonly"
        /\ ~(conn[u].mode = "create" /\ conn[v].mode = "create")

DatabaseInv ==
    /\ DatabaseTypeOK
    /\ FileSound(db, told)
    /\ \A u \in Users : conn[u] # Unconnected => ConnectionSound(db, conn[u])
    /\ Exclusive

-----------------------------------------------------------------------------
(* No file is no file, and no connection is no connection.                 *)
LEMMA DatabaseConstants ==
    /\ Absent \notin Files
    /\ Unconnected \notin Connections
    /\ Empty \in Files
    /\ \A kind \in {"runtime", "portable"} : TablesOf(kind) \subseteq AllTables
<1>1. Absent \notin Files
  <2>1. \A f \in Files : f.here = TRUE BY DEF Files
  <2>2. Absent.here = FALSE BY DEF Absent
  <2> QED BY <2>1, <2>2
<1>2. Unconnected \notin Connections
  <2>1. \A c \in Connections : c.mode # "none" BY DEF Connections
  <2> QED BY <2>1 DEF Unconnected
<1>3. Empty \in Files BY DEF Empty, Files
<1>4. \A kind \in {"runtime", "portable"} : TablesOf(kind) \subseteq AllTables BY DEF TablesOf, AllTables
<1> QED BY <1>1, <1>2, <1>3, <1>4

(* A connection that excludes others has the file to itself: another may   *)
(* only have claimed the file a moment ago, and then it is empty.          *)
LEMMA Alone ==
    ASSUME DatabaseInv, NEW u \in Users, conn[u] \in Connections, conn[u].stage # "reserved",
           conn[u].mode # "readonly", db # Empty \/ conn[u].mode = "create",
           NEW v \in Users, v # u
    PROVE  conn[v] = Unconnected
<1> SUFFICES ASSUME conn[v] # Unconnected PROVE FALSE OBVIOUS
<1>1. conn[v] \in Connections BY DEF DatabaseInv, DatabaseTypeOK
<1>2. Locks(u) BY DEF Locks, Connections
<1>3. conn[v].stage = "reserved" BY <1>1, <1>2 DEF DatabaseInv, Exclusive, Locks, Connections
<1>4. conn[v].mode = "create" /\ db = Empty BY <1>3 DEF DatabaseInv, ConnectionSound
<1> QED BY <1>4 DEF DatabaseInv, Exclusive

(* What a transaction needs of what it leaves, whether it is told or not.  *)
LEMMA TransactionKeeps ==
    ASSUME DatabaseInv, NEW u \in Users, conn[u] \in Connections, conn[u].stage # "reserved",
           conn[u].mode # "readonly", db # Empty \/ conn[u].mode = "create", db \in Files,
           NEW f \in Files, NEW x \in Connections \cup {Unconnected},
           x # Unconnected => ConnectionSound(f, x) /\ x.stage # "reserved",
           FileTransaction(u, f, x), told' \in Nat,
           FileSound(f, told'), mishaps' # mishaps => FileSound(db, told')
    PROVE  DatabaseInv'
<1> USE DEF DatabaseInv, DatabaseTypeOK
<1>1. \A v \in Users \ {u} : conn[v] = Unconnected BY Alone
<1>2. \A v \in Users \ {u} : conn'[v] = Unconnected BY <1>1 DEF FileTransaction
<1>3. conn' \in [Users -> Connections \cup {Unconnected}]
  BY DEF FileTransaction, Connections
<1>4. Exclusive'
  <2>1. \A v, w \in Users : v # w => conn'[v].mode = "none" \/ conn'[w].mode = "none"
    BY <1>2 DEF Unconnected
  <2> QED BY <2>1 DEF Exclusive, Locks
<1>5. CASE db' = f /\ conn' = [conn EXCEPT ![u] = x] /\ mishaps' = mishaps
  <2>1. \A v \in Users : conn'[v] # Unconnected => ConnectionSound(db', conn'[v])
    BY <1>2, <1>5
  <2> QED BY <1>3, <1>4, <1>5, <2>1
<1>6. CASE /\ db' \in {db, f} /\ mishaps' = mishaps + 1
           /\ conn' = [conn EXCEPT ![u] = IF @.stage = "open" THEN [@ EXCEPT !.stage = "stopped"] ELSE Unconnected]
  <2>1. FileSound(db', told') BY <1>6
  <2>2. db' \in Files BY <1>6
  <2>3. conn'[u] # Unconnected => ConnectionSound(db', conn'[u])
    BY <1>6, <2>2, DatabaseConstants DEF ConnectionSound, Connections
  <2> QED BY <1>2, <1>3, <1>4, <1>6, <2>1, <2>2, <2>3
<1> QED BY <1>5, <1>6 DEF FileTransaction

(* A step that leaves the file, and takes one connection on.               *)
LEMMA ConnectionKeeps ==
    ASSUME DatabaseInv, NEW u \in Users, conn[u] \in Connections, NEW x \in Connections \cup {Unconnected},
           conn' = [conn EXCEPT ![u] = x], UNCHANGED <<db, told>>, mishaps' \in Nat,
           x # Unconnected => /\ ConnectionSound(db, x) /\ x.mode = conn[u].mode
                              /\ x.stage = "reserved" <=> conn[u].stage = "reserved"
    PROVE  DatabaseInv'
<1> USE DEF DatabaseInv, DatabaseTypeOK
<1>1. Exclusive' BY DEF Exclusive, Locks, Unconnected, Connections
<1> QED BY <1>1

(* A connection is let go.                                                 *)
LEMMA LetGoKeeps ==
    ASSUME DatabaseInv, NEW u \in Users, conn[u] # Unconnected,
           conn' = [conn EXCEPT ![u] = Unconnected], UNCHANGED <<db, told>>, mishaps' \in Nat
    PROVE  DatabaseInv'
BY ConnectionKeeps DEF DatabaseInv, DatabaseTypeOK

Stages == {"reserved", "owned", "laid", "copied", "renewing", "open", "stopped"}

(* What a connection at a stage may take for granted.                      *)
LEMMA AtFacts ==
    ASSUME DatabaseInv, NEW u \in Users, NEW stage, At(u, stage)
    PROVE  /\ conn[u] \in Connections /\ conn[u].stage = stage /\ ConnectionSound(db, conn[u])
           /\ db \in Files /\ FileSound(db, told) /\ conn[u] # Unconnected
BY DEF DatabaseInv, DatabaseTypeOK, At, ConnectionSound

(* A connection that goes on is of the same mode and purpose.              *)
LEMMA StageFacts ==
    ASSUME NEW c \in Connections, NEW s \in Stages
    PROVE  LET d == [c EXCEPT !.stage = s]
           IN  d \in Connections /\ d.stage = s /\ d.mode = c.mode /\ d.purpose = c.purpose /\ d.made = c.made
BY DEF Connections, Stages

(* A file is reserved by who finds none.                                   *)
LEMMA ReserveKeeps ==
    ASSUME DatabaseInv, NEW u \in Users, NEW purpose \in {"create", "restore", "export"}, Reserve(u, purpose)
    PROVE  DatabaseInv'
<1> USE DEF DatabaseInv, DatabaseTypeOK
<1>1. db = Absent
  <2>1. \A f \in Files : f.here BY DEF Files
  <2> QED BY <2>1 DEF Reserve
<1>2. \A v \in Users : conn[v] = Unconnected
  BY <1>1, DatabaseConstants DEF ConnectionSound
<1>3. Connection(purpose, "reserved") \in Connections /\ ConnectionSound(Empty, Connection(purpose, "reserved"))
  BY DatabaseConstants DEF Connection, Connections, ConnectionSound, ModeOf
<1>4. FileSound(Empty, 0) BY DEF FileSound, Empty
<1>5. Exclusive'
  BY <1>2 DEF Reserve, Exclusive, Locks, Unconnected
<1> QED BY <1>2, <1>3, <1>4, <1>5, DatabaseConstants DEF Reserve

(* The reserved file is taken, or was by another.                          *)
LEMMA ProbeKeeps == ASSUME DatabaseInv, NEW u \in Users, Probe(u) PROVE DatabaseInv'
<1> USE DEF DatabaseInv, DatabaseTypeOK
<1>1. At(u, "reserved") BY DEF Probe, At
<1>2. db = Empty /\ conn[u].mode = "create" /\ conn[u].purpose \in {"create", "restore", "export"}
  <2>1. conn[u] \in Connections /\ conn[u].stage = "reserved" /\ ConnectionSound(db, conn[u]) BY <1>1, AtFacts
  <2> QED BY <2>1 DEF ConnectionSound, ModeOf, Connections
<1>3. CASE Free(u, "create")
  <2>1. \A v \in Users \ {u} : conn[v] = Unconnected
    <3> SUFFICES ASSUME NEW v \in Users \ {u}, conn[v] # Unconnected PROVE FALSE OBVIOUS
    <3>1. ~Locks(v) BY <1>3 DEF Free, Shares
    <3>2. conn[v].mode = "create" BY <3>1 DEF Locks, Connections, ConnectionSound
    <3> QED BY <1>2, <3>2 DEF Exclusive
  <2> DEFINE f == [Empty EXCEPT !.wal = conn[u].purpose # "export"]
             c == [conn[u] EXCEPT !.stage = "owned"]
  <2>2. db' = f /\ conn' = [conn EXCEPT ![u] = c] /\ told' = told /\ mishaps' = mishaps
    BY <1>2, <1>3 DEF Probe
  <2>3. f \in Files BY DatabaseConstants DEF Files
  <2>4. /\ conn[u] \in Connections /\ conn[u].stage = "reserved" /\ ConnectionSound(db, conn[u])
        /\ FileSound(db, told)
    BY <1>1, AtFacts
  <2>a. c \in Connections /\ c.stage = "owned" /\ c.mode = conn[u].mode /\ c.purpose = conn[u].purpose /\ c.made = conn[u].made
    BY <2>4, StageFacts DEF Stages
  <2>5. ConnectionSound(f, c)
    BY <2>4, <2>a, <1>2, <2>3 DEF ConnectionSound
  <2>b. told = 0 BY <1>2, <2>4, DatabaseConstants DEF FileSound, Empty
  <2>6. FileSound(f, told)
    BY <2>b DEF FileSound, Empty
  <2>7. Exclusive' BY <2>1, <2>2 DEF Exclusive, Locks, Unconnected
  <2> QED BY <2>1, <2>2, <2>3, <2>a, <2>5, <2>6, <2>7
<1>4. CASE ~Free(u, "create")
  BY <1>1, <1>4, LetGoKeeps DEF Probe, At
<1> QED BY <1>3, <1>4

(* A file is opened for a purpose its other users allow.                   *)
LEMMA OpenFileKeeps ==
    ASSUME DatabaseInv, NEW u \in Users, NEW purpose \in {"run", "reset", "inspect", "deliver"}, OpenFile(u, purpose)
    PROVE  DatabaseInv'
<1> USE DEF DatabaseInv, DatabaseTypeOK
<1> DEFINE c == Connection(purpose, "owned")
<1>1. c \in Connections /\ c.mode # "create" /\ c.mode = ModeOf(purpose) /\ c.stage = "owned" /\ c.purpose = purpose /\ c.made = {}
  BY DEF Connection, Connections, ModeOf
<1>2. db \in Files BY DEF OpenFile, Absent
<1>3. ConnectionSound(db, c) BY <1>1, <1>2 DEF ConnectionSound
<1>4. conn' = [conn EXCEPT ![u] = c] /\ UNCHANGED <<db, told, mishaps>> BY DEF OpenFile
<1>5. Exclusive'
  <2>1. \A v \in Users \ {u} : Locks(v) => ModeOf(purpose) = "readonly" /\ conn[v].mode = "readonly"
    BY DEF OpenFile, Free, Shares
  <2> QED BY <1>1, <1>4, <2>1 DEF Exclusive, Locks
<1> QED BY <1>1, <1>2, <1>3, <1>4, <1>5

(* A file is closed, by its user or by the user's death.                   *)
LEMMA CloseFileKeeps == ASSUME DatabaseInv, NEW u \in Users, CloseFile(u) \/ UserCrash(u) PROVE DatabaseInv'
BY LetGoKeeps DEF CloseFile, UserCrash, At, DatabaseInv, DatabaseTypeOK

(* What was opened is checked against what it is opened for.               *)
LEMMA CheckKeeps == ASSUME DatabaseInv, NEW u \in Users, Check(u) PROVE DatabaseInv'
<1>1. At(u, "owned") BY DEF Check
<1>2. CASE conn' = [conn EXCEPT ![u] = Unconnected]
  BY <1>1, <1>2, LetGoKeeps DEF Check, At, DatabaseInv, DatabaseTypeOK
<1>3. CASE conn' # [conn EXCEPT ![u] = Unconnected]
  <2>1. PICK next \in {"renewing", "open"} :
          /\ conn' = [conn EXCEPT ![u].stage = next] /\ next = (IF conn[u].purpose = "reset" THEN "renewing" ELSE "open")
          /\ IF conn[u].purpose = "deliver" THEN FitsToDeliver(db) ELSE FitsToRun(db)
    BY <1>3 DEF Check
  <2> DEFINE c == [conn[u] EXCEPT !.stage = next]
  <2>a. /\ conn[u] \in Connections /\ conn[u].stage = "owned" /\ ConnectionSound(db, conn[u]) /\ db \in Files
    BY <1>1, AtFacts
  <2>2. c \in Connections /\ c.mode = conn[u].mode /\ c.purpose = conn[u].purpose /\ c.stage = next /\ c.made = conn[u].made
    <3>1. next \in Stages BY <2>1 DEF Stages
    <3> QED BY <3>1, <2>a, StageFacts
  <2>b. conn[u].purpose \in {"run", "reset", "inspect", "deliver"} BY DEF Check
  <2>c. IF conn[u].purpose = "deliver" THEN db.ready /\ db.kind = "portable"
        ELSE db.ready /\ db.kind = "runtime" /\ Counted(db)
    BY <2>1, <2>a DEF FitsToDeliver, FitsToRun, MetaFits, ControlFits, Counted, Files
  <2>3. ConnectionSound(db, c)
    BY <2>1, <2>2, <2>a, <2>b, <2>c DEF ConnectionSound, ModeOf
  <2>d. UNCHANGED <<db, told>> /\ mishaps' \in Nat BY DEF Check, DatabaseInv, DatabaseTypeOK
  <2>e. conn' = [conn EXCEPT ![u] = c] BY <2>1
  <2>f. c.stage # "reserved" /\ conn[u].stage # "reserved" BY <2>2, <2>a
  <2> HIDE DEF c
  <2> QED BY <2>2, <2>3, <2>a, <2>d, <2>e, <2>f, ConnectionKeeps
<1> QED BY <1>2, <1>3

-----------------------------------------------------------------------------
(* The transactions.                                                       *)

(* A new runtime database, in one transaction.                             *)
LEMMA CreateRuntimeKeeps == ASSUME DatabaseInv, NEW u \in Users, CreateRuntime(u) PROVE DatabaseInv'
<1>1. At(u, "owned") /\ conn[u].purpose = "create" BY DEF CreateRuntime
<1>2. /\ conn[u] \in Connections /\ conn[u].stage = "owned" /\ ConnectionSound(db, conn[u])
      /\ db \in Files /\ FileSound(db, told)
  BY <1>1, AtFacts
<1>3. conn[u].mode = "create" /\ db = Empty /\ told = 0
  <2>1. conn[u].mode = "create" /\ db = [Empty EXCEPT !.wal = TRUE] BY <1>1, <1>2 DEF ConnectionSound, ModeOf
  <2> QED BY <1>2, <2>1 DEF FileSound, Empty
<1> DEFINE f == [Tabled("runtime") EXCEPT !.ready = TRUE, !.generation = 1]
           x == [conn[u] EXCEPT !.stage = "open"]
<1>4. FileTransaction(u, f, x) /\ told' = told
  BY <1>3 DEF CreateRuntime, Empty
<1>5. /\ f.kind = "runtime" /\ f.tables = TablesOf("runtime") /\ f.vault = TRUE /\ f.foreign = FALSE /\ f.odd = {}
      /\ f.ready = TRUE /\ f.events = 0 /\ f.positions = 0 /\ f.lastSeq = 0 /\ f.whole = TRUE
      /\ f.cache = {} /\ f.trace = {} /\ f.numbered = 0
  BY <1>3 DEF Tabled, Empty
<1>6. f \in Files
  <2>1. TablesOf("runtime") \subseteq AllTables BY DatabaseConstants
  <2> QED BY <1>3, <2>1 DEF Files, Tabled, Empty
<1>7. x \in Connections /\ x.stage = "open" /\ x.mode = "create" /\ x.purpose = "create" /\ x.made = {}
  <2>1. conn[u].made = {} BY <1>2 DEF ConnectionSound
  <2> QED BY <2>1, <1>1, <1>2, <1>3, StageFacts DEF Stages
<1> HIDE DEF f, x
<1>8. ConnectionSound(f, x)
  BY <1>5, <1>6, <1>7 DEF ConnectionSound, ModeOf, Counted
<1>9. FileSound(f, told)
  <2>1. FitsToRun(f)
    BY <1>5 DEF FitsToRun, MetaFits, SchemaFits, ControlFits, TablesOf, CommonTables
  <2> QED BY <1>3, <1>5, <2>1 DEF FileSound
<1>10. told \in Nat BY DEF DatabaseInv, DatabaseTypeOK
<1> QED BY <1>2, <1>3, <1>4, <1>6, <1>7, <1>8, <1>9, <1>10, TransactionKeeps

(* The tables and rows of a copy.                                          *)
LEMMA LayKeeps == ASSUME DatabaseInv, NEW u \in Users, Lay(u) PROVE DatabaseInv'
<1>1. At(u, "owned") /\ conn[u].purpose \in {"restore", "export"} BY DEF Lay
<1>2. /\ conn[u] \in Connections /\ conn[u].stage = "owned" /\ ConnectionSound(db, conn[u])
      /\ db \in Files /\ FileSound(db, told)
  BY <1>1, AtFacts
<1>3. conn[u].mode = "create" /\ db = [Empty EXCEPT !.wal = conn[u].purpose # "export"] /\ told = 0 /\ conn[u].made = {}
  <2>1. conn[u].mode = "create" /\ db = [Empty EXCEPT !.wal = conn[u].purpose # "export"] BY <1>1, <1>2 DEF ConnectionSound, ModeOf
  <2> QED BY <1>2, <2>1 DEF FileSound, ConnectionSound, Empty
<1> DEFINE kind == IF conn[u].purpose = "restore" THEN "runtime" ELSE "portable"
           x == [conn[u] EXCEPT !.stage = "laid"]
<1>4. PICK n \in 0 .. MaxEvents : FileTransaction(u, Laid(kind, n), x)
  BY <1>3 DEF Lay, Empty
<1>5. n \in Nat /\ told' = told /\ told \in Nat BY DatabaseAssumption DEF Lay, DatabaseInv, DatabaseTypeOK
<1> DEFINE f == Laid(kind, n)
<1>6. /\ f = [db EXCEPT !.vault = TRUE, !.tables = TablesOf(kind), !.kind = kind, !.events = n, !.whole = FALSE,
                        !.positions = IF kind = "runtime" THEN n ELSE 0,
                        !.lastSeq = IF kind = "runtime" THEN n ELSE 0,
                        !.generation = IF kind = "runtime" THEN 1 ELSE 0]
  BY <1>3 DEF Laid, Tabled, Empty
<1>7. f \in Files
  <2>1. kind \in {"runtime", "portable"} OBVIOUS
  <2>2. TablesOf(kind) \subseteq AllTables BY DatabaseConstants
  <2> DEFINE c == IF kind = "runtime" THEN n ELSE 0
             g == IF kind = "runtime" THEN 1 ELSE 0
  <2>3. c \in Nat /\ g \in Nat BY <1>5
  <2>4. f = [db EXCEPT !.vault = TRUE, !.tables = TablesOf(kind), !.kind = kind, !.events = n, !.whole = FALSE,
                        !.positions = c, !.lastSeq = c, !.generation = g]
    BY <1>6
  <2> HIDE DEF kind, c, g, f
  <2> QED BY <1>2, <1>5, <2>1, <2>2, <2>3, <2>4 DEF Files
<1>8. /\ f.kind = kind /\ f.tables = TablesOf(kind) /\ f.vault = TRUE /\ f.foreign = FALSE /\ f.odd = {} /\ f.ready = FALSE
      /\ kind = "runtime" => f.events = n /\ f.positions = n /\ f.lastSeq = n
      /\ f.wal = (conn[u].purpose # "export") /\ f.cache = {} /\ f.trace = {} /\ f.numbered = 0
  <2> HIDE DEF kind, f
  <2> QED BY <1>2, <1>3, <1>6 DEF Empty, Files
<1>9. x \in Connections /\ x.stage = "laid" /\ x.mode = "create" /\ x.purpose = conn[u].purpose /\ x.made = {}
  BY <1>2, <1>3, StageFacts DEF Stages
<1>10. ConnectionSound(f, x)
  BY <1>1, <1>7, <1>8, <1>9 DEF ConnectionSound, ModeOf, Counted
<1>11. FileSound(f, told)
  BY <1>3, <1>8 DEF FileSound
<1> HIDE DEF f, x, kind
<1>12. FileTransaction(u, f, x) BY <1>4 DEF f
<1> QED BY <1>2, <1>3, <1>12, <1>5, <1>7, <1>9, <1>10, <1>11, TransactionKeeps

(* The objects of a copy.                                                  *)
LEMMA CopyObjectsKeeps == ASSUME DatabaseInv, NEW u \in Users, CopyObjects(u) PROVE DatabaseInv'
<1>1. At(u, "laid") BY DEF CopyObjects
<1>2. /\ conn[u] \in Connections /\ conn[u].stage = "laid" /\ ConnectionSound(db, conn[u]) /\ conn[u] # Unconnected
      /\ db \in Files /\ FileSound(db, told)
  BY <1>1, AtFacts
<1> DEFINE f == [db EXCEPT !.whole = TRUE]
           x == [conn[u] EXCEPT !.stage = "copied"]
<1>3. CASE FileTransaction(u, f, x)
  <2>1. /\ f \in Files /\ f.whole = TRUE /\ f.ready = db.ready /\ f.vault = db.vault /\ f.foreign = db.foreign
        /\ f.odd = db.odd /\ f.kind = db.kind /\ f.tables = db.tables /\ f.wal = db.wal /\ Counted(f) <=> Counted(db)
        /\ FitsToRun(f) = FitsToRun(db) /\ FitsToDeliver(f) = FitsToDeliver(db)
        /\ f.cache = db.cache /\ f.generation = db.generation /\ f.events = db.events
        /\ f.numbered = db.numbered /\ f.trace = db.trace
    BY <1>2 DEF Files, Counted, FitsToRun, FitsToDeliver, MetaFits, SchemaFits, ControlFits
  <2>2. x \in Connections /\ x.stage = "copied" /\ x.mode = conn[u].mode /\ x.purpose = conn[u].purpose /\ x.made = conn[u].made
    BY <1>2, StageFacts DEF Stages
  <2>3. ConnectionSound(f, x)
    BY <1>2, <2>1, <2>2 DEF ConnectionSound
  <2>4. FileSound(f, told) BY <1>2, <2>1 DEF FileSound
  <2>5. told' = told /\ told \in Nat BY DEF CopyObjects, DatabaseInv, DatabaseTypeOK
  <2>6. conn[u].mode = "create" BY <1>2 DEF ConnectionSound
  <2> HIDE DEF f, x
  <2> QED BY <1>2, <1>3, <2>1, <2>2, <2>3, <2>4, <2>5, <2>6, TransactionKeeps
<1>4. CASE conn' = [conn EXCEPT ![u] = Unconnected] /\ UNCHANGED <<db, mishaps>>
  BY <1>2, <1>4, LetGoKeeps DEF CopyObjects, DatabaseInv, DatabaseTypeOK
<1> QED BY <1>3, <1>4 DEF CopyObjects

(* A copy is marked ready, and only then opens.                            *)
LEMMA PublishReadyKeeps == ASSUME DatabaseInv, NEW u \in Users, PublishReady(u) PROVE DatabaseInv'
<1>1. At(u, "copied") BY DEF PublishReady
<1>2. /\ conn[u] \in Connections /\ conn[u].stage = "copied" /\ ConnectionSound(db, conn[u]) /\ conn[u] # Unconnected
      /\ db \in Files /\ FileSound(db, told)
  BY <1>1, AtFacts
<1> DEFINE f == [db EXCEPT !.ready = TRUE]
           y == [conn[u] EXCEPT !.stage = "open"]
           x == IF conn[u].purpose = "restore" THEN y ELSE Unconnected
<1>3. FileTransaction(u, f, x) /\ told' = told /\ told \in Nat
  BY DEF PublishReady, DatabaseInv, DatabaseTypeOK
<1>4. /\ f \in Files /\ f.ready = TRUE /\ f.whole = db.whole /\ f.vault = db.vault /\ f.foreign = db.foreign
      /\ f.odd = db.odd /\ f.kind = db.kind /\ f.tables = db.tables /\ f.wal = db.wal
      /\ f.positions = db.positions /\ f.lastSeq = db.lastSeq
      /\ f.cache = db.cache /\ f.generation = db.generation /\ f.events = db.events
      /\ f.numbered = db.numbered /\ f.trace = db.trace
  BY <1>2 DEF Files
<1>5. y \in Connections /\ y.stage = "open" /\ y.mode = conn[u].mode /\ y.purpose = conn[u].purpose /\ y.made = conn[u].made
  BY <1>2, StageFacts DEF Stages
<1>6. /\ conn[u].mode = "create" /\ conn[u].made = {} /\ db.vault /\ ~db.foreign /\ db.odd = {} /\ db.whole
      /\ conn[u].purpose \in {"restore", "export"}
      /\ db.kind = (IF conn[u].purpose = "restore" THEN "runtime" ELSE "portable") /\ db.tables = TablesOf(db.kind)
      /\ IF db.kind = "runtime" THEN Counted(db) ELSE ~db.wal
  BY <1>2 DEF ConnectionSound
<1> HIDE DEF f, y
<1>7. conn[u].purpose = "restore" => ConnectionSound(f, y)
  BY <1>4, <1>5, <1>6 DEF ConnectionSound, ModeOf, Counted
<1>8. FileSound(f, told)
  <2>1. CASE db.kind = "runtime"
    <3>1. FitsToRun(f)
      BY <1>4, <1>6, <2>1 DEF FitsToRun, MetaFits, SchemaFits, ControlFits, TablesOf, CommonTables, Counted
    <3> QED BY <1>2, <1>4, <1>6, <2>1, <3>1 DEF FileSound
  <2>2. CASE db.kind = "portable"
    <3>1. FitsToDeliver(f)
      BY <1>4, <1>6, <2>2 DEF FitsToDeliver, MetaFits, SchemaFits, TablesOf, CommonTables
    <3> QED BY <1>2, <1>4, <1>6, <2>2, <3>1 DEF FileSound
  <2> QED BY <1>2, <2>1, <2>2 DEF Files
<1>9. x \in Connections \cup {Unconnected} /\ (x # Unconnected => ConnectionSound(f, x) /\ x.stage # "reserved")
  BY <1>5, <1>7
<1> HIDE DEF x
<1> QED BY <1>2, <1>3, <1>4, <1>6, <1>8, <1>9, TransactionKeeps

(* A reset renews the identity and drops the caches.                       *)
LEMMA RenewIdentityKeeps == ASSUME DatabaseInv, NEW u \in Users, RenewIdentity(u) PROVE DatabaseInv'
<1>1. At(u, "renewing") BY DEF RenewIdentity
<1>2. /\ conn[u] \in Connections /\ conn[u].stage = "renewing" /\ ConnectionSound(db, conn[u]) /\ conn[u] # Unconnected
      /\ db \in Files /\ FileSound(db, told)
  BY <1>1, AtFacts
<1> DEFINE f == RenewedFile(db)
           x == [conn[u] EXCEPT !.stage = "open"]
<1>3. FileTransaction(u, f, x) /\ told' = told /\ told \in Nat
  BY DEF RenewIdentity, DatabaseInv, DatabaseTypeOK
<1>4. /\ f \in Files /\ f.ready = db.ready /\ f.whole = db.whole /\ f.vault = db.vault /\ f.foreign = db.foreign
      /\ f.odd = db.odd /\ f.kind = db.kind /\ f.tables = db.tables /\ f.wal = db.wal
      /\ f.positions = db.positions /\ f.lastSeq = db.lastSeq /\ f.events = db.events
      /\ f.cache = {} /\ f.numbered = db.numbered /\ f.trace = db.trace
  <2> DEFINE g == db.generation + 1
  <2>1. g \in Nat BY <1>2 DEF Files
  <2>2. f = [db EXCEPT !.generation = g, !.cache = {}] BY DEF RenewedFile
  <2>3. {} \in SUBSET [generation : Nat, events : Nat] OBVIOUS
  <2> HIDE DEF f, g
  <2>4. f \in Files BY <1>2, <2>1, <2>2, <2>3 DEF Files
  <2> QED BY <1>2, <2>2, <2>4 DEF Files
<1>5. x \in Connections /\ x.stage = "open" /\ x.mode = conn[u].mode /\ x.purpose = conn[u].purpose /\ x.made = conn[u].made
  BY <1>2, StageFacts DEF Stages
<1>6. /\ conn[u].mode = "readwrite" /\ conn[u].made = {} /\ conn[u].purpose = "reset"
      /\ db.ready /\ db.kind = "runtime" /\ Counted(db)
  BY <1>2 DEF ConnectionSound, ModeOf
<1> HIDE DEF f, x
<1>7. ConnectionSound(f, x)
  BY <1>4, <1>5, <1>6 DEF ConnectionSound, ModeOf, Counted
<1>8. FileSound(f, told)
  BY <1>2, <1>4, <1>6 DEF FileSound, FitsToRun, MetaFits, SchemaFits, ControlFits
<1>9. db # Empty BY <1>6 DEF Empty
<1> QED BY <1>2, <1>3, <1>4, <1>5, <1>6, <1>7, <1>8, <1>9, TransactionKeeps

(* Whoever may write has an open runtime to itself.                        *)
LEMMA WritableFacts ==
    ASSUME DatabaseInv, NEW u \in Users, Writable(u)
    PROVE  /\ conn[u] \in Connections /\ conn[u].stage = "open" /\ conn[u] # Unconnected
           /\ conn[u].mode \in {"create", "readwrite"} /\ conn[u].mode = ModeOf(conn[u].purpose)
           /\ conn[u].purpose \in {"create", "restore", "run", "reset"}
           /\ conn[u].made # {} => "local_trace_state" \in db.tables
           /\ db \in Files /\ FileSound(db, told) /\ told \in Nat /\ mishaps \in Nat
           /\ db.ready /\ db.kind = "runtime" /\ Counted(db) /\ db # Empty
           /\ \A v \in Users \ {u} : conn[v] = Unconnected
<1>1. At(u, "open") /\ conn[u].purpose \in {"create", "restore", "run", "reset"} BY DEF Writable
<1>2. /\ conn[u] \in Connections /\ conn[u].stage = "open" /\ ConnectionSound(db, conn[u]) /\ conn[u] # Unconnected
      /\ db \in Files /\ FileSound(db, told)
  BY <1>1, AtFacts
<1>3. conn[u].mode \in {"create", "readwrite"} /\ conn[u].mode = ModeOf(conn[u].purpose)
  BY <1>1, <1>2 DEF ConnectionSound, ModeOf
<1>4. db.ready /\ db.kind = "runtime" /\ Counted(db) /\ (conn[u].made # {} => "local_trace_state" \in db.tables)
  BY <1>2, <1>3 DEF ConnectionSound
<1>5. db # Empty BY <1>4 DEF Empty
<1>6. \A v \in Users \ {u} : conn[v] = Unconnected BY <1>2, <1>3, <1>5, Alone
<1> QED BY <1>1, <1>2, <1>3, <1>4, <1>5, <1>6 DEF DatabaseInv, DatabaseTypeOK

(* A transaction of an open runtime on its own file.                       *)
LEMMA OwnWriteKeeps ==
    ASSUME DatabaseInv, NEW u \in Users, Writable(u), NEW f \in Files, FileTransaction(u, f, conn[u]),
           f.ready, f.kind = "runtime", Counted(f), db.tables \subseteq f.tables,
           told' \in Nat, FileSound(f, told'), mishaps' # mishaps => FileSound(db, told')
    PROVE  DatabaseInv'
<1>1. ConnectionSound(f, conn[u])
  BY WritableFacts DEF ConnectionSound
<1> QED BY <1>1, WritableFacts, TransactionKeeps

(* An event is appended with its position and its number.                  *)
LEMMA AcceptEventKeeps == ASSUME DatabaseInv, NEW u \in Users, AcceptEvent(u) PROVE DatabaseInv'
<1> DEFINE f == [db EXCEPT !.events = @ + 1, !.positions = @ + 1, !.lastSeq = @ + 1, !.cache = {}]
<1>1. Writable(u) /\ FileTransaction(u, f, conn[u]) /\ told' = told BY DEF AcceptEvent
<1>2. /\ db \in Files /\ FileSound(db, told) /\ db.ready /\ db.kind = "runtime" /\ Counted(db) /\ told \in Nat
  BY <1>1, WritableFacts
<1>3. /\ f \in Files /\ f.ready = db.ready /\ f.whole = db.whole /\ f.vault = db.vault /\ f.foreign = db.foreign
      /\ f.odd = db.odd /\ f.kind = db.kind /\ f.tables = db.tables
      /\ f.positions = db.positions + 1 /\ f.lastSeq = db.lastSeq + 1 /\ f.events = db.events + 1
      /\ f.cache = {} /\ f.numbered = db.numbered /\ f.trace = db.trace
  <2> DEFINE e == db.events + 1
             p == db.positions + 1
             q == db.lastSeq + 1
  <2>1. e \in Nat /\ p \in Nat /\ q \in Nat BY <1>2 DEF Files
  <2>2. f = [db EXCEPT !.events = e, !.positions = p, !.lastSeq = q, !.cache = {}] OBVIOUS
  <2>3. {} \in SUBSET [generation : Nat, events : Nat] OBVIOUS
  <2>4. f \in Files
    <3> HIDE DEF f, e, p, q
    <3> QED BY <1>2, <2>1, <2>2, <2>3 DEF Files
  <2>5. f.events = e /\ f.positions = p /\ f.lastSeq = q
    <3> HIDE DEF f, e, p, q
    <3> QED BY <1>2, <2>2 DEF Files
  <2>6. /\ f.ready = db.ready /\ f.whole = db.whole /\ f.vault = db.vault /\ f.foreign = db.foreign
        /\ f.odd = db.odd /\ f.kind = db.kind /\ f.tables = db.tables
        /\ f.cache = {} /\ f.numbered = db.numbered /\ f.trace = db.trace
    <3> HIDE DEF f, e, p, q
    <3> QED BY <1>2, <2>2 DEF Files
  <2> QED BY <2>4, <2>5, <2>6
<1> HIDE DEF f
<1>4. Counted(f) BY <1>2, <1>3 DEF Counted
<1>5. FileSound(f, told)
  BY <1>2, <1>3, <1>4 DEF FileSound, FitsToRun, MetaFits, SchemaFits, ControlFits, Counted
<1> QED BY <1>1, <1>2, <1>3, <1>4, <1>5, OwnWriteKeeps

(* The next trace number is above every one handed out.                    *)
LEMMA NumberingFacts ==
    ASSUME NEW f \in Files, NEW last \in Nat, FileSound(f, last)
    PROVE  /\ Numbering(f) \in Nat /\ last <= Numbering(f) /\ \A n \in f.trace : n <= Numbering(f)
<1>1. CASE "local_trace_state" \in f.tables
  BY <1>1 DEF Numbering, FileSound, Files
<1>2. CASE "local_trace_state" \notin f.tables
  <2>1. f.trace = {} /\ last = 0 BY <1>2 DEF FileSound
  <2>2. Numbering(f) = 0 BY <1>2, <2>1 DEF Numbering, NumberingOf
  <2> QED BY <2>1, <2>2
<1> QED BY <1>1, <1>2

(* What only touches the local records keeps what the file is checked for. *)
SameButLocal(f) ==
    /\ f.ready = db.ready /\ f.whole = db.whole /\ f.vault = db.vault /\ f.foreign = db.foreign
    /\ f.odd = db.odd /\ f.kind = db.kind /\ f.wal = db.wal
    /\ f.positions = db.positions /\ f.lastSeq = db.lastSeq /\ f.events = db.events
    /\ f.generation = db.generation

(* The local tables, which anybody may make, do not change whether a file  *)
(* opens.                                                                  *)
LEMMA LocalFits ==
    ASSUME DatabaseInv, NEW u \in Users, Writable(u), NEW f \in Files, SameButLocal(f),
           NEW more \in SUBSET LocalTables, f.tables = db.tables \cup more, NEW last,
           \A x \in f.cache : x.generation = f.generation /\ x.events = f.events,
           last <= f.numbered, \A n \in f.trace : n <= f.numbered,
           "local_trace_state" \notin f.tables => f.trace = {} /\ last = 0
    PROVE  FileSound(f, last) /\ f.ready /\ f.kind = "runtime" /\ Counted(f)
<1>1. FileSound(db, told) /\ db \in Files /\ db.ready /\ db.kind = "runtime" /\ Counted(db) BY WritableFacts
<1>2. FitsToRun(db) => FitsToRun(f)
  BY DEF FitsToRun, MetaFits, SchemaFits, ControlFits, SameButLocal
<1> QED BY <1>1, <1>2 DEF FileSound, SameButLocal, Counted

(* The tables of the trace are made.                                       *)
LEMMA MakeTraceKeeps == ASSUME DatabaseInv, NEW u \in Users, MakeTrace(u) PROVE DatabaseInv'
<1>1. Writable(u) /\ told' = told BY DEF MakeTrace
<1>2. /\ db \in Files /\ FileSound(db, told) /\ told \in Nat /\ mishaps \in Nat /\ conn[u] \in Connections
      /\ \A v \in Users \ {u} : conn[v] = Unconnected
      /\ conn[u].mode \in {"create", "readwrite"} /\ conn[u].mode = ModeOf(conn[u].purpose)
      /\ conn[u].stage = "open" /\ conn[u].purpose \in {"create", "restore", "run", "reset"}
  BY <1>1, WritableFacts
<1>3. CASE /\ db' = [db EXCEPT !.tables = @ \cup {"local_trace", "local_trace_state"}, !.numbered = Numbering(db)]
           /\ conn' = [conn EXCEPT ![u].made = @ \cup {"local_trace"}] /\ UNCHANGED mishaps
  <2> DEFINE ts == db.tables \cup {"local_trace", "local_trace_state"}
             k == Numbering(db)
             f == [db EXCEPT !.tables = ts, !.numbered = k]
             c == [conn[u] EXCEPT !.made = @ \cup {"local_trace"}]
  <2>1. k \in Nat /\ told <= k /\ \A n \in db.trace : n <= k BY <1>2, NumberingFacts
  <2>2. ts \in SUBSET AllTables BY <1>2 DEF Files, AllTables, LocalTables
  <2>3. f \in Files
    <3> HIDE DEF ts, k
    <3> QED BY <1>2, <2>1, <2>2 DEF Files
  <2>4. SameButLocal(f) /\ f.tables = ts /\ f.numbered = k /\ f.trace = db.trace /\ f.cache = db.cache
    <3> HIDE DEF ts, k
    <3> QED BY <1>2 DEF Files, SameButLocal
  <2>5. {"local_trace", "local_trace_state"} \subseteq LocalTables BY DEF LocalTables
  <2>6. db' = f BY <1>3
  <2>7. \A x \in f.cache : x.generation = f.generation /\ x.events = f.events
    <3> HIDE DEF f, ts, k
    <3> QED BY <1>2, <2>4 DEF FileSound, SameButLocal
  <2>8. FileSound(f, told) /\ f.ready /\ f.kind = "runtime" /\ Counted(f)
    <3>1. f.tables = db.tables \cup {"local_trace", "local_trace_state"} BY <2>4
    <3> HIDE DEF f, ts, k
    <3> QED BY <3>1, <1>1, <2>1, <2>3, <2>4, <2>5, <2>7, LocalFits
  <2>9. c \in Connections /\ c.mode = conn[u].mode /\ c.stage = "open" /\ c.purpose = conn[u].purpose
    BY <1>2 DEF Connections
  <2>10. ConnectionSound(f, c)
    <3>1. "local_trace_state" \in f.tables BY <2>4
    <3> HIDE DEF f, c
    <3> QED BY <3>1, <1>2, <2>3, <2>8, <2>9 DEF ConnectionSound
  <2>11. conn' = [conn EXCEPT ![u] = c] BY <1>3
  <2> HIDE DEF f, c
  <2>12. Exclusive' BY <1>2, <2>11 DEF Exclusive, Locks, Unconnected
  <2> QED BY <1>1, <1>2, <1>3, <2>3, <2>6, <2>8, <2>9, <2>10, <2>11, <2>12 DEF DatabaseInv, DatabaseTypeOK
<1>4. CASE /\ db' = [db EXCEPT !.tables = @ \cup {"local_trace"}]
           /\ conn' = [conn EXCEPT ![u] = Unconnected] /\ mishaps' = mishaps + 1
  <2> DEFINE ts == db.tables \cup {"local_trace"}
             f == [db EXCEPT !.tables = ts]
  <2>1. ts \in SUBSET AllTables BY <1>2 DEF Files, AllTables, LocalTables
  <2>2. f \in Files
    <3> HIDE DEF ts
    <3> QED BY <1>2, <2>1 DEF Files
  <2>3. SameButLocal(f) /\ f.tables = ts /\ f.numbered = db.numbered /\ f.trace = db.trace /\ f.cache = db.cache
    <3> HIDE DEF ts
    <3> QED BY <1>2 DEF Files, SameButLocal
  <2>4. FileSound(f, told)
    <3>1. {"local_trace"} \subseteq LocalTables BY DEF LocalTables
    <3>2. f.tables = db.tables \cup {"local_trace"} BY <2>3
    <3> HIDE DEF f, ts
    <3>3. \A x \in f.cache : x.generation = f.generation /\ x.events = f.events
      BY <1>2, <2>3 DEF FileSound, SameButLocal
    <3>4. told <= f.numbered /\ (\A n \in f.trace : n <= f.numbered)
          /\ ("local_trace_state" \notin f.tables => f.trace = {} /\ told = 0)
      BY <1>2, <2>3, <3>2 DEF FileSound
    <3> QED BY <3>1, <3>2, <3>3, <3>4, <1>1, <2>2, <2>3, LocalFits
  <2>5. db' = f BY <1>4
  <2>6. \A v \in Users : conn'[v] = Unconnected BY <1>2, <1>4 DEF DatabaseInv, DatabaseTypeOK
  <2>7. Exclusive' BY <2>6 DEF Exclusive, Locks, Unconnected
  <2>8. conn' \in [Users -> Connections \cup {Unconnected}] BY <1>4 DEF DatabaseInv, DatabaseTypeOK
  <2> HIDE DEF f
  <2> QED BY <1>1, <1>2, <1>4, <2>2, <2>4, <2>5, <2>6, <2>7, <2>8 DEF DatabaseInv, DatabaseTypeOK
<1> QED BY <1>3, <1>4 DEF MakeTrace

(* A transaction of an open runtime on its local records.                  *)
LEMMA LocalWriteKeeps ==
    ASSUME DatabaseInv, NEW u \in Users, Writable(u), NEW cache, NEW trace \in SUBSET Nat, NEW k \in Nat,
           cache \in {{}, db.cache},
           FileTransaction(u, [db EXCEPT !.cache = cache, !.trace = trace, !.numbered = k], conn[u]),
           told' \in Nat, told' <= k, \A n \in trace : n <= k,
           "local_trace_state" \notin db.tables => trace = {} /\ told' = 0,
           mishaps' # mishaps => told' = told
    PROVE  DatabaseInv'
<1> DEFINE f == [db EXCEPT !.cache = cache, !.trace = trace, !.numbered = k]
<1>1. db \in Files /\ FileSound(db, told) BY WritableFacts
<1>2. f \in Files BY <1>1 DEF Files
<1>3. SameButLocal(f) /\ f.tables = db.tables /\ f.cache = cache /\ f.trace = trace /\ f.numbered = k
  BY <1>1 DEF Files, SameButLocal
<1> HIDE DEF f
<1>4. \A x \in f.cache : x.generation = f.generation /\ x.events = f.events
  BY <1>1, <1>3 DEF FileSound, SameButLocal
<1>5. f.tables = db.tables \cup {} /\ {} \subseteq LocalTables BY <1>3
<1>6. FileSound(f, told') /\ f.ready /\ f.kind = "runtime" /\ Counted(f)
  BY <1>2, <1>3, <1>4, <1>5, LocalFits
<1>7. FileTransaction(u, f, conn[u]) BY DEF f
<1> QED BY <1>1, <1>2, <1>3, <1>6, <1>7, OwnWriteKeeps

(* A line of the trace is numbered.                                        *)
LEMMA TraceAppendKeeps == ASSUME DatabaseInv, NEW u \in Users, TraceAppend(u) PROVE DatabaseInv'
<1>1. Writable(u) /\ "local_trace" \in conn[u].made BY DEF TraceAppend
<1>2. /\ db \in Files /\ FileSound(db, told) /\ told \in Nat /\ mishaps \in Nat
      /\ "local_trace_state" \in db.tables
  BY <1>1, WritableFacts
<1>3. Numbering(db) \in Nat /\ told <= Numbering(db) /\ \A m \in db.trace : m <= Numbering(db)
  BY <1>2, NumberingFacts
<1> DEFINE n == Numbering(db) + 1
           s == db.trace \cup {n}
<1>4. n \in Nat /\ told <= n /\ s \in SUBSET Nat /\ \A m \in s : m <= n
  <2>1. db.trace \in SUBSET Nat BY <1>2 DEF Files
  <2>2. n \in Nat /\ Numbering(db) < n BY <1>3
  <2> HIDE DEF n
  <2>3. \A m \in db.trace : m \in Nat BY <2>1
  <2>4. \A m \in db.trace : m <= n BY <1>3, <2>2, <2>3
  <2>5. told <= n BY <1>2, <1>3, <2>2
  <2> QED BY <2>1, <2>2, <2>4, <2>5
<1>5. FileTransaction(u, [db EXCEPT !.trace = s, !.numbered = n], conn[u]) /\ told' = (IF mishaps' = mishaps THEN n ELSE told)
  BY DEF TraceAppend
<1>6. [db EXCEPT !.trace = s, !.numbered = n] = [db EXCEPT !.cache = db.cache, !.trace = s, !.numbered = n]
  <2> HIDE DEF s, n
  <2> QED BY <1>2 DEF Files
<1> HIDE DEF n, s
<1>7. told' \in Nat /\ told' <= n /\ (mishaps' # mishaps => told' = told) BY <1>2, <1>4, <1>5
<1> QED BY <1>1, <1>2, <1>4, <1>5, <1>6, <1>7, LocalWriteKeeps

(* Lines of the trace are pruned, or all local state cleared.              *)
LEMMA TracePruneKeeps == ASSUME DatabaseInv, NEW u \in Users, TracePrune(u) \/ ClearCaches(u) PROVE DatabaseInv'
<1>1. Writable(u) /\ told' = told BY DEF TracePrune, ClearCaches
<1>2. /\ db \in Files /\ FileSound(db, told) /\ told \in Nat BY <1>1, WritableFacts
<1>3. db.numbered \in Nat /\ told <= db.numbered /\ \A m \in db.trace : m <= db.numbered BY <1>2 DEF FileSound, Files
<1>4. PICK cache \in {{}, db.cache}, s \in SUBSET db.trace :
        FileTransaction(u, [db EXCEPT !.cache = cache, !.trace = s, !.numbered = db.numbered], conn[u])
  <2>1. CASE TracePrune(u)
    <3>1. PICK n \in db.trace : FileTransaction(u, [db EXCEPT !.trace = {m \in @ : m > n}], conn[u])
      BY <2>1 DEF TracePrune
    <3> DEFINE s == {m \in db.trace : m > n}
    <3>2. [db EXCEPT !.trace = s] = [db EXCEPT !.cache = db.cache, !.trace = s, !.numbered = db.numbered]
      <4> HIDE DEF s
      <4> QED BY <1>2 DEF Files
    <3>3. FileTransaction(u, [db EXCEPT !.trace = s], conn[u]) BY <3>1
    <3>4. s \in SUBSET db.trace OBVIOUS
    <3> HIDE DEF s
    <3> QED BY <3>2, <3>3, <3>4
  <2>2. CASE ClearCaches(u)
    <3>1. [db EXCEPT !.cache = {}, !.trace = {}] = [db EXCEPT !.cache = {}, !.trace = {}, !.numbered = db.numbered]
      BY <1>2 DEF Files
    <3> QED BY <2>2, <3>1 DEF ClearCaches
  <2> QED BY <2>1, <2>2
<1>5. s \in SUBSET Nat /\ (\A m \in s : m <= db.numbered) /\ ("local_trace_state" \notin db.tables => s = {} /\ told = 0)
  BY <1>2, <1>3, <1>4 DEF FileSound, Files
<1> QED BY <1>1, <1>2, <1>3, <1>4, <1>5, LocalWriteKeeps

(* A cache is stored, of the events as they are.                           *)
LEMMA CachePutKeeps == ASSUME DatabaseInv, NEW u \in Users, CachePut(u) PROVE DatabaseInv'
<1>1. Writable(u) /\ UNCHANGED <<conn, told, mishaps>> BY DEF CachePut
<1>2. /\ db \in Files /\ FileSound(db, told) /\ told \in Nat /\ mishaps \in Nat /\ conn[u] \in Connections
      /\ \A v \in Users \ {u} : conn[v] = Unconnected
      /\ conn[u].mode = ModeOf(conn[u].purpose) /\ conn[u].mode # "readonly"
      /\ conn[u].stage = "open" /\ conn[u].purpose \in {"create", "restore", "run", "reset"}
      /\ conn[u].made # {} => "local_trace_state" \in db.tables
  BY <1>1, WritableFacts
<1> DEFINE ts == db.tables \cup {"local_cache"}
           cs == {[generation |-> db.generation, events |-> db.events]}
           f == [db EXCEPT !.tables = ts, !.cache = cs]
<1>3. db' = f BY DEF CachePut
<1>4. ts \in SUBSET AllTables /\ cs \in SUBSET [generation : Nat, events : Nat]
  BY <1>2 DEF Files, AllTables, LocalTables
<1>5. \A x \in cs : x.generation = db.generation /\ x.events = db.events OBVIOUS
<1>6. f \in Files
  <2> HIDE DEF ts, cs
  <2> QED BY <1>2, <1>4 DEF Files
<1>7. SameButLocal(f) /\ f.tables = ts /\ f.numbered = db.numbered /\ f.trace = db.trace /\ f.cache = cs
  <2> HIDE DEF ts, cs
  <2> QED BY <1>2 DEF Files, SameButLocal
<1>8. f.tables = db.tables \cup {"local_cache"} /\ {"local_cache"} \subseteq LocalTables BY <1>7 DEF LocalTables
<1> HIDE DEF f, ts, cs
<1>9. FileSound(f, told) /\ f.ready /\ f.kind = "runtime" /\ Counted(f)
  <2>1. told <= f.numbered /\ (\A n \in f.trace : n <= f.numbered)
        /\ ("local_trace_state" \notin f.tables => f.trace = {} /\ told = 0)
    BY <1>2, <1>7, <1>8 DEF FileSound
  <2>2. \A x \in f.cache : x.generation = f.generation /\ x.events = f.events
    BY <1>5, <1>7 DEF SameButLocal
  <2> QED BY <1>1, <1>6, <1>7, <1>8, <2>1, <2>2, LocalFits
<1>10. ConnectionSound(f, conn[u])
  BY <1>2, <1>6, <1>8, <1>9 DEF ConnectionSound
<1>11. Exclusive' BY <1>1 DEF DatabaseInv, Exclusive, Locks
<1> QED BY <1>1, <1>2, <1>3, <1>6, <1>9, <1>10, <1>11 DEF DatabaseInv, DatabaseTypeOK

(* The file is removed.                                                    *)
LEMMA RemoveKeeps == ASSUME DatabaseInv, Remove PROVE DatabaseInv'
<1>1. \A u \in Users : conn'[u] = Unconnected BY DEF Remove
<1>2. Exclusive' BY <1>1 DEF Exclusive, Locks, Unconnected
<1>3. FileSound(Absent, 0) BY DatabaseConstants DEF FileSound
<1> QED BY <1>1, <1>2, <1>3 DEF Remove, DatabaseInv, DatabaseTypeOK

(* Another hand changes nothing anybody uses, and leaves its mark.         *)
LEMMA TamperKeeps == ASSUME DatabaseInv, Tamper PROVE DatabaseInv'
<1>1. db \in Files /\ db.vault /\ UNCHANGED <<conn, told>> /\ mishaps' \in Nat
  BY DEF Tamper, Absent, DatabaseInv, DatabaseTypeOK
<1>2. \A u \in Users : conn[u] = Unconnected
  <2> SUFFICES ASSUME NEW u \in Users, conn[u] # Unconnected PROVE FALSE OBVIOUS
  <2>1. conn[u].stage = "reserved"
    BY DEF Tamper, Unowned, Locks, DatabaseInv, DatabaseTypeOK, Connections
  <2>2. db = Empty BY <2>1 DEF DatabaseInv, ConnectionSound
  <2> QED BY <1>1, <2>2 DEF Empty
<1>3. /\ db' \in Files /\ db'.foreign /\ db'.ready = db.ready /\ db'.whole = db.whole /\ db'.vault
      /\ db'.cache = db.cache /\ db'.generation = db.generation /\ db'.events = db.events
      /\ db'.numbered = db.numbered /\ db'.trace = db.trace
      /\ "local_trace_state" \notin db'.tables => "local_trace_state" \notin db.tables
  <2>1. ASSUME NEW v \in SUBSET Oddities, NEW f, f = [db EXCEPT !.odd = v, !.foreign = TRUE]
        PROVE  /\ f \in Files /\ f.foreign /\ f.ready = db.ready /\ f.whole = db.whole /\ f.vault
               /\ f.cache = db.cache /\ f.generation = db.generation /\ f.events = db.events
               /\ f.numbered = db.numbered /\ f.trace = db.trace
               /\ "local_trace_state" \notin f.tables => "local_trace_state" \notin db.tables
    <3>1. f \in Files BY <1>1, <2>1 DEF Files
    <3>2. f.foreign = TRUE /\ f.vault = db.vault BY <1>1, <2>1 DEF Files
    <3> QED BY <1>1, <2>1, <3>1, <3>2 DEF Files
  <2>2. ASSUME NEW v \in SUBSET AllTables,
               "local_trace_state" \notin v => "local_trace_state" \notin db.tables, NEW f, f = [db EXCEPT !.tables = v, !.foreign = TRUE]
        PROVE  /\ f \in Files /\ f.foreign /\ f.ready = db.ready /\ f.whole = db.whole /\ f.vault
               /\ f.cache = db.cache /\ f.generation = db.generation /\ f.events = db.events
               /\ f.numbered = db.numbered /\ f.trace = db.trace
               /\ "local_trace_state" \notin f.tables => "local_trace_state" \notin db.tables
    <3>1. f \in Files BY <1>1, <2>2 DEF Files
    <3>2. f.foreign = TRUE /\ f.vault = db.vault BY <1>1, <2>2 DEF Files
    <3> QED BY <1>1, <2>2, <3>1, <3>2 DEF Files
  <2>3. ASSUME NEW v \in Nat, NEW f, f = [db EXCEPT !.lastSeq = v, !.foreign = TRUE]
        PROVE  /\ f \in Files /\ f.foreign /\ f.ready = db.ready /\ f.whole = db.whole /\ f.vault
               /\ f.cache = db.cache /\ f.generation = db.generation /\ f.events = db.events
               /\ f.numbered = db.numbered /\ f.trace = db.trace
               /\ "local_trace_state" \notin f.tables => "local_trace_state" \notin db.tables
    <3>1. f \in Files BY <1>1, <2>3 DEF Files
    <3>2. f.foreign = TRUE /\ f.vault = db.vault BY <1>1, <2>3 DEF Files
    <3> QED BY <1>1, <2>3, <3>1, <3>2 DEF Files
  <2>4. ASSUME NEW v \in Nat, NEW f, f = [db EXCEPT !.positions = v, !.foreign = TRUE]
        PROVE  /\ f \in Files /\ f.foreign /\ f.ready = db.ready /\ f.whole = db.whole /\ f.vault
               /\ f.cache = db.cache /\ f.generation = db.generation /\ f.events = db.events
               /\ f.numbered = db.numbered /\ f.trace = db.trace
               /\ "local_trace_state" \notin f.tables => "local_trace_state" \notin db.tables
    <3>1. f \in Files BY <1>1, <2>4 DEF Files
    <3>2. f.foreign = TRUE /\ f.vault = db.vault BY <1>1, <2>4 DEF Files
    <3> QED BY <1>1, <2>4, <3>1, <3>2 DEF Files
  <2>5. ASSUME NEW v \in BOOLEAN, NEW f, f = [db EXCEPT !.wal = v, !.foreign = TRUE]
        PROVE  /\ f \in Files /\ f.foreign /\ f.ready = db.ready /\ f.whole = db.whole /\ f.vault
               /\ f.cache = db.cache /\ f.generation = db.generation /\ f.events = db.events
               /\ f.numbered = db.numbered /\ f.trace = db.trace
               /\ "local_trace_state" \notin f.tables => "local_trace_state" \notin db.tables
    <3>1. f \in Files BY <1>1, <2>5 DEF Files
    <3>2. f.foreign = TRUE /\ f.vault = db.vault BY <1>1, <2>5 DEF Files
    <3> QED BY <1>1, <2>5, <3>1, <3>2 DEF Files
  <2>6. /\ db.odd \in SUBSET Oddities /\ db.tables \in SUBSET AllTables /\ db.lastSeq + 1 \in Nat
    BY <1>1 DEF Files
  <2>7. CASE \E o \in Oddities : db' = [db EXCEPT !.odd = @ \cup {o}, !.foreign = TRUE]
    <3>1. PICK o \in Oddities : db' = [db EXCEPT !.odd = db.odd \cup {o}, !.foreign = TRUE] BY <2>7
    <3>2. db.odd \cup {o} \in SUBSET Oddities BY <2>6
    <3> QED BY <2>1, <3>1, <3>2
  <2>8. CASE \E t \in {"event_positions", "keystore"} : db' = [db EXCEPT !.tables = @ \ {t}, !.foreign = TRUE]
    <3>1. PICK t \in {"event_positions", "keystore"} : db' = [db EXCEPT !.tables = db.tables \ {t}, !.foreign = TRUE] BY <2>8
    <3>2. db.tables \ {t} \in SUBSET AllTables /\ ("local_trace_state" \notin db.tables \ {t} => "local_trace_state" \notin db.tables)
      BY <2>6
    <3> QED BY <2>2, <3>1, <3>2
  <2>9. CASE db' \in {[db EXCEPT !.lastSeq = @ + 1, !.foreign = TRUE], [db EXCEPT !.positions = 0, !.foreign = TRUE],
                      [db EXCEPT !.wal = TRUE, !.foreign = TRUE]}
    <3>1. db' \in {[db EXCEPT !.lastSeq = db.lastSeq + 1, !.foreign = TRUE], [db EXCEPT !.positions = 0, !.foreign = TRUE],
                   [db EXCEPT !.wal = TRUE, !.foreign = TRUE]} BY <2>9
    <3>2. CASE db' = [db EXCEPT !.lastSeq = db.lastSeq + 1, !.foreign = TRUE] BY <2>3, <2>6, <3>2
    <3>3. CASE db' = [db EXCEPT !.positions = 0, !.foreign = TRUE] BY <2>4, <3>3
    <3>4. CASE db' = [db EXCEPT !.wal = TRUE, !.foreign = TRUE] BY <2>5, <3>4
    <3> QED BY <3>1, <3>2, <3>3, <3>4
  <2> QED BY <2>7, <2>8, <2>9 DEF Tamper, Tampered
<1>4. FileSound(db, told) BY DEF DatabaseInv
<1>5. FileSound(db', told') BY <1>1, <1>3, <1>4 DEF FileSound
<1>6. Exclusive' BY <1>1 DEF DatabaseInv, Exclusive, Locks
<1> QED BY <1>1, <1>2, <1>3, <1>5, <1>6 DEF DatabaseInv, DatabaseTypeOK

-----------------------------------------------------------------------------
(* At first there is no file.                                              *)
LEMMA DatabaseBegins == ASSUME DatabaseInit PROVE DatabaseInv
<1>1. FileSound(Absent, 0) BY DatabaseConstants DEF FileSound
<1>2. Exclusive BY DEF DatabaseInit, Exclusive, Locks, Unconnected
<1> QED BY <1>1, <1>2 DEF DatabaseInit, DatabaseInv, DatabaseTypeOK

(* Every step keeps the invariant.                                         *)
LEMMA DatabaseSteps == ASSUME DatabaseInv, [DatabaseNext]_dbvars PROVE DatabaseInv'
<1>1. ASSUME NEW u \in Users, NEW purpose \in {"create", "restore", "export"}, Reserve(u, purpose) PROVE DatabaseInv'
  BY <1>1, ReserveKeeps
<1>2. ASSUME NEW u \in Users, NEW purpose \in {"run", "reset", "inspect", "deliver"}, OpenFile(u, purpose) PROVE DatabaseInv'
  BY <1>2, OpenFileKeeps
<1>3. ASSUME NEW u \in Users, Probe(u) \/ CreateRuntime(u) \/ Lay(u) \/ CopyObjects(u) \/ PublishReady(u) PROVE DatabaseInv'
  BY <1>3, ProbeKeeps, CreateRuntimeKeeps, LayKeeps, CopyObjectsKeeps, PublishReadyKeeps
<1>4. ASSUME NEW u \in Users, Check(u) \/ RenewIdentity(u) \/ CloseFile(u) \/ UserCrash(u) PROVE DatabaseInv'
  BY <1>4, CheckKeeps, RenewIdentityKeeps, CloseFileKeeps
<1>5. ASSUME NEW u \in Users, AcceptEvent(u) \/ MakeTrace(u) \/ TraceAppend(u) \/ TracePrune(u) \/ ClearCaches(u) \/ CachePut(u)
      PROVE DatabaseInv'
  BY <1>5, AcceptEventKeeps, MakeTraceKeeps, TraceAppendKeeps, TracePruneKeeps, CachePutKeeps
<1>6. CASE UNCHANGED dbvars
  BY <1>6 DEF dbvars, DatabaseInv, DatabaseTypeOK, Exclusive, Locks
<1> QED BY <1>1, <1>2, <1>3, <1>4, <1>5, <1>6, RemoveKeeps, TamperKeeps DEF DatabaseNext

(* A file in use is whole, ready, of the kind it is used as and accounted  *)
(* for, nobody writes what another reads, and what was published opens.    *)
LEMMA OpensWholeHolds == ASSUME DatabaseInv PROVE OpensWhole
<1>1. ASSUME NEW u \in Users, At(u, "open")
      PROVE  /\ db.ready /\ db.whole
             /\ IF conn[u].mode = "readonly" THEN db.kind = "portable"
                ELSE db.kind = "runtime" /\ db.positions = db.events /\ db.lastSeq = db.events
  <2>1. /\ conn[u].stage = "open" /\ ConnectionSound(db, conn[u]) /\ db \in Files /\ FileSound(db, told)
    BY <1>1, AtFacts
  <2> QED BY <2>1 DEF ConnectionSound, FileSound, Counted
<1>2. ASSUME NEW u \in Users, NEW v \in Users, u # v, Locks(u), Locks(v)
      PROVE  {conn[u].mode, conn[v].mode} = {"readonly"}
  BY <1>2 DEF DatabaseInv, Exclusive
<1>3. ASSUME db.here, ~db.foreign, db.ready
      PROVE  IF db.kind = "runtime" THEN FitsToRun(db) ELSE FitsToDeliver(db)
  <2>1. db \in Files BY <1>3 DEF DatabaseInv, DatabaseTypeOK, Absent
  <2> QED BY <1>3, <2>1 DEF DatabaseInv, FileSound
<1> QED BY <1>1, <1>2, <1>3 DEF OpensWhole

(* No cache is of other events than the file's, and no trace number is     *)
(* handed out twice.                                                       *)
LEMMA LocalStateHolds == ASSUME DatabaseInv PROVE LocalStateSound
<1> SUFFICES ASSUME db.here PROVE /\ \A x \in db.cache : x.generation = db.generation /\ x.events = db.events
                                  /\ told <= Numbering(db)
  BY DEF LocalStateSound
<1>1. db \in Files BY DEF DatabaseInv, DatabaseTypeOK, Absent
<1> QED BY <1>1, NumberingFacts DEF DatabaseInv, DatabaseTypeOK, FileSound

(* In every behaviour of one database file and its users the invariant     *)
(* holds: each stage of an open finds the file as the stage before left it *)
(* (sqlite/driver.ts, sqlite/vault.ts).                                    *)
THEOREM DatabaseInvariant == DatabaseSpec => []DatabaseInv
<1>1. DatabaseInit => DatabaseInv BY DatabaseBegins
<1>2. DatabaseInv /\ [DatabaseNext]_dbvars => DatabaseInv' BY DatabaseSteps
<1> QED BY <1>1, <1>2, PTL DEF DatabaseSpec

(* For any number of users, through crashes and transactions of unknown    *)
(* outcome: a file in use is whole, ready and of the kind it is used as,   *)
(* writers exclude each other, and what was published opens                *)
(* (sqlite/import.ts, sqlite/restore.ts).                                  *)
THEOREM DatabaseOpensWhole == DatabaseSpec => []OpensWhole
<1>1. DatabaseInv => OpensWhole BY OpensWholeHolds
<1> QED BY <1>1, DatabaseInvariant, PTL

(* The caches and the trace of a file are never taken for those of another *)
(* identity or of other events (sqlite/vault.ts).                          *)
THEOREM DatabaseLocalState == DatabaseSpec => []LocalStateSound
<1>1. DatabaseInv => LocalStateSound BY LocalStateHolds
<1> QED BY <1>1, DatabaseInvariant, PTL

-----------------------------------------------------------------------------
(***************************************************************************)
(* The browser's pool of handles, over any finite number of databases.     *)
(* What is counted is Demand: the files there are, a journal and the       *)
(* temporary files for every writing connection whether made or not.  It   *)
(* moves only when a database comes, goes, or opens to write, so that the  *)
(* growth an open waits for is still enough when it comes (HandlesInv):    *)
(* connections go on working meanwhile, and a file removed under it costs  *)
(* it no more than the file gave up.  The sums of HandlesSuffice are       *)
(* brought back to Demand.                                                 *)
(***************************************************************************)

AskedTurns ==
    [name : Names, purpose : Purposes, step : {"asked", "grown"}]
        \cup [name : Names, purpose : Purposes, step : {"growing"}, by : Nat]

PoolTypeOK ==
    /\ pool \in [held : BOOLEAN, capacity : Nat]
    /\ disk \in [dbs : SUBSET Names, journals : SUBSET Names, temps : [Names -> 0 .. TemporaryFiles]]
    /\ open \in [Names -> {"no", "read", "write"}]
    /\ turn \in Seq(AskedTurns)

(* The handles that the files take, and the connections may ever take.     *)
Handles(dbs, journals, writing) ==
    Cardinality(dbs) + Cardinality(journals \cup writing) + TemporaryFiles * Cardinality(writing)

Demand == Handles(disk.dbs, disk.journals, Writing)

(* Temporary files are some writing connection's.                          *)
TempsOwned == \A n \in Names \ Writing : disk.temps[n] = 0

(* Only the first has begun, and nobody opens the name it looked at.       *)
FirstAlone == \A i \in DOMAIN turn : turn[i].step # "asked" => i = 1 /\ open[turn[i].name] = "no"

HandlesInv ==
    /\ pool.capacity >= Demand
    /\ TurnAt(1, "growing") => pool.capacity + turn[1].by >= Demand + Takes(turn[1].name, turn[1].purpose)
    /\ TurnAt(1, "grown") => pool.capacity >= Demand + Takes(turn[1].name, turn[1].purpose)

PoolInv == PoolTypeOK /\ TempsOwned /\ FirstAlone /\ HandlesInv

-----------------------------------------------------------------------------
(* Sums over the names. *)

(* What adds nothing may be left out of a sum.                             *)
LEMMA SumLeavesOut ==
    ASSUME NEW f, NEW N, IsFiniteSet(N), NEW S \in SUBSET N,
           \A x \in N : f[x] \in Nat, \A x \in N \ S : f[x] = 0
    PROVE  SumFunctionOnSet(f, N) = SumFunctionOnSet(f, S)
<1> DEFINE Unlike == {R \in SUBSET N : S \subseteq R /\ SumFunctionOnSet(f, R) # SumFunctionOnSet(f, S)}
<1>1. SUFFICES ASSUME Unlike # {} PROVE FALSE OBVIOUS
<1>2. PICK R \in Unlike : \A Q \in Unlike : Q \subseteq R => Q = R
  <2>1. Unlike \in SUBSET (SUBSET N) OBVIOUS
  <2> HIDE DEF Unlike
  <2> QED BY <1>1, <2>1, SmallestSubset
<1>3. R # S OBVIOUS
<1>4. PICK x \in R : x \notin S BY <1>3
<1>5. IsFiniteSet(R) /\ (\A y \in R : f[y] \in Nat) /\ IsFiniteSet(R \ {x}) /\ \A y \in R \ {x} : f[y] \in Nat
  BY FS_Subset, FS_RemoveElement
<1>6. SumFunctionOnSet(f, R) = f[x] + SumFunctionOnSet(f, R \ {x}) BY <1>5, SumRemove
<1>7. SumFunctionOnSet(f, R \ {x}) = SumFunctionOnSet(f, S)
  <2>1. R \ {x} \in SUBSET N /\ S \subseteq R \ {x} /\ R \ {x} # R /\ R \ {x} \subseteq R BY <1>4
  <2> QED BY <1>2, <2>1
<1>8. SumFunctionOnSet(f, R \ {x}) \in Nat BY <1>5, SumType
<1>9. f[x] = 0 BY <1>4
<1> QED BY <1>6, <1>7, <1>8, <1>9

(* One more or one less in a finite set.                                   *)
LEMMA OneMore ==
    ASSUME NEW S, IsFiniteSet(S), NEW x
    PROVE  Cardinality(S \cup {x}) = Cardinality(S) + (IF x \in S THEN 0 ELSE 1)
<1>1. Cardinality(S) \in Nat BY FS_CardinalityType
<1>2. Cardinality(S \cup {x}) = (IF x \in S THEN Cardinality(S) ELSE Cardinality(S) + 1) BY FS_AddElement
<1> QED BY <1>1, <1>2

(* So with one less.                                                       *)
LEMMA OneLess ==
    ASSUME NEW S, IsFiniteSet(S), NEW x \in S
    PROVE  Cardinality(S) = Cardinality(S \ {x}) + 1 /\ Cardinality(S \ {x}) \in Nat
<1>1. IsFiniteSet(S \ {x}) BY FS_Subset
<1>2. Cardinality(S) \in Nat /\ Cardinality(S \ {x}) \in Nat BY <1>1, FS_CardinalityType
<1>3. Cardinality(S \ {x}) = (IF x \in S THEN Cardinality(S) - 1 ELSE Cardinality(S)) BY FS_RemoveElement
<1> QED BY <1>2, <1>3

(* What writers have made and may still make adds up to what one ever may, *)
(* times the writers, with a journal for each that has none.               *)
LEMMA MadeAndStillMade ==
    ASSUME PoolTypeOK
    PROVE  SumFunctionOnSet(MayMake, Writing) + SumFunctionOnSet(disk.temps, Writing)
             = Cardinality(Writing \ disk.journals) + TemporaryFiles * Cardinality(Writing)
<1> DEFINE J == disk.journals
           h == MayMake
           f == disk.temps
           Fair(S) == SumFunctionOnSet(h, S) + SumFunctionOnSet(f, S) = Cardinality(S \ J) + TemporaryFiles * Cardinality(S)
           Unfair == {S \in SUBSET Writing : ~Fair(S)}
<1>1. SUFFICES ASSUME Unfair # {} PROVE FALSE OBVIOUS
<1>0. Writing \in SUBSET Names /\ IsFiniteSet(Writing)
  BY FS_Subset, PoolAssumption DEF Writing
<1>2. PICK S \in Unfair : \A R \in Unfair : R \subseteq S => R = S
  <2>1. Unfair \in SUBSET (SUBSET Writing) OBVIOUS
  <2> HIDE DEF Unfair
  <2> QED BY <1>0, <1>1, <2>1, SmallestSubset
<1>3. IsFiniteSet(S) BY <1>0, FS_Subset
<1>4. \A n \in Writing : /\ f[n] \in Nat /\ h[n] \in Nat
                         /\ h[n] + f[n] = (IF n \in J THEN 0 ELSE 1) + TemporaryFiles
  BY <1>0, PoolAssumption DEF MayMake, PoolTypeOK
<1>5. S # {}
  <2>1. Cardinality({} \ J) = 0 /\ Cardinality({}) = 0 BY FS_EmptySet
  <2>2. SumFunctionOnSet(h, {}) = 0 /\ SumFunctionOnSet(f, {}) = 0 BY SumEmpty
  <2> QED BY <2>1, <2>2, PoolAssumption
<1>6. PICK n \in S : TRUE BY <1>5
<1> DEFINE R == S \ {n}
<1>7. Fair(R)
  <2>1. R \in SUBSET Writing /\ R \subseteq S /\ R # S BY <1>6
  <2> QED BY <1>2, <2>1
<1>8. /\ SumFunctionOnSet(h, S) = h[n] + SumFunctionOnSet(h, R)
      /\ SumFunctionOnSet(f, S) = f[n] + SumFunctionOnSet(f, R)
  <2>1. \A y \in S : f[y] \in Nat /\ h[y] \in Nat BY <1>4
  <2> QED BY <1>3, <1>6, <2>1, SumRemove
<1>9. SumFunctionOnSet(h, R) \in Nat /\ SumFunctionOnSet(f, R) \in Nat
  <2>1. IsFiniteSet(R) BY <1>3, FS_RemoveElement
  <2>2. \A y \in R : f[y] \in Nat /\ h[y] \in Nat BY <1>4
  <2> QED BY <2>1, <2>2, SumType
<1>10. Cardinality(S) = Cardinality(R) + 1 /\ Cardinality(R) \in Nat
  BY <1>3, <1>6, OneLess
<1>11. Cardinality(S \ J) = Cardinality(R \ J) + (IF n \in J THEN 0 ELSE 1) /\ Cardinality(R \ J) \in Nat
  <2>1. IsFiniteSet(S \ J) /\ IsFiniteSet(R \ J) BY <1>3, FS_Subset
  <2>2. CASE n \in J
    <3>1. S \ J = R \ J BY <2>2
    <3>2. Cardinality(R \ J) \in Nat BY <2>1, FS_CardinalityType
    <3>3. Cardinality(S \ J) = Cardinality(R \ J) BY <3>1
    <3> QED BY <2>2, <3>2, <3>3
  <2>3. CASE n \notin J
    <3>1. R \ J = (S \ J) \ {n} /\ n \in S \ J BY <2>3, <1>6
    <3>2. Cardinality(S \ J) = Cardinality((S \ J) \ {n}) + 1 /\ Cardinality((S \ J) \ {n}) \in Nat
      BY <2>1, <3>1, OneLess
    <3> QED BY <2>3, <3>1, <3>2
  <2> QED BY <2>2, <2>3
<1>12. TemporaryFiles * Cardinality(S) = TemporaryFiles * Cardinality(R) + TemporaryFiles
  BY <1>10, PoolAssumption
<1>13. h[n] + f[n] = (IF n \in J THEN 0 ELSE 1) + TemporaryFiles /\ h[n] \in Nat /\ f[n] \in Nat BY <1>4, <1>6
<1>14. Fair(S)
  <2> DEFINE a == SumFunctionOnSet(h, R)
             b == SumFunctionOnSet(f, R)
             c == Cardinality(R \ J)
             d == TemporaryFiles * Cardinality(R)
             one == IF n \in J THEN 0 ELSE 1
  <2>1. a \in Nat /\ b \in Nat /\ c \in Nat /\ d \in Nat /\ one \in Nat /\ TemporaryFiles \in Nat
    BY <1>9, <1>10, <1>11, PoolAssumption
  <2>2. a + b = c + d BY <1>7
  <2>3. h[n] + f[n] = one + TemporaryFiles /\ h[n] \in Nat /\ f[n] \in Nat BY <1>13
  <2>4. Fair(S) <=> (h[n] + a) + (f[n] + b) = (c + one) + (d + TemporaryFiles) BY <1>8, <1>11, <1>12
  <2> HIDE DEF a, b, c, d, one, Fair, h, f
  <2> DEFINE x == h[n]
             y == f[n]
  <2>5. x + y = one + TemporaryFiles /\ x \in Nat /\ y \in Nat BY <2>3
  <2>6. Fair(S) <=> (x + a) + (y + b) = (c + one) + (d + TemporaryFiles) BY <2>4
  <2> HIDE DEF x, y
  <2> QED BY <2>1, <2>2, <2>5, <2>6
<1> QED BY <1>2, <1>14

(* Handles are counted in whole numbers.                                   *)
LEMMA HandlesCount ==
    ASSUME NEW dbs \in SUBSET Names, NEW journals \in SUBSET Names, NEW writing \in SUBSET Names
    PROVE  /\ IsFiniteSet(dbs) /\ IsFiniteSet(journals) /\ IsFiniteSet(writing)
           /\ Cardinality(dbs) \in Nat /\ Cardinality(journals \cup writing) \in Nat
           /\ Cardinality(writing) \in Nat /\ TemporaryFiles * Cardinality(writing) \in Nat
           /\ Handles(dbs, journals, writing) \in Nat
<1>1. IsFiniteSet(dbs) /\ IsFiniteSet(journals) /\ IsFiniteSet(writing) /\ IsFiniteSet(journals \cup writing)
  BY FS_Subset, PoolAssumption
<1>2. Cardinality(dbs) \in Nat /\ Cardinality(journals \cup writing) \in Nat /\ Cardinality(writing) \in Nat
  BY <1>1, FS_CardinalityType
<1>3. TemporaryFiles * Cardinality(writing) \in Nat BY <1>2, PoolAssumption
<1> QED BY <1>1, <1>2, <1>3 DEF Handles

(* Fewer files and writers take fewer handles.                             *)
LEMMA HandlesFewer ==
    ASSUME NEW d1 \in SUBSET Names, NEW j1 \in SUBSET Names, NEW w1 \in SUBSET Names,
           NEW d2 \in SUBSET d1, NEW j2 \in SUBSET Names, NEW w2 \in SUBSET w1, j2 \cup w2 \subseteq j1 \cup w1
    PROVE  Handles(d2, j2, w2) <= Handles(d1, j1, w1)
<1>1. Cardinality(d2) <= Cardinality(d1) /\ Cardinality(j2 \cup w2) <= Cardinality(j1 \cup w1) /\ Cardinality(w2) <= Cardinality(w1)
  <2>1. IsFiniteSet(d1) /\ IsFiniteSet(j1 \cup w1) /\ IsFiniteSet(w1) BY FS_Subset, PoolAssumption
  <2> QED BY <2>1, FS_Subset
<1>2. /\ Cardinality(d1) \in Nat /\ Cardinality(j1 \cup w1) \in Nat /\ Cardinality(w1) \in Nat
      /\ Cardinality(d2) \in Nat /\ Cardinality(j2 \cup w2) \in Nat /\ Cardinality(w2) \in Nat
  BY HandlesCount
<1>3. TemporaryFiles * Cardinality(w2) <= TemporaryFiles * Cardinality(w1)
      /\ TemporaryFiles * Cardinality(w1) \in Nat /\ TemporaryFiles * Cardinality(w2) \in Nat
  <2>1. \A t, a, b \in Nat : a <= b => t * a <= t * b /\ t * a \in Nat /\ t * b \in Nat OBVIOUS
  <2> QED BY <1>1, <1>2, <2>1, PoolAssumption
<1> QED BY <1>1, <1>2, <1>3 DEF Handles

(* The handles a file takes or gives up.                                   *)
LEMMA HandlesWithout ==
    ASSUME NEW dbs \in SUBSET Names, NEW journals \in SUBSET Names, NEW writing \in SUBSET Names,
           NEW n \in dbs
    PROVE  Handles(dbs \ {n}, journals, writing) + 1 = Handles(dbs, journals, writing)
<1> DEFINE c == Cardinality(dbs \ {n})
           ju == Cardinality(journals \cup writing)
           t == TemporaryFiles * Cardinality(writing)
<1>1. ju \in Nat /\ t \in Nat /\ IsFiniteSet(dbs) BY HandlesCount
<1>2. Cardinality(dbs) = c + 1 /\ c \in Nat BY <1>1, OneLess
<1>3. Handles(dbs, journals, writing) = (c + 1) + ju + t BY <1>2 DEF Handles
<1>4. Handles(dbs \ {n}, journals, writing) = c + ju + t BY DEF Handles
<1> HIDE DEF c, ju, t
<1>5. (c + ju + t) + 1 = (c + 1) + ju + t BY <1>1, <1>2
<1> QED BY <1>3, <1>4, <1>5

(* And with one more.                                                      *)
LEMMA HandlesWith ==
    ASSUME NEW dbs \in SUBSET Names, NEW journals \in SUBSET Names, NEW writing \in SUBSET Names,
           NEW n \in Names
    PROVE  Handles(dbs \cup {n}, journals, writing) = Handles(dbs, journals, writing) + (IF n \in dbs THEN 0 ELSE 1)
<1> DEFINE c == Cardinality(dbs)
           new == IF n \in dbs THEN 0 ELSE 1
           ju == Cardinality(journals \cup writing)
           t == TemporaryFiles * Cardinality(writing)
<1>1. c \in Nat /\ ju \in Nat /\ t \in Nat /\ IsFiniteSet(dbs) /\ new \in Nat BY HandlesCount
<1>2. Cardinality(dbs \cup {n}) = c + new BY <1>1, OneMore
<1>3. Handles(dbs, journals, writing) = c + ju + t BY DEF Handles
<1>4. Handles(dbs \cup {n}, journals, writing) = (c + new) + ju + t BY <1>2 DEF Handles
<1>5. Handles(dbs \cup {n}, journals, writing) = Handles(dbs, journals, writing) + new
  <2> HIDE DEF c, ju, t, new
  <2>1. (c + new) + ju + t = (c + ju + t) + new BY <1>1
  <2> QED BY <1>3, <1>4, <2>1
<1> QED BY <1>5

(* A writer may take its journal and its temporary files.                  *)
LEMMA HandlesOfWriter ==
    ASSUME NEW dbs \in SUBSET Names, NEW journals \in SUBSET Names, NEW writing \in SUBSET Names,
           NEW n \in Names
    PROVE  Handles(dbs, journals \ {n}, writing \cup {n}) <= Handles(dbs, journals, writing) + 1 + TemporaryFiles
<1> DEFINE c == Cardinality(dbs)
           ju == Cardinality(journals \cup writing)
           w == Cardinality(writing)
           t == TemporaryFiles * w
           jw == Cardinality((journals \ {n}) \cup (writing \cup {n}))
           tw == TemporaryFiles * Cardinality(writing \cup {n})
<1>0. IsFiniteSet(writing) /\ IsFiniteSet(journals \cup writing) BY FS_Subset, PoolAssumption
<1>1. c \in Nat /\ ju \in Nat /\ w \in Nat /\ t \in Nat /\ TemporaryFiles \in Nat
  BY HandlesCount, PoolAssumption
<1>2. jw \in {ju, ju + 1}
  <2>1. (journals \ {n}) \cup (writing \cup {n}) = (journals \cup writing) \cup {n} OBVIOUS
  <2>2. Cardinality((journals \cup writing) \cup {n}) = ju + (IF n \in journals \cup writing THEN 0 ELSE 1)
    BY <1>0, OneMore
  <2>3. jw = ju + (IF n \in journals \cup writing THEN 0 ELSE 1) BY <2>1, <2>2
  <2> HIDE DEF ju, jw
  <2> QED BY <1>1, <2>3
<1>3. Cardinality(writing \cup {n}) \in {w, w + 1}
  <2>1. Cardinality(writing \cup {n}) = w + (IF n \in writing THEN 0 ELSE 1) BY <1>0, OneMore
  <2> HIDE DEF w
  <2> QED BY <1>1, <2>1
<1>4. tw <= t + TemporaryFiles /\ tw \in Nat
  <2>1. \A m, k, l \in Nat : l \in {k, k + 1} => m * l <= m * k + m /\ m * l \in Nat OBVIOUS
  <2>2. Cardinality(writing \cup {n}) \in Nat BY <1>1, <1>3
  <2> QED BY <1>1, <1>3, <2>1, <2>2
<1>5. Handles(dbs, journals, writing) = c + ju + t BY DEF Handles
<1>6. Handles(dbs, journals \ {n}, writing \cup {n}) = c + jw + tw BY DEF Handles
<1> HIDE DEF c, ju, w, t, jw, tw
<1>7. c + jw + tw <= (c + ju + t) + 1 + TemporaryFiles BY <1>1, <1>2, <1>4
<1> QED BY <1>5, <1>6, <1>7

(* The files there are, with what the writers may still make, are what     *)
(* Demand counts; and so are they with what the code counts outstanding.   *)
LEMMA DemandIsRight ==
    ASSUME PoolTypeOK, TempsOwned
    PROVE  FileCount + SumFunction(MayMake) = Demand /\ FileCount + Outstanding = Demand /\ FileCount \in Nat /\ Outstanding \in Nat
<1> DEFINE d == Cardinality(disk.dbs)
           j == Cardinality(disk.journals)
           x == Cardinality(Writing \ disk.journals)
           u == Cardinality(disk.journals \cup Writing)
           t == TemporaryFiles * Cardinality(Writing)
           s == SumFunctionOnSet(disk.temps, Writing)
           m == SumFunctionOnSet(MayMake, Writing)
<1>1. disk.dbs \in SUBSET Names /\ disk.journals \in SUBSET Names /\ Writing \in SUBSET Names
  BY DEF PoolTypeOK, Writing
<1>2. d \in Nat /\ u \in Nat /\ t \in Nat BY <1>1, HandlesCount
<1>3. IsFiniteSet(Writing) /\ IsFiniteSet(disk.journals) /\ IsFiniteSet(Writing \ disk.journals)
  BY <1>1, FS_Subset, PoolAssumption
<1>4. j \in Nat /\ x \in Nat BY <1>3, FS_CardinalityType
<1>5. u = j + x
  <2>1. disk.journals \cap (Writing \ disk.journals) = {} /\ disk.journals \cup (Writing \ disk.journals) = disk.journals \cup Writing
    OBVIOUS
  <2>2. Cardinality(disk.journals \cup (Writing \ disk.journals)) = j + x - Cardinality(disk.journals \cap (Writing \ disk.journals))
    BY <1>3, FS_Union
  <2>3. Cardinality({}) = 0 BY FS_EmptySet
  <2>4. Cardinality(disk.journals \cap (Writing \ disk.journals)) = 0 BY <2>1, <2>3
  <2>5. u = j + x - Cardinality(disk.journals \cap (Writing \ disk.journals)) BY <2>1, <2>2
  <2> HIDE DEF u, j, x
  <2> QED BY <1>4, <2>4, <2>5
<1>6. \A n \in Names : disk.temps[n] \in Nat BY PoolAssumption DEF PoolTypeOK
<1>7. SumFunction(disk.temps) = s
  <2>1. DOMAIN disk.temps = Names BY DEF PoolTypeOK
  <2>2. \A n \in Names \ Writing : disk.temps[n] = 0 BY DEF TempsOwned
  <2> QED BY <1>1, <1>6, <2>1, <2>2, SumLeavesOut, PoolAssumption DEF SumFunction
<1>8. SumFunction(MayMake) = m
  <2>1. DOMAIN MayMake = Writing BY DEF MayMake
  <2> QED BY <2>1 DEF SumFunction
<1>9. m + s = x + t BY MadeAndStillMade
<1>10. s \in Nat
  <2>1. \A n \in Writing : disk.temps[n] \in Nat BY <1>1, <1>6
  <2> QED BY <1>3, <2>1, SumType
<1>11. m \in Nat
  <2>1. \A n \in Writing : MayMake[n] \in Nat BY <1>1, PoolAssumption DEF MayMake, PoolTypeOK
  <2> QED BY <1>3, <2>1, SumType
<1>12. s <= t
  <2> DEFINE Over == {S \in SUBSET Writing : ~(SumFunctionOnSet(disk.temps, S) <= TemporaryFiles * Cardinality(S))}
  <2>1. SUFFICES ASSUME Over # {} PROVE FALSE OBVIOUS
  <2>2. PICK S \in Over : \A R \in Over : R \subseteq S => R = S
    <3>1. Over \in SUBSET (SUBSET Writing) OBVIOUS
    <3> HIDE DEF Over
    <3> QED BY <1>3, <2>1, <3>1, SmallestSubset
  <2>3. IsFiniteSet(S) /\ \A n \in S : disk.temps[n] \in Nat /\ disk.temps[n] <= TemporaryFiles
    BY <1>3, FS_Subset, PoolAssumption DEF PoolTypeOK, Writing
  <2>4. S # {}
    <3>1. Cardinality({}) = 0 /\ SumFunctionOnSet(disk.temps, {}) = 0 BY FS_EmptySet, SumEmpty
    <3> QED BY <3>1, PoolAssumption
  <2>5. PICK n \in S : TRUE BY <2>4
  <2> DEFINE R == S \ {n}
             a == SumFunctionOnSet(disk.temps, R)
             k == Cardinality(R)
  <2>6. a <= TemporaryFiles * k
    <3>1. R \in SUBSET Writing /\ R \subseteq S /\ R # S BY <2>5
    <3> QED BY <2>2, <3>1
  <2>7. SumFunctionOnSet(disk.temps, S) = disk.temps[n] + a BY <2>3, <2>5, SumRemove
  <2>8. Cardinality(S) = k + 1 /\ k \in Nat BY <2>3, <2>5, OneLess
  <2>9. a \in Nat
    <3>1. IsFiniteSet(R) /\ \A y \in R : disk.temps[y] \in Nat BY <2>3, FS_Subset
    <3> QED BY <3>1, SumType
  <2>10. TemporaryFiles * Cardinality(S) = TemporaryFiles * k + TemporaryFiles /\ TemporaryFiles * k \in Nat /\ TemporaryFiles \in Nat
    BY <2>8, PoolAssumption
  <2>11. disk.temps[n] \in Nat /\ disk.temps[n] <= TemporaryFiles BY <2>3, <2>5
  <2>12. SumFunctionOnSet(disk.temps, S) <= TemporaryFiles * Cardinality(S)
    <3> HIDE DEF a, k
    <3> QED BY <2>6, <2>7, <2>9, <2>10, <2>11
  <2> QED BY <2>2, <2>12
<1>13. FileCount = d + j + s BY <1>7 DEF FileCount
<1>14. Demand = d + u + t BY DEF Demand, Handles
<1>15. Outstanding = x + (IF t > s THEN t - s ELSE 0) BY <1>7 DEF Outstanding
<1> HIDE DEF d, j, x, u, t, s, m
<1> QED BY <1>2, <1>4, <1>5, <1>8, <1>9, <1>10, <1>11, <1>12, <1>13, <1>14, <1>15

(* The turn: what is awaited is what its holder goes on to take.           *)
LEMMA AwaitedIsFirst ==
    ASSUME PoolTypeOK
    PROVE  SumFunction(Awaited) = IF TurnAt(1, "grown") THEN Takes(turn[1].name, turn[1].purpose) ELSE 0
<1>1. DOMAIN turn = 1 .. Len(turn) /\ Len(turn) \in Nat /\ IsFiniteSet(DOMAIN turn)
  BY FS_Interval DEF PoolTypeOK
<1>2. DOMAIN Awaited = DOMAIN turn BY DEF Awaited
<1>3. \A i \in DOMAIN turn : Awaited[i] = IF TurnAt(i, "grown") THEN Takes(turn[i].name, turn[i].purpose) ELSE 0
  BY DEF Awaited
<1>4. \A i \in DOMAIN turn : Awaited[i] \in Nat BY <1>3, PoolAssumption DEF Takes
<1>5. \A i \in DOMAIN turn \ {1} : Awaited[i] = 0 BY <1>3 DEF TurnAt, HasTurn
<1>6. CASE 1 \in DOMAIN turn
  <2>1. SumFunctionOnSet(Awaited, DOMAIN turn) = SumFunctionOnSet(Awaited, {1})
    BY <1>1, <1>4, <1>5, <1>6, SumLeavesOut
  <2>2. SumFunctionOnSet(Awaited, {1}) = Awaited[1] + SumFunctionOnSet(Awaited, {1} \ {1})
    <3>1. IsFiniteSet({1}) /\ 1 \in {1} /\ \A y \in {1} : Awaited[y] \in Nat BY <1>4, <1>6, FS_Singleton
    <3> QED BY <3>1, SumRemove
  <2>3. {1} \ {1} = {} /\ SumFunctionOnSet(Awaited, {}) = 0 BY SumEmpty
  <2> QED BY <1>2, <1>3, <1>4, <1>6, <2>1, <2>2, <2>3 DEF SumFunction
<1>7. CASE 1 \notin DOMAIN turn
  <2>1. DOMAIN turn = {} BY <1>1, <1>7
  <2> QED BY <1>2, <1>7, <2>1, SumEmpty DEF SumFunction, TurnAt
<1> QED BY <1>6, <1>7

(* The invariant says what is promised of the pool.                        *)
LEMMA HandlesSufficeHolds == ASSUME PoolInv PROVE HandlesSuffice
<1>1. PoolTypeOK /\ TempsOwned /\ HandlesInv BY DEF PoolInv
<1>2. FileCount + SumFunction(MayMake) = Demand BY <1>1, DemandIsRight
<1>3. SumFunction(Awaited) = IF TurnAt(1, "grown") THEN Takes(turn[1].name, turn[1].purpose) ELSE 0
  BY <1>1, AwaitedIsFirst
<1>4. Demand \in Nat /\ pool.capacity \in Nat
  BY <1>1, HandlesCount DEF Demand, PoolTypeOK, Writing
<1>5. pool.capacity >= Demand + SumFunction(Awaited) BY <1>1, <1>3, <1>4 DEF HandlesInv
<1> QED BY <1>2, <1>5 DEF HandlesSuffice

-----------------------------------------------------------------------------
(* Steps. *)

(* What is taken and may be taken is a number,                             *)
LEMMA DemandType == ASSUME PoolTypeOK PROVE Demand \in Nat
<1>1. disk.dbs \in SUBSET Names /\ disk.journals \in SUBSET Names /\ Writing \in SUBSET Names
  BY DEF PoolTypeOK, Writing
<1> QED BY <1>1, HandlesCount DEF Demand

(* and stays one.                                                          *)
LEMMA DemandTypeAfter == ASSUME PoolTypeOK' PROVE Demand' \in Nat
<1>1. disk'.dbs \in SUBSET Names /\ disk'.journals \in SUBSET Names /\ Writing' \in SUBSET Names
  BY DEF PoolTypeOK, Writing
<1> QED BY <1>1, HandlesCount DEF Demand

(* So is what an open or an import takes.                                  *)
LEMMA TakesType ==
    ASSUME NEW n, NEW purpose
    PROVE  Takes(n, purpose) \in Nat
BY PoolAssumption DEF Takes

(* A turn that has been asked for is of a database and for a purpose.      *)
LEMMA AskedFacts ==
    ASSUME PoolTypeOK, NEW i \in DOMAIN turn
    PROVE  /\ turn[i] \in AskedTurns /\ turn[i].name \in Names /\ turn[i].purpose \in Purposes
           /\ turn[i].step \in {"asked", "growing", "grown"}
           /\ turn[i].step = "growing" => turn[i].by \in Nat
<1>1. turn[i] \in AskedTurns BY DEF PoolTypeOK
<1> QED BY <1>1 DEF AskedTurns

(* A step beside the turns takes no more than it gives up.                 *)
LEMMA BesideTheTurn ==
    ASSUME PoolInv, PoolTypeOK', TempsOwned', turn' = turn, pool'.capacity = pool.capacity,
           disk'.dbs = disk.dbs, Demand' <= Demand,
           \A n \in Names : open[n] = "no" => open'[n] = "no"
    PROVE  PoolInv'
<1>1. Demand \in Nat /\ Demand' \in Nat /\ pool.capacity \in Nat
  BY DemandType, DemandTypeAfter DEF PoolInv, PoolTypeOK
<1>2. \A n, purpose : Takes(n, purpose)' = Takes(n, purpose) /\ Takes(n, purpose) \in Nat
  BY TakesType DEF Takes
<1>3. FirstAlone'
  <2>1. \A i \in DOMAIN turn : turn[i].name \in Names BY AskedFacts DEF PoolInv
  <2> QED BY <2>1 DEF PoolInv, FirstAlone
<1>4. TurnAt(1, "growing") => turn[1].by \in Nat BY AskedFacts DEF TurnAt, PoolInv
<1>5. HandlesInv'
  <2>1. /\ TurnAt(1, "growing")' <=> TurnAt(1, "growing")
        /\ TurnAt(1, "grown")' <=> TurnAt(1, "grown")
    BY DEF TurnAt
  <2>2. HandlesInv BY DEF PoolInv
  <2> DEFINE n == turn[1].name
             purpose == turn[1].purpose
             d == Takes(n, purpose)
  <2>3. Takes(turn[1].name, turn[1].purpose)' = d /\ d \in Nat BY <1>2
  <2> HIDE DEF d
  <2>4. Takes(turn[1].name, turn[1].purpose) = d BY DEF d
  <2> QED BY <1>1, <1>4, <2>1, <2>2, <2>3, <2>4 DEF HandlesInv
<1> QED BY <1>3, <1>5 DEF PoolInv

(* A journal is made, and done with: its handle was counted before and     *)
(* after.                                                                  *)
LEMMA JournalKeeps ==
    ASSUME PoolInv, NEW n \in Names, JournalMade(n) \/ JournalDone(n)
    PROVE  PoolInv'
<1>1. UNCHANGED <<pool, open, turn>> /\ n \in Writing BY DEF JournalMade, JournalDone
<1>2. /\ disk' \in [dbs : SUBSET Names, journals : SUBSET Names, temps : [Names -> 0 .. TemporaryFiles]]
      /\ disk'.dbs = disk.dbs /\ disk'.temps = disk.temps
      /\ disk'.journals \cup Writing = disk.journals \cup Writing
  BY <1>1 DEF JournalMade, JournalDone, PoolInv, PoolTypeOK
<1>3. Writing' = Writing BY <1>1 DEF Writing
<1>4. PoolTypeOK' BY <1>1, <1>2 DEF PoolInv, PoolTypeOK
<1>5. TempsOwned' BY <1>2, <1>3 DEF PoolInv, TempsOwned
<1>6. Demand' = Demand BY <1>2, <1>3 DEF Demand, Handles
<1>7. Demand \in Nat BY DemandType DEF PoolInv
<1> QED BY <1>1, <1>2, <1>4, <1>5, <1>6, <1>7, BesideTheTurn

(* So was that of a temporary file.                                        *)
LEMMA TempKeeps ==
    ASSUME PoolInv, NEW n \in Names, TempMade(n) \/ TempDone(n)
    PROVE  PoolInv'
<1>1. UNCHANGED <<pool, open, turn>> /\ n \in Writing BY DEF TempMade, TempDone
<1>2. /\ disk' \in [dbs : SUBSET Names, journals : SUBSET Names, temps : [Names -> 0 .. TemporaryFiles]]
      /\ disk'.dbs = disk.dbs /\ disk'.journals = disk.journals
      /\ \A m \in Names \ {n} : disk'.temps[m] = disk.temps[m]
  <2>1. PICK k \in 0 .. TemporaryFiles : disk' = [disk EXCEPT !.temps[n] = k]
    <3>1. disk.temps[n] \in 0 .. TemporaryFiles BY DEF PoolInv, PoolTypeOK
    <3>2. CASE TempMade(n)
      <4>1. disk' = [disk EXCEPT !.temps[n] = disk.temps[n] + 1] BY <3>2 DEF TempMade, PoolInv, PoolTypeOK
      <4>2. disk.temps[n] + 1 \in 0 .. TemporaryFiles BY <3>1, <3>2, PoolAssumption DEF TempMade
      <4> QED BY <4>1, <4>2
    <3>3. CASE TempDone(n)
      <4>1. disk' = [disk EXCEPT !.temps[n] = disk.temps[n] - 1] BY <3>3 DEF TempDone, PoolInv, PoolTypeOK
      <4>2. disk.temps[n] - 1 \in 0 .. TemporaryFiles BY <3>1, <3>3, PoolAssumption DEF TempDone
      <4> QED BY <4>1, <4>2
    <3> QED BY <3>2, <3>3
  <2> QED BY <2>1 DEF PoolInv, PoolTypeOK
<1>3. Writing' = Writing BY <1>1 DEF Writing
<1>4. PoolTypeOK' BY <1>1, <1>2 DEF PoolInv, PoolTypeOK
<1>5. TempsOwned' BY <1>1, <1>2, <1>3 DEF PoolInv, TempsOwned
<1>6. Demand' = Demand BY <1>2, <1>3 DEF Demand, Handles
<1>7. Demand \in Nat BY DemandType DEF PoolInv
<1> QED BY <1>1, <1>2, <1>4, <1>5, <1>6, <1>7, BesideTheTurn

(* A connection that closes gives up what it might have taken.             *)
LEMMA CloseConnectionKeeps ==
    ASSUME PoolInv, NEW n \in Names, CloseConnection(n)
    PROVE  PoolInv'
<1>1. UNCHANGED <<pool, turn>> /\ open' = [open EXCEPT ![n] = "no"] BY DEF CloseConnection
<1>2. /\ disk' \in [dbs : SUBSET Names, journals : SUBSET Names, temps : [Names -> 0 .. TemporaryFiles]]
      /\ disk'.dbs = disk.dbs /\ disk'.journals = disk.journals \ (Writing \cap {n})
      /\ disk'.temps = [disk.temps EXCEPT ![n] = 0]
  <2>1. 0 \in 0 .. TemporaryFiles BY PoolAssumption
  <2>2. disk' = [disk EXCEPT !.temps[n] = 0, !.journals = disk.journals \ (Writing \cap {n})]
    BY DEF CloseConnection, PoolInv, PoolTypeOK
  <2> QED BY <2>1, <2>2 DEF PoolInv, PoolTypeOK
<1>3. Writing' = Writing \ {n} /\ Writing \in SUBSET Names BY <1>1 DEF Writing, PoolInv, PoolTypeOK
<1>4. PoolTypeOK' BY <1>1, <1>2 DEF PoolInv, PoolTypeOK
<1>5. TempsOwned' BY <1>2, <1>3 DEF PoolInv, TempsOwned, PoolTypeOK
<1>6. Demand' <= Demand
  <2>1. disk.dbs \in SUBSET Names /\ disk.journals \in SUBSET Names /\ disk'.journals \in SUBSET Names
    BY <1>2 DEF PoolInv, PoolTypeOK
  <2>2. disk'.dbs \in SUBSET disk.dbs /\ Writing' \in SUBSET Writing
        /\ disk'.journals \cup Writing' \subseteq disk.journals \cup Writing
    BY <1>2, <1>3
  <2> QED BY <1>3, <2>1, <2>2, HandlesFewer DEF Demand
<1>7. \A m \in Names : open[m] = "no" => open'[m] = "no" BY <1>1 DEF PoolInv, PoolTypeOK
<1> QED BY <1>1, <1>2, <1>4, <1>5, <1>6, <1>7, BesideTheTurn

(* A file removed under an open that has looked costs it a handle more     *)
(* than it took it for, the one the file gave up.                          *)
LEMMA RemoveFileKeeps ==
    ASSUME PoolInv, NEW n \in Names, RemoveFile(n)
    PROVE  PoolInv'
<1>1. UNCHANGED <<pool, open, turn>> /\ n \in disk.dbs BY DEF RemoveFile
<1>2. /\ disk' \in [dbs : SUBSET Names, journals : SUBSET Names, temps : [Names -> 0 .. TemporaryFiles]]
      /\ disk'.dbs = disk.dbs \ {n} /\ disk'.temps = disk.temps /\ disk'.journals = disk.journals
  BY DEF RemoveFile, PoolInv, PoolTypeOK
<1>3. Writing' = Writing /\ Writing \in SUBSET Names BY <1>1 DEF Writing
<1>4. PoolTypeOK' BY <1>1, <1>2 DEF PoolInv, PoolTypeOK
<1>5. TempsOwned' BY <1>2, <1>3 DEF PoolInv, TempsOwned
<1>6. Demand' + 1 = Demand
  <2>1. disk.dbs \in SUBSET Names /\ disk.journals \in SUBSET Names BY DEF PoolInv, PoolTypeOK
  <2>2. Handles(disk.dbs \ {n}, disk.journals, Writing) + 1 = Handles(disk.dbs, disk.journals, Writing)
    BY <1>1, <1>3, <2>1, HandlesWithout
  <2> QED BY <1>2, <1>3, <2>2 DEF Demand
<1>7. \A m, purpose : /\ Takes(m, purpose) \in Nat /\ Takes(m, purpose)' \in Nat
                      /\ Takes(m, purpose)' <= Takes(m, purpose) + 1
  BY <1>2, PoolAssumption DEF Takes
<1>8. FirstAlone' BY <1>1 DEF PoolInv, FirstAlone
<1>9. HandlesInv'
  <2>1. /\ TurnAt(1, "growing")' <=> TurnAt(1, "growing")
        /\ TurnAt(1, "grown")' <=> TurnAt(1, "grown")
    BY <1>1 DEF TurnAt
  <2>2. HandlesInv BY DEF PoolInv
  <2>3. TurnAt(1, "growing") => turn[1].by \in Nat BY AskedFacts DEF TurnAt, PoolInv
  <2> DEFINE d == Takes(turn[1].name, turn[1].purpose)
             e == Takes(turn[1].name, turn[1].purpose)'
  <2>4. d \in Nat /\ e \in Nat /\ e <= d + 1
    <3>1. Takes(turn[1].name, turn[1].purpose)' \in Nat
          /\ Takes(turn[1].name, turn[1].purpose)' <= Takes(turn[1].name, turn[1].purpose) + 1
      BY <1>1, <1>2, PoolAssumption DEF Takes
    <3> QED BY <1>7, <3>1
  <2>5. Demand \in Nat /\ Demand' \in Nat /\ pool.capacity \in Nat
    BY <1>4, DemandType, DemandTypeAfter DEF PoolInv, PoolTypeOK
  <2>6. /\ pool.capacity >= Demand
        /\ TurnAt(1, "growing") => pool.capacity + turn[1].by >= Demand + d
        /\ TurnAt(1, "grown") => pool.capacity >= Demand + d
    BY <2>2 DEF HandlesInv
  <2>7. HandlesInv' <=> /\ pool.capacity >= Demand'
                        /\ TurnAt(1, "growing") => pool.capacity + turn[1].by >= Demand' + e
                        /\ TurnAt(1, "grown") => pool.capacity >= Demand' + e
    BY <1>1, <2>1 DEF HandlesInv
  <2> HIDE DEF d, e
  <2>8. Demand = Demand' + 1 BY <1>6
  <2>9. pool.capacity >= Demand' BY <2>5, <2>6, <2>8
  <2>10. TurnAt(1, "growing") => pool.capacity + turn[1].by >= Demand' + e
    BY <2>3, <2>4, <2>5, <2>6, <2>8
  <2>11. TurnAt(1, "grown") => pool.capacity >= Demand' + e BY <2>4, <2>5, <2>6, <2>8
  <2> QED BY <2>7, <2>9, <2>10, <2>11
<1> QED BY <1>4, <1>5, <1>8, <1>9 DEF PoolInv

(* Turns asked for at the end, and one that ends.                          *)
LEMMA AppendedFacts ==
    ASSUME PoolTypeOK, NEW x \in AskedTurns, turn' = Append(turn, x)
    PROVE  /\ turn' \in Seq(AskedTurns) /\ DOMAIN turn \subseteq DOMAIN turn'
           /\ \A i \in DOMAIN turn : turn'[i] = turn[i]
           /\ \A i \in DOMAIN turn' \ DOMAIN turn : turn'[i] = x
BY DEF PoolTypeOK

(* An open or an import is asked for.                                      *)
LEMMA AskKeeps ==
    ASSUME PoolInv, NEW n \in Names, NEW purpose \in Purposes, Ask(n, purpose)
    PROVE  PoolInv'
<1> DEFINE x == [name |-> n, purpose |-> purpose, step |-> "asked"]
<1>1. x \in AskedTurns /\ x.step = "asked" BY DEF AskedTurns
<1>2. turn' = Append(turn, x) /\ UNCHANGED <<pool, disk, open>> BY DEF Ask
<1> HIDE DEF x
<1>3. /\ turn' \in Seq(AskedTurns) /\ DOMAIN turn \subseteq DOMAIN turn'
      /\ \A i \in DOMAIN turn : turn'[i] = turn[i]
      /\ \A i \in DOMAIN turn' \ DOMAIN turn : turn'[i] = x
  BY <1>1, <1>2, AppendedFacts DEF PoolInv
<1>4. PoolTypeOK' BY <1>2, <1>3 DEF PoolInv, PoolTypeOK
<1>5. TempsOwned' BY <1>2 DEF PoolInv, TempsOwned, Writing
<1>6. FirstAlone' BY <1>1, <1>2, <1>3 DEF PoolInv, FirstAlone
<1>7. Demand' = Demand /\ \A m, p : Takes(m, p)' = Takes(m, p)
  BY <1>2 DEF Demand, Handles, Writing, Takes
<1>8. \A step \in {"growing", "grown"} : TurnAt(1, step)' => TurnAt(1, step) /\ turn'[1] = turn[1]
  BY <1>1, <1>3 DEF TurnAt
<1>9. HandlesInv'
  <2>1. HandlesInv BY DEF PoolInv
  <2>2. TurnAt(1, "growing")' \/ TurnAt(1, "grown")'
          => Takes(turn[1].name, turn[1].purpose)' = Takes(turn[1].name, turn[1].purpose)
    BY <1>2, <1>8 DEF Takes
  <2> QED BY <1>2, <1>7, <1>8, <2>1, <2>2 DEF HandlesInv
<1> QED BY <1>4, <1>5, <1>6, <1>9 DEF PoolInv

(* The turns after one that ended.                                         *)
LEMMA LeavesFacts ==
    ASSUME PoolInv, 1 \in DOMAIN turn, Leaves(1)
    PROVE  turn' \in Seq(AskedTurns) /\ \A i \in DOMAIN turn' : turn'[i].step = "asked"
<1>1. turn \in Seq(AskedTurns) BY DEF PoolInv, PoolTypeOK
<1>2. Len(turn) \in Nat /\ DOMAIN turn = 1 .. Len(turn) /\ Len(turn) - 1 \in Nat BY <1>1
<1>3. turn' = [j \in 1 .. Len(turn) - 1 |-> IF j < 1 THEN turn[j] ELSE turn[j + 1]] BY DEF Leaves
<1>4. \A j \in 1 .. Len(turn) - 1 : j + 1 \in DOMAIN turn /\ j + 1 # 1 /\ ~(j < 1) BY <1>2
<1>5. \A j \in 1 .. Len(turn) - 1 : turn'[j] = turn[j + 1] /\ turn[j + 1] \in AskedTurns BY <1>1, <1>3, <1>4
<1>6. turn' = [j \in 1 .. Len(turn) - 1 |-> turn[j + 1]] BY <1>3, <1>4
<1>7. turn' \in [1 .. Len(turn) - 1 -> AskedTurns] BY <1>5, <1>6
<1>8. turn' \in Seq(AskedTurns) BY <1>2, <1>7
<1>9. DOMAIN turn' = 1 .. Len(turn) - 1 BY <1>7
<1>10. \A j \in 1 .. Len(turn) - 1 : turn[j + 1].step = "asked" BY <1>4 DEF PoolInv, FirstAlone
<1> QED BY <1>5, <1>8, <1>9, <1>10

(* Once a turn ended the next has not begun.                               *)
LEMMA TurnEnded ==
    ASSUME PoolInv, 1 \in DOMAIN turn, Leaves(1),
           pool' \in [held : BOOLEAN, capacity : Nat], PoolTypeOK', TempsOwned', pool'.capacity >= Demand'
    PROVE  PoolInv'
<1>1. turn' \in Seq(AskedTurns) /\ \A i \in DOMAIN turn' : turn'[i].step = "asked" BY LeavesFacts
<1>2. FirstAlone' BY <1>1 DEF FirstAlone
<1>3. ~TurnAt(1, "growing")' /\ ~TurnAt(1, "grown")' BY <1>1 DEF TurnAt
<1> QED BY <1>2, <1>3 DEF PoolInv, HandlesInv

(* A turn that goes on leaves the others.                                  *)
LEMMA ReplacedFacts ==
    ASSUME PoolTypeOK, 1 \in DOMAIN turn, NEW x \in AskedTurns, turn' = [turn EXCEPT ![1] = x]
    PROVE  /\ turn' \in Seq(AskedTurns) /\ DOMAIN turn' = DOMAIN turn /\ turn'[1] = x
           /\ \A i \in DOMAIN turn : i # 1 => turn'[i] = turn[i]
BY DEF PoolTypeOK

(* It finds what is spare: what others may take is not.                    *)
LEMMA LookKeeps ==
    ASSUME PoolInv, NEW i \in DOMAIN turn, Look(i)
    PROVE  PoolInv'
<1>0. i = 1 /\ 1 \in DOMAIN turn /\ UNCHANGED <<pool, disk, open>> /\ PoolTypeOK /\ TempsOwned
  BY DEF Look, TurnAt, HasTurn, PoolInv
<1> DEFINE n == turn[1].name
           purpose == turn[1].purpose
           short == Takes(n, purpose) - Spare
           by == IF short > 0 THEN short ELSE 0
           x == [name |-> n, purpose |-> purpose, step |-> "growing", by |-> by]
<1>1. n \in Names /\ purpose \in Purposes BY <1>0, AskedFacts
<1>2. Demand \in Nat /\ Demand' = Demand /\ TempsOwned' /\ pool.capacity \in Nat /\ pool'.capacity >= Demand'
  BY <1>0, DemandType DEF Demand, Handles, TempsOwned, Writing, PoolTypeOK, PoolInv, HandlesInv
<1>3. CASE Allowed(n, purpose)
  <2>1. turn' = [turn EXCEPT ![1] = x] BY <1>0, <1>3 DEF Look
  <2>2. Spare = pool.capacity - Demand
    <3>1. FileCount + Outstanding = Demand /\ FileCount \in Nat /\ Outstanding \in Nat BY <1>0, DemandIsRight
    <3> QED BY <1>2, <3>1 DEF Spare
  <2>3. Takes(n, purpose) \in Nat BY TakesType
  <2>4. by \in Nat /\ pool.capacity + by >= Demand + Takes(n, purpose)
    <3> DEFINE d == Takes(n, purpose)
               s == Spare
    <3>1. d \in Nat /\ s = pool.capacity - Demand BY <2>2, <2>3
    <3>2. by = IF d - s > 0 THEN d - s ELSE 0 OBVIOUS
    <3> HIDE DEF by
    <3>3. Takes(n, purpose) = d OBVIOUS
    <3> HIDE DEF d, s
    <3> QED BY <1>2, <3>1, <3>2, <3>3
  <2> HIDE DEF by
  <2>5. x \in AskedTurns /\ x.step = "growing" /\ x.by = by /\ x.name = n /\ x.purpose = purpose BY <1>1, <2>4 DEF AskedTurns
  <2> HIDE DEF x
  <2>6. /\ turn' \in Seq(AskedTurns) /\ DOMAIN turn' = DOMAIN turn /\ turn'[1] = x
        /\ \A j \in DOMAIN turn : j # 1 => turn'[j] = turn[j]
    BY <1>0, <2>1, <2>5, ReplacedFacts
  <2>7. PoolTypeOK' BY <1>0, <2>6 DEF PoolTypeOK
  <2>8. FirstAlone' BY <1>0, <1>3, <2>5, <2>6 DEF PoolInv, FirstAlone, Allowed
  <2>9. HandlesInv'
    <3>1. Takes(turn[1].name, turn[1].purpose)' = Takes(n, purpose)
      BY <1>0, <2>5, <2>6 DEF Takes
    <3>2. ~TurnAt(1, "grown")' /\ turn'[1].by = by BY <2>5, <2>6 DEF TurnAt
    <3> HIDE DEF n, purpose
    <3> QED BY <1>0, <1>2, <2>4, <3>1, <3>2 DEF HandlesInv
  <2> QED BY <1>2, <2>7, <2>8, <2>9 DEF PoolInv
<1>4. CASE ~Allowed(n, purpose)
  <2>1. Leaves(1) BY <1>0, <1>4 DEF Look
  <2>2. PoolTypeOK' BY <1>0, <2>1, LeavesFacts DEF PoolTypeOK
  <2> QED BY <1>0, <1>2, <2>1, <2>2, TurnEnded DEF PoolTypeOK
<1> QED BY <1>3, <1>4

(* The pool has grown by what lacked, whatever connections did meanwhile.  *)
LEMMA GrowKeeps ==
    ASSUME PoolInv, NEW i \in DOMAIN turn, Grow(i)
    PROVE  PoolInv'
<1>0. i = 1 /\ 1 \in DOMAIN turn /\ UNCHANGED <<disk, open>> /\ PoolTypeOK /\ TempsOwned /\ TurnAt(1, "growing")
  BY DEF Grow, TurnAt, HasTurn, PoolInv
<1> DEFINE n == turn[1].name
           purpose == turn[1].purpose
           by == turn[1].by
           x == [name |-> n, purpose |-> purpose, step |-> "grown"]
<1>1. n \in Names /\ purpose \in Purposes /\ by \in Nat /\ open[n] = "no"
  BY <1>0, AskedFacts DEF TurnAt, PoolInv, FirstAlone
<1>2. Demand \in Nat /\ Demand' = Demand /\ TempsOwned' /\ pool.capacity \in Nat
  BY <1>0, DemandType DEF Demand, Handles, TempsOwned, Writing, PoolTypeOK
<1>3. turn' = [turn EXCEPT ![1] = x] /\ pool' = [pool EXCEPT !.capacity = pool.capacity + by]
  BY <1>0 DEF Grow
<1>4. pool' \in [held : BOOLEAN, capacity : Nat] /\ pool'.capacity = pool.capacity + by
  <2>1. pool.capacity + by \in Nat BY <1>1, <1>2
  <2> HIDE DEF by
  <2> QED BY <1>0, <1>3, <2>1 DEF PoolTypeOK
<1>5. x \in AskedTurns /\ x.step = "grown" /\ x.name = n /\ x.purpose = purpose BY <1>1 DEF AskedTurns
<1> HIDE DEF x
<1>6. /\ turn' \in Seq(AskedTurns) /\ DOMAIN turn' = DOMAIN turn /\ turn'[1] = x
      /\ \A j \in DOMAIN turn : j # 1 => turn'[j] = turn[j]
  BY <1>0, <1>3, <1>5, ReplacedFacts
<1>7. PoolTypeOK' BY <1>0, <1>4, <1>6 DEF PoolTypeOK
<1>8. FirstAlone' BY <1>0, <1>1, <1>5, <1>6 DEF PoolInv, FirstAlone
<1>9. HandlesInv'
  <2>1. Takes(turn[1].name, turn[1].purpose)' = Takes(n, purpose) BY <1>0, <1>5, <1>6 DEF Takes
  <2>2. pool.capacity + by >= Demand + Takes(n, purpose) /\ pool.capacity >= Demand BY <1>0 DEF PoolInv, HandlesInv
  <2>3. ~TurnAt(1, "growing")' BY <1>5, <1>6 DEF TurnAt
  <2>4. Takes(n, purpose) \in Nat BY TakesType
  <2> HIDE DEF n, purpose, by
  <2>5. pool'.capacity >= Demand BY <1>1, <1>2, <1>4, <2>2
  <2> QED BY <1>1, <1>2, <1>4, <2>1, <2>2, <2>3, <2>4, <2>5 DEF HandlesInv
<1> QED BY <1>2, <1>7, <1>8, <1>9 DEF PoolInv

(* The file and the connection take what the pool has grown by.            *)
LEMMA TakeKeeps ==
    ASSUME PoolInv, NEW i \in DOMAIN turn, Take(i)
    PROVE  PoolInv'
<1>0. i = 1 /\ 1 \in DOMAIN turn /\ pool' = pool /\ PoolTypeOK /\ TempsOwned /\ TurnAt(1, "grown") /\ Leaves(1)
  BY DEF Take, TurnAt, HasTurn, PoolInv
<1> DEFINE n == turn[1].name
           purpose == turn[1].purpose
           d == Takes(n, purpose)
           opens == purpose \in {"create", "readwrite", "readonly"}
           J == IF opens THEN disk.journals \ {n} ELSE disk.journals
<1>1. n \in Names /\ purpose \in Purposes /\ open[n] = "no"
  BY <1>0, AskedFacts DEF TurnAt, PoolInv, FirstAlone
<1>2. Demand \in Nat /\ pool.capacity \in Nat /\ d \in Nat /\ pool.capacity >= Demand + d
  BY <1>0, DemandType, TakesType DEF PoolTypeOK, PoolInv, HandlesInv
<1>3. turn' \in Seq(AskedTurns) BY <1>0, LeavesFacts
<1>4. CASE UNCHANGED <<disk, open>>
  <2>1. PoolTypeOK' BY <1>0, <1>3, <1>4 DEF PoolTypeOK
  <2>2. TempsOwned' BY <1>0, <1>4 DEF TempsOwned, Writing
  <2>3. Demand' = Demand BY <1>4 DEF Demand, Handles, Writing
  <2> HIDE DEF d
  <2>4. pool'.capacity >= Demand' BY <1>0, <1>2, <2>3
  <2> QED BY <1>0, <2>1, <2>2, <2>4, TurnEnded DEF PoolTypeOK
<1>5. CASE ~UNCHANGED <<disk, open>>
  <2>1. /\ disk' = [disk EXCEPT !.dbs = disk.dbs \cup {n}, !.journals = J]
        /\ open' = IF opens THEN [open EXCEPT ![n] = IF purpose = "readonly" THEN "read" ELSE "write"] ELSE open
    BY <1>0, <1>5 DEF Take
  <2>2. /\ disk.dbs \in SUBSET Names /\ disk.journals \in SUBSET Names /\ J \in SUBSET Names
        /\ Writing \in SUBSET Names /\ J \subseteq disk.journals
    BY <1>0 DEF PoolTypeOK, Writing
  <2>3. /\ disk' \in [dbs : SUBSET Names, journals : SUBSET Names, temps : [Names -> 0 .. TemporaryFiles]]
        /\ disk'.dbs = disk.dbs \cup {n} /\ disk'.journals = J /\ disk'.temps = disk.temps
    <3> HIDE DEF J
    <3> QED BY <1>0, <1>1, <2>1, <2>2 DEF PoolTypeOK
  <2>4. /\ open' \in [Names -> {"no", "read", "write"}]
        /\ Writing' = IF purpose \in {"create", "readwrite"} THEN Writing \cup {n} ELSE Writing
    BY <1>0, <1>1, <2>1 DEF PoolTypeOK, Writing, Purposes
  <2>5. PoolTypeOK' BY <1>0, <1>3, <2>3, <2>4 DEF PoolTypeOK
  <2>6. TempsOwned' BY <1>0, <2>3, <2>4 DEF TempsOwned
  <2>7. Demand' <= Demand + d
    <3> DEFINE new == IF n \in disk.dbs THEN 0 ELSE 1
               h == Handles(disk.dbs \cup {n}, disk.journals, Writing)
    <3>1. h = Demand + new BY <1>1, <2>2, HandlesWith DEF Demand
    <3>2. CASE purpose \in {"create", "readwrite"}
      <4>1. d = new + (1 + TemporaryFiles) BY <3>2 DEF Takes
      <4>2. Demand' = Handles(disk.dbs \cup {n}, disk.journals \ {n}, Writing \cup {n}) BY <2>3, <2>4, <3>2 DEF Demand
      <4>3. disk.dbs \cup {n} \in SUBSET Names BY <1>1, <2>2
      <4>4. Demand' <= h + 1 + TemporaryFiles BY <1>1, <2>2, <4>2, <4>3, HandlesOfWriter
      <4>5. Demand' \in Nat /\ new \in Nat /\ TemporaryFiles \in Nat BY <2>5, DemandTypeAfter, PoolAssumption
      <4> HIDE DEF h, new, d
      <4> QED BY <1>2, <3>1, <4>1, <4>4, <4>5
    <3>3. CASE purpose \notin {"create", "readwrite"}
      <4>1. d = new BY <3>3 DEF Takes
      <4>2. Demand' = Handles(disk.dbs \cup {n}, J, Writing) BY <2>3, <2>4, <3>3 DEF Demand
      <4>3. disk.dbs \cup {n} \in SUBSET Names BY <1>1, <2>2
      <4>4. Demand' <= h
        <5>1. J \cup Writing \subseteq disk.journals \cup Writing BY <2>2
        <5> HIDE DEF J
        <5> QED BY <2>2, <4>2, <4>3, <5>1, HandlesFewer
      <4>5. Demand' \in Nat /\ new \in Nat BY <2>5, DemandTypeAfter
      <4> HIDE DEF h, new, d
      <4> QED BY <1>2, <3>1, <4>1, <4>4, <4>5
    <3> QED BY <3>2, <3>3
  <2>8. pool'.capacity >= Demand'
    <3>1. Demand' \in Nat BY <2>5, DemandTypeAfter
    <3> HIDE DEF d
    <3> QED BY <1>0, <1>2, <2>7, <3>1
  <2> QED BY <1>0, <2>5, <2>6, <2>8, TurnEnded DEF PoolTypeOK
<1> QED BY <1>4, <1>5

(* The worker closes, dies or is there again: only files go.               *)
LEMMA WorkerKeeps == ASSUME PoolInv, ClosePool \/ Install \/ Die PROVE PoolInv'
<1>1. CASE ClosePool \/ Install
  <2>1. UNCHANGED <<disk, open, turn>> /\ pool' \in [held : BOOLEAN, capacity : Nat] /\ pool'.capacity = pool.capacity
    BY <1>1 DEF ClosePool, Install, PoolInv, PoolTypeOK
  <2>2. PoolTypeOK' BY <2>1 DEF PoolInv, PoolTypeOK
  <2>3. TempsOwned' /\ Demand' = Demand BY <2>1 DEF PoolInv, TempsOwned, Demand, Handles, Writing
  <2>4. Demand \in Nat BY DemandType DEF PoolInv
  <2> QED BY <2>1, <2>2, <2>3, <2>4, BesideTheTurn
<1>2. CASE Die
  <2>1. /\ pool' \in [held : BOOLEAN, capacity : Nat] /\ pool'.capacity = pool.capacity
        /\ open' = [n \in Names |-> "no"] /\ turn' = <<>>
    BY <1>2 DEF Die, PoolInv, PoolTypeOK
  <2>2. /\ disk' \in [dbs : SUBSET Names, journals : SUBSET Names, temps : [Names -> 0 .. TemporaryFiles]]
        /\ disk'.dbs = disk.dbs /\ disk'.journals = disk.journals /\ disk'.temps = [n \in Names |-> 0]
    <3>1. 0 \in 0 .. TemporaryFiles BY PoolAssumption
    <3>2. disk' = [disk EXCEPT !.temps = [n \in Names |-> 0]] BY <1>2 DEF Die
    <3> QED BY <3>1, <3>2 DEF PoolInv, PoolTypeOK
  <2>3. PoolTypeOK' BY <2>1, <2>2 DEF PoolTypeOK
  <2>4. TempsOwned' BY <2>2 DEF TempsOwned
  <2>5. FirstAlone' /\ ~TurnAt(1, "growing")' /\ ~TurnAt(1, "grown")' BY <2>1 DEF FirstAlone, TurnAt
  <2>6. Writing' = {} BY <2>1 DEF Writing
  <2>7. Demand' <= Demand
    <3>1. disk.dbs \in SUBSET Names /\ disk.journals \in SUBSET Names /\ Writing \in SUBSET Names
      BY DEF PoolInv, PoolTypeOK, Writing
    <3>2. disk'.dbs \in SUBSET disk.dbs /\ Writing' \in SUBSET Writing /\ disk'.journals \in SUBSET Names
          /\ disk'.journals \cup Writing' \subseteq disk.journals \cup Writing
      BY <2>2, <2>6, <3>1
    <3> QED BY <3>1, <3>2, HandlesFewer DEF Demand
  <2>8. pool'.capacity >= Demand'
    <3>1. Demand \in Nat /\ Demand' \in Nat /\ pool.capacity \in Nat /\ pool.capacity >= Demand
      BY <2>3, DemandType, DemandTypeAfter DEF PoolInv, PoolTypeOK, HandlesInv
    <3> QED BY <2>1, <2>7, <3>1
  <2> QED BY <2>3, <2>4, <2>5, <2>8 DEF PoolInv, HandlesInv
<1> QED BY <1>1, <1>2

-----------------------------------------------------------------------------
(* At first there is nothing.                                              *)
LEMMA PoolBegins == ASSUME PoolInit PROVE PoolInv
<1>1. PoolTypeOK BY PoolAssumption DEF PoolInit, PoolTypeOK
<1>2. TempsOwned BY DEF PoolInit, TempsOwned
<1>3. FirstAlone /\ ~TurnAt(1, "growing") /\ ~TurnAt(1, "grown") BY DEF PoolInit, FirstAlone, TurnAt
<1>4. Writing = {} /\ disk.dbs = {} /\ disk.journals = {} BY DEF PoolInit, Writing
<1>5. Demand = 0
  <2>1. Cardinality({}) = 0 BY FS_EmptySet
  <2>2. {} \cup {} = {} OBVIOUS
  <2>3. TemporaryFiles * 0 = 0 BY PoolAssumption
  <2> QED BY <1>4, <2>1, <2>2, <2>3 DEF Demand, Handles
<1> QED BY <1>1, <1>2, <1>3, <1>5 DEF PoolInv, HandlesInv, PoolInit

(* Every step keeps the invariant.                                         *)
LEMMA PoolSteps == ASSUME PoolInv, [PoolNext]_poolvars PROVE PoolInv'
<1>1. ASSUME NEW n \in Names, NEW purpose \in Purposes, Ask(n, purpose) PROVE PoolInv'
  BY <1>1, AskKeeps
<1>2. ASSUME NEW n \in Names, JournalMade(n) \/ JournalDone(n) \/ TempMade(n) \/ TempDone(n) \/ CloseConnection(n) \/ RemoveFile(n)
      PROVE  PoolInv'
  BY <1>2, JournalKeeps, TempKeeps, CloseConnectionKeeps, RemoveFileKeeps
<1>3. ASSUME NEW i \in DOMAIN turn, Look(i) \/ Grow(i) \/ Take(i) PROVE PoolInv'
  BY <1>3, LookKeeps, GrowKeeps, TakeKeeps
<1>4. CASE UNCHANGED poolvars
  <2>1. UNCHANGED <<pool, disk, open, turn>> BY <1>4 DEF poolvars
  <2>2. PoolTypeOK' BY <2>1 DEF PoolInv, PoolTypeOK
  <2>3. TempsOwned' /\ Demand' = Demand BY <2>1 DEF PoolInv, TempsOwned, Demand, Handles, Writing
  <2>4. Demand \in Nat BY DemandType DEF PoolInv
  <2> QED BY <2>1, <2>2, <2>3, <2>4, BesideTheTurn
<1> QED BY <1>1, <1>2, <1>3, <1>4, WorkerKeeps DEF PoolNext

(* In every behaviour of the pool the invariant holds: there are handles   *)
(* for all files, for all a writing connection may ever make, and for what *)
(* the open that has its turn takes (browser/sqlite.ts reserve,            *)
(* outstanding, inTurn).                                                   *)
THEOREM PoolInvariant == PoolSpec => []PoolInv
<1>1. PoolInit => PoolInv BY PoolBegins
<1>2. PoolInv /\ [PoolNext]_poolvars => PoolInv' BY PoolSteps
<1> QED BY <1>1, <1>2, PTL DEF PoolSpec

(* For any finite number of databases, and of temporary files a connection *)
(* makes: no file that may still be made is without a handle, through      *)
(* removals, deaths and opens that wait (browser/sqlite.ts reserve,        *)
(* outstanding).                                                           *)
THEOREM PoolHandlesSuffice == PoolSpec => []HandlesSuffice
<1>1. PoolInv => HandlesSuffice BY HandlesSufficeHolds
<1> QED BY <1>1, PoolInvariant, PTL

-----------------------------------------------------------------------------
(***************************************************************************)
(* The opening of one database by any number of stores.  The tables only   *)
(* go forward, the first blobs table apart, so that what a store has done  *)
(* stays done (Progress); and an account of the inits that threw is kept   *)
(* by naming those that will: a store that has missed its batch, and finds *)
(* nothing changed, throws whatever the others do.  A failure of the       *)
(* database's own charges one store at most, a reset every other one.      *)
(***************************************************************************)

Places == {"idle", "blobs", "schema", "columns", "replicas", "packages", "ended_blobs", "ready", "minted", "winner"}

Triples == [{"messages", "replicas", "replica_accounts"} -> (SUBSET Columns) \cup {Nil}]

Openers == [at : Places, phase : {"none", "read", "batch", "recheck"}, seen : {Nil} \cup Triples, keys : SqlStores \cup {Nil}]

OpeningTypeOK ==
    /\ shape \in [Tables -> (SUBSET Columns) \cup {Nil}]
    /\ rows \in [Kept \cup {"ended_blobs"} -> SUBSET Nat]
    /\ written \in [Kept -> SUBSET Nat] /\ \A t \in Kept : IsFiniteSet(written[t])
    /\ stored \in SqlStores \cup {Nil}
    /\ sqlStore \in [SqlStores -> Openers]
    /\ failures \in Nat /\ throws \in Nat /\ resets \in Nat

(* The columns are brought up to date, or were never of a former shape.    *)
InLine(x) ==
    /\ x["messages"] = {} /\ x["replica_accounts"] = {"registration"}
    /\ x["replicas"] \in {{"removed_at"}, {"replica_id", "removed_at"}}

(* The tables whose columns are to be brought up to date, before that.     *)
OutOfLine(x) ==
    /\ x["messages"] = {"next_did", "forward_id"}
    /\ \/ x["replica_accounts"] = {"registration"} /\ x["replicas"] = {"removed_at"}
       \/ x["replica_accounts"] = {"mediation_id"} /\ x["replicas"] = {"replica_id"}

Aligning == {"columns", "replicas", "packages", "ended_blobs"}
Readied == {"ready", "minted", "winner"}

(* What the tables can look like.                                          *)
ShapeInv ==
    /\ \/ \A t \in {"messages", "replica_accounts", "replicas"} : shape[t] = Nil
       \/ InLine(shape) \/ OutOfLine(shape)
       \/ shape.messages = {"next_did", "forward_id"} /\ shape.replica_accounts = Nil /\ shape.replicas = Nil
    /\ shape.packages \in {Nil, {}, {"forward_id"}}
    /\ shape.blobs \in {Nil, {"hash"}, {"owner_did"}}
    /\ shape.ended_blobs \in {Nil, {}}

(* What a store has done, nobody undoes, the first blobs table apart.      *)
Progress(c) ==
    /\ c.at \notin {"idle", "blobs"} => shape.blobs # {"hash"}
    /\ c.at \in Aligning \cup Readied =>
         /\ shape.packages # Nil /\ (InLine(shape) \/ OutOfLine(shape))
         /\ shape.blobs = {"owner_did"} \/ resets > 0
    /\ c.at \in (Aligning \cup Readied) \ {"columns"} => InLine(shape)
    /\ c.at \in {"packages", "ended_blobs"} \cup Readied => "replica_id" \notin shape.replicas
    /\ c.at \in {"ended_blobs"} \cup Readied => shape.packages = {}
    /\ c.at \in Readied => shape.ended_blobs = {}
    /\ c.at = "columns" /\ c.phase \in {"batch", "recheck"} =>
         \/ /\ InLine(c.seen) /\ InLine(shape)
            /\ "replica_id" \in shape.replicas => "replica_id" \in c.seen["replicas"]
         \/ OutOfLine(c.seen) /\ (InLine(shape) \/ AlignedTables = c.seen)
    /\ c.at \in {"idle"} \cup Readied <=> c.phase = "none"
    /\ c.at \in {"blobs", "schema"} => c.phase \in {"read", "batch"}

ProgressInv == \A s \in SqlStores : Progress(sqlStore[s])

RowsInv ==
    /\ written.replicas \subseteq rows.replicas /\ written.packages \subseteq rows.packages
    /\ resets = 0 => /\ written.blobs \subseteq rows.blobs \cup rows.ended_blobs
                     /\ shape.blobs # {"owner_did"} => written.blobs = {}
    /\ IF shape.ended_blobs = Nil THEN rows.ended_blobs = {} ELSE 0 \notin rows.blobs

KeysRight(c) == (c.keys # Nil => c.keys = stored) /\ (c.at = "winner" => stored # Nil)

KeysInv == \A s \in SqlStores : KeysRight(sqlStore[s])

(* The stores that will throw, whatever the others do, unless they die.    *)
WillThrow(c) ==
    \/ c.at \in Aligning /\ shape.blobs = Nil
    \/ c.phase = "recheck" /\ c.at = "columns" /\ AlignedTables = c.seen
    \/ c.phase = "recheck" /\ c.at \in Aligning \ {"columns"} /\ Due(c.at)

Charged == {s \in SqlStores : WillThrow(sqlStore[s])}

ChargeInv == throws + Cardinality(Charged) <= failures + resets * (Cardinality(SqlStores) - 1)

OpeningInv == OpeningTypeOK /\ ShapeInv /\ ProgressInv /\ RowsInv /\ KeysInv /\ ChargeInv

-----------------------------------------------------------------------------
(* The tables, and the present columns of each.                            *)
LEMMA TablesNamed ==
    /\ Tables = {"messages", "replica_accounts", "replicas", "packages", "blobs", "ended_blobs"}
    /\ Current.messages = {} /\ Current.replica_accounts = {"registration"} /\ Current.replicas = {"removed_at"}
    /\ Current.packages = {} /\ Current.blobs = {"owner_did"} /\ Current.ended_blobs = {}
    /\ Kept = {"replicas", "packages", "blobs"}
BY DEF Tables, Current, Kept

(* How many stores there are in a set of them, with one more or one less.  *)
LEMMA ChargeCount ==
    ASSUME OpeningTypeOK, NEW C \in SUBSET SqlStores, NEW D \in SUBSET SqlStores
    PROVE  /\ Cardinality(C) \in Nat /\ Cardinality(SqlStores) \in Nat
           /\ D \subseteq C => Cardinality(D) <= Cardinality(C)
           /\ \A s \in SqlStores : D \subseteq C \cup {s} => Cardinality(D) <= Cardinality(C) + 1
           /\ \A s \in C : D \subseteq C \ {s} => Cardinality(D) + 1 <= Cardinality(C)
           /\ \A s \in SqlStores : s \notin D => Cardinality(D) <= Cardinality(SqlStores) - 1
<1>1. IsFiniteSet(C) /\ IsFiniteSet(D) /\ IsFiniteSet(SqlStores) BY FS_Subset, OpeningAssumption
<1>2. Cardinality(C) \in Nat /\ Cardinality(D) \in Nat /\ Cardinality(SqlStores) \in Nat BY <1>1, FS_CardinalityType
<1>3. D \subseteq C => Cardinality(D) <= Cardinality(C) BY <1>1, FS_Subset
<1>4. ASSUME NEW s \in SqlStores, D \subseteq C \cup {s} PROVE Cardinality(D) <= Cardinality(C) + 1
  <2>1. IsFiniteSet(C \cup {s}) /\ Cardinality(C \cup {s}) <= Cardinality(C) + 1
    <3>1. IsFiniteSet(C \cup {s}) BY <1>1, FS_AddElement
    <3>2. Cardinality(C \cup {s}) = (IF s \in C THEN Cardinality(C) ELSE Cardinality(C) + 1)
      BY <1>1, FS_AddElement
    <3> QED BY <1>2, <3>1, <3>2
  <2>2. Cardinality(D) <= Cardinality(C \cup {s}) /\ Cardinality(C \cup {s}) \in Nat
    BY <1>4, <2>1, FS_Subset, FS_CardinalityType
  <2> QED BY <1>2, <2>1, <2>2
<1>5. ASSUME NEW s \in C, D \subseteq C \ {s} PROVE Cardinality(D) + 1 <= Cardinality(C)
  <2>1. IsFiniteSet(C \ {s}) /\ Cardinality(C \ {s}) = Cardinality(C) - 1 BY <1>1, FS_RemoveElement
  <2>2. Cardinality(D) <= Cardinality(C \ {s}) BY <1>5, <2>1, FS_Subset
  <2> QED BY <1>2, <2>1, <2>2
<1>6. ASSUME NEW s \in SqlStores, s \notin D PROVE Cardinality(D) <= Cardinality(SqlStores) - 1
  <2>1. IsFiniteSet(SqlStores \ {s}) /\ Cardinality(SqlStores \ {s}) = Cardinality(SqlStores) - 1 BY <1>1, FS_RemoveElement
  <2>2. Cardinality(D) <= Cardinality(SqlStores \ {s}) BY <1>6, <2>1, FS_Subset
  <2> QED BY <1>2, <2>1, <2>2
<1> QED BY <1>2, <1>3, <1>4, <1>5, <1>6

(* A step that charges nobody, or the one it is of for a mishap, or lets   *)
(* one throw that was charged, keeps the account.                          *)
LEMMA ChargeKeeps ==
    ASSUME OpeningTypeOK, ChargeInv, NEW s \in SqlStores, resets' = resets,
           \/ Charged' \subseteq Charged /\ throws' = throws /\ failures' \in {failures, failures + 1}
           \/ Charged' \subseteq Charged \cup {s} /\ throws' = throws /\ failures' = failures + 1
           \/ Charged' \subseteq Charged \ {s} /\ s \in Charged /\ throws' = throws + 1 /\ failures' = failures
           \/ Charged' \subseteq Charged /\ throws' = throws + 1 /\ failures' = failures + 1
    PROVE  ChargeInv'
<1> DEFINE m == resets * (Cardinality(SqlStores) - 1)
           a == Cardinality(Charged)
           b == Cardinality(Charged')
<1>0. Charged \in SUBSET SqlStores /\ Charged' \in SUBSET SqlStores BY DEF Charged
<1>1. a \in Nat /\ b \in Nat /\ m \in Int BY <1>0, ChargeCount DEF OpeningTypeOK
<1>2. throws + a <= failures + m BY DEF ChargeInv
<1>3. ChargeInv' <=> throws' + b <= failures' + m BY DEF ChargeInv
<1>4. /\ Charged' \subseteq Charged => b <= a
      /\ Charged' \subseteq Charged \cup {s} => b <= a + 1
      /\ Charged' \subseteq Charged \ {s} /\ s \in Charged => b + 1 <= a
  BY <1>0, ChargeCount
<1>5. throws \in Nat /\ failures \in Nat BY DEF OpeningTypeOK
<1> HIDE DEF a, b, m
<1> QED BY <1>1, <1>2, <1>3, <1>4, <1>5

(* A reset makes at most every other store throw.                          *)
LEMMA ChargeReset ==
    ASSUME OpeningTypeOK, ChargeInv, NEW s \in SqlStores, s \notin Charged',
           resets' = resets + 1, throws' = throws, failures' = failures
    PROVE  ChargeInv'
<1> DEFINE n == Cardinality(SqlStores) - 1
           b == Cardinality(Charged')
<1>1. Charged \in SUBSET SqlStores /\ Charged' \in SUBSET SqlStores BY DEF Charged
<1>2. Cardinality(Charged) \in Nat /\ b \in Nat /\ n \in Int /\ b <= n BY <1>1, ChargeCount
<1>3. throws + Cardinality(Charged) <= failures + resets * n BY DEF ChargeInv
<1>4. resets \in Nat /\ throws \in Nat /\ failures \in Nat BY DEF OpeningTypeOK
<1>5. ChargeInv' <=> throws + b <= failures + (resets + 1) * n BY DEF ChargeInv
<1> HIDE DEF n, b
<1>6. (resets + 1) * n = resets * n + n BY <1>2, <1>4
<1>7. resets * n \in Int BY <1>2, <1>4
<1> QED BY <1>2, <1>3, <1>4, <1>5, <1>6, <1>7

(* A step of one store that leaves the database as it is.                  *)
LEMMA StoreKeeps ==
    ASSUME OpeningInv, NEW s \in SqlStores, NEW c \in Openers, sqlStore' = [sqlStore EXCEPT ![s] = c],
           UNCHANGED Contents, Progress(c), KeysRight(c), failures' \in Nat, throws' \in Nat
    PROVE  /\ OpeningTypeOK' /\ ShapeInv' /\ ProgressInv' /\ RowsInv' /\ KeysInv'
           /\ Charged' = (Charged \ {s}) \cup {x \in {s} : WillThrow(c)}
<1> USE DEF OpeningInv
<1>1. UNCHANGED <<shape, rows, stored, resets, written>> BY DEF Contents
<1>2. OpeningTypeOK' BY <1>1 DEF OpeningTypeOK
<1>3. ShapeInv' BY <1>1 DEF ShapeInv, InLine, OutOfLine
<1>4. \A d : Progress(d)' = Progress(d) BY <1>1 DEF Progress, InLine, OutOfLine, AlignedTables
<1>5. \A x \in SqlStores : sqlStore'[x] = IF x = s THEN c ELSE sqlStore[x] BY DEF OpeningTypeOK
<1>6. ProgressInv' BY <1>4, <1>5 DEF ProgressInv
<1>7. RowsInv' BY <1>1 DEF RowsInv
<1>8. KeysInv' BY <1>1, <1>5 DEF KeysInv, KeysRight
<1>9. \A d : WillThrow(d)' = WillThrow(d) BY <1>1 DEF WillThrow, AlignedTables, Due
<1>10. Charged' = (Charged \ {s}) \cup {x \in {s} : WillThrow(c)} BY <1>5, <1>9 DEF Charged
<1> QED BY <1>2, <1>3, <1>6, <1>7, <1>8, <1>10

(* A store that goes to another place leaves the others and its keys.      *)
LEMMA GotoFacts ==
    ASSUME OpeningTypeOK, NEW s \in SqlStores, NEW at \in Places, NEW phase \in {"none", "read", "batch", "recheck"}, Goto(s, at, phase)
    PROVE  \E c \in Openers : /\ sqlStore' = [sqlStore EXCEPT ![s] = c]
                              /\ c.at = at /\ c.phase = phase /\ c.seen = Nil /\ c.keys = sqlStore[s].keys
<1> DEFINE c == [sqlStore[s] EXCEPT !.at = at, !.phase = phase, !.seen = Nil]
<1>1. sqlStore[s] \in Openers BY DEF OpeningTypeOK
<1>2. c \in Openers BY <1>1 DEF Openers
<1>3. c.at = at /\ c.phase = phase /\ c.seen = Nil /\ c.keys = sqlStore[s].keys BY <1>1 DEF Openers
<1>4. sqlStore' = [sqlStore EXCEPT ![s] = c] BY <1>1 DEF Goto, Openers
<1> HIDE DEF c
<1> QED BY <1>2, <1>3, <1>4

(* A store that only changes its phase stays where it is.                  *)
LEMMA PhaseFacts ==
    ASSUME OpeningTypeOK, NEW s \in SqlStores, NEW phase \in {"none", "read", "batch", "recheck"}, NEW seen \in {Nil} \cup Triples
    PROVE  \E c \in Openers : /\ c = [sqlStore[s] EXCEPT !.phase = phase, !.seen = seen]
                              /\ c.at = sqlStore[s].at /\ c.phase = phase /\ c.seen = seen /\ c.keys = sqlStore[s].keys
<1> DEFINE c == [sqlStore[s] EXCEPT !.phase = phase, !.seen = seen]
<1>1. sqlStore[s] \in Openers BY DEF OpeningTypeOK
<1>2. c \in Openers BY <1>1 DEF Openers
<1>3. c.at = sqlStore[s].at /\ c.phase = phase /\ c.seen = seen /\ c.keys = sqlStore[s].keys BY <1>1 DEF Openers
<1>4. c = [sqlStore[s] EXCEPT !.phase = phase, !.seen = seen] OBVIOUS
<1> HIDE DEF c
<1> QED BY <1>2, <1>3, <1>4

(* Every store is somewhere, with what it has done and the keys it holds.  *)
LEMMA StoreIsOpener == ASSUME OpeningInv, NEW s \in SqlStores
    PROVE  /\ sqlStore[s] \in Openers /\ sqlStore[s].at \in Places /\ sqlStore[s].keys \in SqlStores \cup {Nil}
           /\ Progress(sqlStore[s]) /\ KeysRight(sqlStore[s])
           /\ (s \in Charged) = WillThrow(sqlStore[s])
<1>1. sqlStore[s] \in Openers BY DEF OpeningInv, OpeningTypeOK
<1>2. sqlStore[s].at \in Places /\ sqlStore[s].keys \in SqlStores \cup {Nil} BY <1>1 DEF Openers
<1>3. Progress(sqlStore[s]) /\ KeysRight(sqlStore[s]) BY DEF OpeningInv, ProgressInv, KeysInv
<1>4. (s \in Charged) = WillThrow(sqlStore[s])
  <2>1. WillThrow(sqlStore[s]) \in BOOLEAN BY DEF WillThrow
  <2> HIDE DEF WillThrow
  <2> QED BY <2>1 DEF Charged
<1> QED BY <1>1, <1>2, <1>3, <1>4

(* A store that goes on to where it may, is charged with nothing it was    *)
(* not charged with before.                                                *)
LEMMA GoesOn ==
    ASSUME OpeningInv, NEW s \in SqlStores, NEW at \in Places, NEW phase \in {"none", "read", "batch"},
           Goto(s, at, phase), UNCHANGED <<Contents, failures, throws>>,
           \A c \in Openers : c.at = at /\ c.phase = phase /\ c.seen = Nil => Progress(c),
           at = "winner" => stored # Nil,
           at \in Aligning => sqlStore[s].at \in Aligning \/ shape.blobs # Nil
    PROVE  OpeningInv'
<1>0. OpeningTypeOK /\ phase \in {"none", "read", "batch", "recheck"} BY DEF OpeningInv
<1>1. PICK c \in Openers : /\ sqlStore' = [sqlStore EXCEPT ![s] = c]
                           /\ c.at = at /\ c.phase = phase /\ c.seen = Nil /\ c.keys = sqlStore[s].keys
  BY <1>0, GotoFacts
<1>2. Progress(c) BY <1>1
<1>3. KeysRight(c) BY <1>1, StoreIsOpener DEF KeysRight
<1>4. WillThrow(c) => s \in Charged BY <1>1, StoreIsOpener DEF WillThrow
<1>5. UNCHANGED Contents /\ failures' \in Nat /\ throws' \in Nat /\ resets' = resets /\ failures' = failures /\ throws' = throws
  BY DEF OpeningInv, OpeningTypeOK, Contents
<1>6. /\ OpeningTypeOK' /\ ShapeInv' /\ ProgressInv' /\ RowsInv' /\ KeysInv'
      /\ Charged' = (Charged \ {s}) \cup {x \in {s} : WillThrow(c)}
  BY <1>1, <1>2, <1>3, <1>5, StoreKeeps
<1>7. Charged' \subseteq Charged BY <1>4, <1>6
<1>8. ChargeInv' BY <1>5, <1>7, ChargeKeeps DEF OpeningInv
<1> QED BY <1>6, <1>8 DEF OpeningInv

(* A store that throws was charged, or its mishap is.                      *)
LEMMA Throws ==
    ASSUME OpeningInv, NEW s \in SqlStores, Throw(s), UNCHANGED Contents,
           (s \in Charged /\ failures' = failures) \/ failures' = failures + 1
    PROVE  OpeningInv'
<1>0. OpeningTypeOK /\ Goto(s, "idle", "none") /\ "idle" \in Places BY DEF OpeningInv, Throw, Places
<1>1. PICK c \in Openers : /\ sqlStore' = [sqlStore EXCEPT ![s] = c]
                           /\ c.at = "idle" /\ c.phase = "none" /\ c.keys = sqlStore[s].keys
  BY <1>0, GotoFacts
<1>2. Progress(c) BY <1>1 DEF Progress, Aligning, Readied
<1>3. KeysRight(c) BY <1>1, StoreIsOpener DEF KeysRight
<1>4. ~WillThrow(c) BY <1>1 DEF WillThrow, Aligning
<1>5. UNCHANGED Contents /\ failures' \in Nat /\ throws' \in Nat /\ resets' = resets /\ throws' = throws + 1
  BY DEF OpeningInv, OpeningTypeOK, Contents, Throw
<1>6. /\ OpeningTypeOK' /\ ShapeInv' /\ ProgressInv' /\ RowsInv' /\ KeysInv'
      /\ Charged' = (Charged \ {s}) \cup {x \in {s} : WillThrow(c)}
  BY <1>1, <1>2, <1>3, <1>5, StoreKeeps
<1>7. Charged' = Charged \ {s} BY <1>4, <1>6
<1>8. ChargeInv' BY <1>5, <1>7, ChargeKeeps DEF OpeningInv
<1> QED BY <1>6, <1>8 DEF OpeningInv

(* A batch that missed, its store charged or not the worse for it.         *)
LEMMA MissKeeps ==
    ASSUME OpeningInv, NEW s \in SqlStores, Misses(s), UNCHANGED <<Contents, throws>>,
           sqlStore[s].at \in Aligning, sqlStore[s].phase = "batch",
           \/ failures' = failures + 1
           \/ /\ failures' = failures
              /\ \/ shape.blobs = Nil
                 \/ sqlStore[s].at = "columns" /\ AlignedTables # sqlStore[s].seen
                 \/ sqlStore[s].at # "columns" /\ ~Due(sqlStore[s].at)
    PROVE  OpeningInv'
<1>1. PICK c \in Openers : /\ c = [sqlStore[s] EXCEPT !.phase = "recheck", !.seen = sqlStore[s].seen]
                           /\ c.at = sqlStore[s].at /\ c.phase = "recheck" /\ c.seen = sqlStore[s].seen /\ c.keys = sqlStore[s].keys
  <2>1. sqlStore[s].seen \in {Nil} \cup Triples BY StoreIsOpener DEF Openers
  <2>2. OpeningTypeOK BY DEF OpeningInv
  <2>3. "recheck" \in {"none", "read", "batch", "recheck"} OBVIOUS
  <2>4. \A seen \in {Nil} \cup Triples :
          \E c \in Openers : /\ c = [sqlStore[s] EXCEPT !.phase = "recheck", !.seen = seen]
                             /\ c.at = sqlStore[s].at /\ c.phase = "recheck" /\ c.seen = seen /\ c.keys = sqlStore[s].keys
    BY <2>2, <2>3, PhaseFacts
  <2> QED BY <2>1, <2>4
<1>2. sqlStore' = [sqlStore EXCEPT ![s] = c]
  BY <1>1, StoreIsOpener DEF Misses, Openers
<1>3. Progress(c)
  <2>1. Progress(sqlStore[s]) BY StoreIsOpener
  <2> QED BY <1>1, <2>1 DEF Progress, Aligning, Readied
<1>4. KeysRight(c) BY <1>1, StoreIsOpener DEF KeysRight
<1>5. WillThrow(c) => s \in Charged \/ failures' = failures + 1
  BY <1>1, StoreIsOpener DEF WillThrow, Aligning
<1>6. UNCHANGED Contents /\ failures' \in Nat /\ throws' \in Nat /\ resets' = resets /\ throws' = throws
  BY DEF OpeningInv, OpeningTypeOK, Contents
<1>7. /\ OpeningTypeOK' /\ ShapeInv' /\ ProgressInv' /\ RowsInv' /\ KeysInv'
      /\ Charged' = (Charged \ {s}) \cup {x \in {s} : WillThrow(c)}
  BY <1>1, <1>2, <1>3, <1>4, <1>6, StoreKeeps
<1>8. ChargeInv'
  <2>1. CASE failures' = failures + 1
    <3>1. Charged' \subseteq Charged \cup {s} BY <1>7
    <3> QED BY <1>6, <2>1, <3>1, ChargeKeeps DEF OpeningInv
  <2>2. CASE failures' = failures
    <3>1. failures \in Nat BY DEF OpeningInv, OpeningTypeOK
    <3>2. WillThrow(c) => s \in Charged BY <1>5, <2>2, <3>1
    <3>3. Charged' \subseteq Charged BY <1>7, <3>2
    <3> QED BY <1>6, <2>2, <3>3, ChargeKeeps DEF OpeningInv
  <2> QED BY <2>1, <2>2
<1> QED BY <1>7, <1>8 DEF OpeningInv

-----------------------------------------------------------------------------
(* The steps of a store on its own.                                        *)

(* A first request begins.                                                 *)
LEMMA BeginOpeningKeeps == ASSUME OpeningInv, NEW s \in SqlStores, BeginOpening(s) PROVE OpeningInv'
<1>1. \A c \in Openers : c.at = "blobs" /\ c.phase = "read" /\ c.seen = Nil => Progress(c)
  BY DEF Progress, Aligning, Readied
<1> QED BY <1>1, GoesOn DEF BeginOpening, Places, Aligning

(* The look at the former blobs table.                                     *)
LEMMA LooksAtBlobsKeeps == ASSUME OpeningInv, NEW s \in SqlStores, LooksAtBlobs(s) PROVE OpeningInv'
<1>1. CASE shape.blobs # Nil /\ "owner_did" \notin shape.blobs
  <2>1. \A c \in Openers : c.at = "blobs" /\ c.phase = "batch" /\ c.seen = Nil => Progress(c)
    BY DEF Progress, Aligning, Readied
  <2> QED BY <1>1, <2>1, GoesOn DEF LooksAtBlobs, Places, Aligning
<1>2. CASE ~(shape.blobs # Nil /\ "owner_did" \notin shape.blobs)
  <2>1. shape.blobs # {"hash"} BY <1>2, OpeningAssumption DEF Columns
  <2>2. \A c \in Openers : c.at = "schema" /\ c.phase = "batch" /\ c.seen = Nil => Progress(c)
    BY <2>1 DEF Progress, Aligning, Readied
  <2> QED BY <1>2, <2>2, GoesOn DEF LooksAtBlobs, Places, Aligning
<1> QED BY <1>1, <1>2

(* The columns as a store has read them.                                   *)
LEMMA AlignedFacts ==
    ASSUME OpeningTypeOK
    PROVE  /\ AlignedTables \in Triples
           /\ \A t \in {"messages", "replicas", "replica_accounts"} : AlignedTables[t] = shape[t]
           /\ InLine(AlignedTables) = InLine(shape) /\ OutOfLine(AlignedTables) = OutOfLine(shape)
<1>1. \A t \in {"messages", "replicas", "replica_accounts"} : shape[t] \in (SUBSET Columns) \cup {Nil}
  BY TablesNamed DEF OpeningTypeOK
<1>2. AlignedTables \in Triples BY <1>1 DEF AlignedTables, Triples
<1>3. \A t \in {"messages", "replicas", "replica_accounts"} : AlignedTables[t] = shape[t] BY DEF AlignedTables
<1> QED BY <1>2, <1>3 DEF InLine, OutOfLine

(* The columns are read, or read again after a batch that failed.          *)
LEMMA AlignColumnsKeeps == ASSUME OpeningInv, NEW s \in SqlStores, AlignColumns(s) PROVE OpeningInv'
<1>0. OpeningTypeOK /\ sqlStore[s].at = "columns" BY DEF AlignColumns, OpenerAt, OpeningInv
<1>1. CASE ReadsColumns(s) /\ UNCHANGED throws
  <2>1. AlignedTables \in {Nil} \cup Triples /\ "batch" \in {"none", "read", "batch", "recheck"} BY <1>0, AlignedFacts
  <2>2. PICK c \in Openers : /\ c = [sqlStore[s] EXCEPT !.phase = "batch", !.seen = AlignedTables]
                             /\ c.at = sqlStore[s].at /\ c.phase = "batch" /\ c.seen = AlignedTables /\ c.keys = sqlStore[s].keys
    <3>1. \A seen \in {Nil} \cup Triples :
          \E c \in Openers : /\ c = [sqlStore[s] EXCEPT !.phase = "batch", !.seen = seen]
                             /\ c.at = sqlStore[s].at /\ c.phase = "batch" /\ c.seen = seen /\ c.keys = sqlStore[s].keys
      BY <1>0, <2>1, PhaseFacts
    <3> QED BY <2>1, <3>1
  <2>3. sqlStore' = [sqlStore EXCEPT ![s] = c] BY <1>1, <2>2, StoreIsOpener DEF ReadsColumns, Openers
  <2>4. Progress(c)
    <3>1. Progress(sqlStore[s]) BY StoreIsOpener
    <3>2. InLine(shape) \/ OutOfLine(shape) BY <1>0, <3>1 DEF Progress, Aligning
    <3>3. InLine(c.seen) = InLine(shape) /\ OutOfLine(c.seen) = OutOfLine(shape) /\ c.seen["replicas"] = shape.replicas BY <1>0, <2>2, AlignedFacts
    <3> QED BY <1>0, <2>2, <3>1, <3>2, <3>3 DEF Progress, Aligning, Readied
  <2>5. KeysRight(c) BY <1>0, <2>2, StoreIsOpener DEF KeysRight
  <2>6. WillThrow(c) => s \in Charged BY <1>0, <2>2, StoreIsOpener DEF WillThrow
  <2>7. UNCHANGED Contents /\ failures' \in Nat /\ throws' \in Nat /\ resets' = resets /\ throws' = throws /\ failures' = failures
    BY <1>0, <1>1 DEF AlignColumns, OpeningTypeOK, Contents
  <2>8. /\ OpeningTypeOK' /\ ShapeInv' /\ ProgressInv' /\ RowsInv' /\ KeysInv'
        /\ Charged' = (Charged \ {s}) \cup {x \in {s} : WillThrow(c)}
    BY <2>2, <2>3, <2>4, <2>5, <2>7, StoreKeeps
  <2>9. Charged' \subseteq Charged BY <2>6, <2>8
  <2>10. ChargeInv' BY <2>7, <2>9, ChargeKeeps DEF OpeningInv
  <2> QED BY <2>8, <2>10 DEF OpeningInv
<1>2. CASE sqlStore[s].phase = "recheck" /\ AlignedTables = sqlStore[s].seen /\ Throw(s)
  <2>1. s \in Charged BY <1>0, <1>2, StoreIsOpener DEF WillThrow
  <2> QED BY <1>2, <2>1, Throws DEF AlignColumns
<1> QED BY <1>1, <1>2 DEF AlignColumns, OpenerAt

(* What follows a step that is done.                                       *)
LEMMA FollowsFacts ==
    ASSUME OpeningInv, NEW s \in SqlStores, NEW t \in {"replicas", "packages", "ended_blobs"}, sqlStore[s].at = t, ~Due(t)
    PROVE  /\ After(t)[1] \in Places /\ After(t)[2] \in {"none", "read", "batch"} /\ After(t)[1] # "winner"
           /\ \A c \in Openers : c.at = After(t)[1] /\ c.phase = After(t)[2] /\ c.seen = Nil => Progress(c)
<1>1. Progress(sqlStore[s]) BY StoreIsOpener
<1>2. CASE t = "replicas"
  <2>1. After(t)[1] = "packages" /\ After(t)[2] = "read" BY <1>2 DEF After
  <2>2. "replica_id" \notin shape.replicas BY <1>2 DEF Due
  <2> QED BY <1>1, <1>2, <2>1, <2>2 DEF Progress, Aligning, Readied, Places
<1>3. CASE t = "packages"
  <2>1. After(t)[1] = "ended_blobs" /\ After(t)[2] = "read" BY <1>3 DEF After
  <2>2. "forward_id" \notin shape.packages BY <1>3 DEF Due
  <2>3. shape.packages # Nil /\ shape.packages \in {Nil, {}, {"forward_id"}}
    BY <1>1, <1>3 DEF Progress, Aligning, OpeningInv, ShapeInv
  <2>4. shape.packages = {} BY <2>2, <2>3
  <2> QED BY <1>1, <1>3, <2>1, <2>4 DEF Progress, Aligning, Readied, Places
<1>4. CASE t = "ended_blobs"
  <2>1. After(t)[1] = "ready" /\ After(t)[2] = "none" BY <1>4 DEF After
  <2>2. shape.ended_blobs # Nil BY <1>4 DEF Due
  <2>3. shape.ended_blobs = {} BY <2>2 DEF OpeningInv, ShapeInv
  <2> QED BY <1>1, <1>4, <2>1, <2>3 DEF Progress, Aligning, Readied, Places
<1> QED BY <1>2, <1>3, <1>4

(* The look at a table to be made anew, or to be made.                     *)
LEMMA LooksKeeps ==
    ASSUME OpeningInv, NEW s \in SqlStores, NEW t \in {"replicas", "packages", "ended_blobs"}, Looks(s, t)
    PROVE  OpeningInv'
<1>0. sqlStore[s].at = t /\ sqlStore[s].at \in Aligning BY DEF Looks, OpenerAt, Aligning
<1>1. CASE Due(t)
  <2>1. \A c \in Openers : c.at = t /\ c.phase = "batch" /\ c.seen = Nil => Progress(c)
    BY <1>0, StoreIsOpener DEF Progress, Aligning, Readied
  <2>2. Goto(s, t, "batch") /\ UNCHANGED <<Contents, failures, throws>> BY <1>1 DEF Looks
  <2> QED BY <1>0, <2>1, <2>2, GoesOn DEF Places
<1>2. CASE ~Due(t)
  <2>1. Goto(s, After(t)[1], After(t)[2]) /\ UNCHANGED <<Contents, failures, throws>> BY <1>2 DEF Looks
  <2> QED BY <1>0, <1>2, <2>1, FollowsFacts, GoesOn
<1> QED BY <1>1, <1>2

(* The look after a batch that failed: what is left to be done makes it    *)
(* throw.                                                                  *)
LEMMA RechecksKeeps ==
    ASSUME OpeningInv, NEW s \in SqlStores, NEW t \in {"replicas", "packages", "ended_blobs"}, Rechecks(s, t)
    PROVE  OpeningInv'
<1>0. sqlStore[s].at = t /\ sqlStore[s].phase = "recheck" /\ sqlStore[s].at \in Aligning \ {"columns"} BY DEF Rechecks, OpenerAt, Aligning
<1>1. CASE Due(t)
  <2>1. s \in Charged BY <1>0, <1>1, StoreIsOpener DEF WillThrow
  <2> QED BY <1>1, <2>1, Throws DEF Rechecks
<1>2. CASE ~Due(t)
  <2>1. Goto(s, After(t)[1], After(t)[2]) /\ UNCHANGED <<Contents, failures, throws>> BY <1>2 DEF Rechecks, Contents
  <2> QED BY <1>0, <1>2, <2>1, FollowsFacts, GoesOn
<1> QED BY <1>1, <1>2

(* A store that takes the keys is ready.                                   *)
LEMMA HoldsKeysFacts ==
    ASSUME OpeningInv, NEW s \in SqlStores, NEW keys \in SqlStores \cup {Nil}, HoldsKeys(s, keys)
    PROVE  \E c \in Openers : /\ sqlStore' = [sqlStore EXCEPT ![s] = c]
                              /\ c.at = "ready" /\ c.phase = sqlStore[s].phase /\ c.seen = Nil /\ c.keys = keys
<1> DEFINE c == [sqlStore[s] EXCEPT !.at = "ready", !.seen = Nil, !.keys = keys]
<1>1. sqlStore[s] \in Openers BY DEF OpeningInv, OpeningTypeOK
<1>2. c \in Openers BY <1>1 DEF Openers, Places
<1>3. c.at = "ready" /\ c.phase = sqlStore[s].phase /\ c.seen = Nil /\ c.keys = keys BY <1>1 DEF Openers
<1>4. sqlStore' = [sqlStore EXCEPT ![s] = c] BY <1>1 DEF HoldsKeys, Openers
<1> HIDE DEF c
<1> QED BY <1>2, <1>3, <1>4

(* The keys it takes are the stored ones.                                  *)
LEMMA TakesKeys ==
    ASSUME OpeningInv, NEW s \in SqlStores, HoldsKeys(s, stored), sqlStore[s].at \in Readied,
           UNCHANGED <<Contents, failures, throws>>
    PROVE  OpeningInv'
<1>0. stored \in SqlStores \cup {Nil} BY DEF OpeningInv, OpeningTypeOK
<1>1. PICK c \in Openers : /\ sqlStore' = [sqlStore EXCEPT ![s] = c]
                           /\ c.at = "ready" /\ c.phase = sqlStore[s].phase /\ c.seen = Nil /\ c.keys = stored
  BY <1>0, HoldsKeysFacts
<1>2. Progress(c) BY <1>1, StoreIsOpener DEF Progress, Aligning, Readied
<1>3. KeysRight(c) BY <1>1 DEF KeysRight
<1>4. ~WillThrow(c) BY <1>1 DEF WillThrow, Aligning
<1>5. UNCHANGED Contents /\ failures' \in Nat /\ throws' \in Nat /\ resets' = resets /\ failures' = failures /\ throws' = throws
  BY DEF OpeningInv, OpeningTypeOK, Contents
<1>6. /\ OpeningTypeOK' /\ ShapeInv' /\ ProgressInv' /\ RowsInv' /\ KeysInv'
      /\ Charged' = (Charged \ {s}) \cup {x \in {s} : WillThrow(c)}
  BY <1>1, <1>2, <1>3, <1>5, StoreKeeps
<1>7. Charged' \subseteq Charged BY <1>4, <1>6
<1>8. ChargeInv' BY <1>5, <1>7, ChargeKeeps DEF OpeningInv
<1> QED BY <1>6, <1>8 DEF OpeningInv

(* The keys are loaded, or the ones that won taken.                        *)
LEMMA LoadIdentityKeeps == ASSUME OpeningInv, NEW s \in SqlStores, LoadIdentity(s) \/ Winner(s) PROVE OpeningInv'
<1>1. sqlStore[s].at \in Readied BY DEF LoadIdentity, Winner, OpenerAt, Readied
<1>2. CASE HoldsKeys(s, stored)
  BY <1>1, <1>2, TakesKeys DEF LoadIdentity, Winner
<1>3. CASE LoadIdentity(s) /\ Goto(s, "minted", "none")
  <2>1. \A c \in Openers : c.at = "minted" /\ c.phase = "none" /\ c.seen = Nil => Progress(c)
    BY <1>1, StoreIsOpener DEF Progress, Aligning, Readied
  <2> QED BY <1>3, <2>1, GoesOn DEF LoadIdentity, Places, Aligning
<1> QED BY <1>2, <1>3 DEF LoadIdentity, Winner

(* A failure of the database's own charges at most the store it meets.     *)
LEMMA MishapKeeps == ASSUME OpeningInv, NEW s \in SqlStores, Mishap(s) PROVE OpeningInv'
<1>0. failures' = failures + 1 /\ UNCHANGED Contents BY DEF Mishap
<1>1. CASE sqlStore[s].at \in Readied /\ Goto(s, "ready", "none") /\ UNCHANGED throws
  <2>0. OpeningTypeOK /\ "ready" \in Places /\ "none" \in {"none", "read", "batch", "recheck"} BY DEF OpeningInv, Places
  <2>1. PICK c \in Openers : /\ sqlStore' = [sqlStore EXCEPT ![s] = c]
                             /\ c.at = "ready" /\ c.phase = "none" /\ c.seen = Nil /\ c.keys = sqlStore[s].keys
    BY <1>1, <2>0, GotoFacts
  <2>2. Progress(c) BY <1>1, <2>1, StoreIsOpener DEF Progress, Aligning, Readied
  <2>3. KeysRight(c) BY <2>1, StoreIsOpener DEF KeysRight
  <2>4. ~WillThrow(c) BY <2>1 DEF WillThrow, Aligning
  <2>5. failures' \in Nat /\ throws' \in Nat /\ resets' = resets /\ throws' = throws
    BY <1>0, <1>1 DEF OpeningInv, OpeningTypeOK, Contents
  <2>6. /\ OpeningTypeOK' /\ ShapeInv' /\ ProgressInv' /\ RowsInv' /\ KeysInv'
        /\ Charged' = (Charged \ {s}) \cup {x \in {s} : WillThrow(c)}
    BY <1>0, <2>1, <2>2, <2>3, <2>5, StoreKeeps
  <2>7. Charged' \subseteq Charged BY <2>4, <2>6
  <2>8. ChargeInv' BY <1>0, <2>5, <2>7, ChargeKeeps DEF OpeningInv
  <2> QED BY <2>6, <2>8 DEF OpeningInv
<1>2. CASE sqlStore[s].phase = "batch" /\ sqlStore[s].at \notin {"blobs", "schema", "idle"} \cup Readied /\ Misses(s) /\ UNCHANGED throws
  <2>1. sqlStore[s].at \in Aligning BY <1>2, StoreIsOpener DEF Places, Aligning, Readied
  <2> QED BY <1>0, <1>2, <2>1, MissKeeps
<1>3. CASE Throw(s)
  BY <1>0, <1>3, Throws
<1> QED BY <1>1, <1>2, <1>3 DEF Mishap, Readied

(* A store that dies charges nobody.                                       *)
LEMMA DiesKeeps == ASSUME OpeningInv, NEW s \in SqlStores, Dies(s) PROVE OpeningInv'
<1>1. Unopened \in Openers /\ Unopened.at = "idle" /\ Unopened.phase = "none" /\ Unopened.keys = Nil BY DEF Unopened, Openers, Places
<1>2. Progress(Unopened) BY <1>1 DEF Progress, Aligning, Readied
<1>3. KeysRight(Unopened) BY <1>1 DEF KeysRight
<1>4. ~WillThrow(Unopened) BY <1>1 DEF WillThrow, Aligning
<1>5. /\ UNCHANGED Contents /\ failures' \in Nat /\ throws' \in Nat /\ resets' = resets /\ failures' = failures /\ throws' = throws
      /\ sqlStore' = [sqlStore EXCEPT ![s] = Unopened]
  BY DEF OpeningInv, OpeningTypeOK, Contents, Dies
<1>6. /\ OpeningTypeOK' /\ ShapeInv' /\ ProgressInv' /\ RowsInv' /\ KeysInv'
      /\ Charged' = (Charged \ {s}) \cup {x \in {s} : WillThrow(Unopened)}
  BY <1>1, <1>2, <1>3, <1>5, StoreKeeps
<1>7. Charged' \subseteq Charged BY <1>4, <1>6
<1>8. ChargeInv' BY <1>5, <1>7, ChargeKeeps DEF OpeningInv
<1> QED BY <1>6, <1>8 DEF OpeningInv

-----------------------------------------------------------------------------
(* The steps that change the database.                                     *)

(* What the other stores know stays true of tables that only went forward. *)
Forward ==
    /\ shape'.blobs # {"hash"} \/ shape.blobs = {"hash"}
    /\ shape.packages # Nil => shape'.packages # Nil
    /\ InLine(shape) => InLine(shape)'
    /\ OutOfLine(shape) => InLine(shape)' \/ UNCHANGED <<shape.messages, shape.replica_accounts, shape.replicas>>
    /\ shape.blobs = {"owner_did"} => shape'.blobs = {"owner_did"} \/ resets' > 0
    /\ "replica_id" \notin shape.replicas /\ InLine(shape) => "replica_id" \notin shape'.replicas
    /\ shape.packages = {} => shape'.packages = {}
    /\ shape.ended_blobs = {} => shape'.ended_blobs = {}
    /\ resets' >= resets

(* What a store has done stays done while the tables only go forward.      *)
LEMMA ForwardKeeps ==
    ASSUME OpeningInv, Forward, NEW s \in SqlStores, resets' \in Nat, OpeningTypeOK'
    PROVE  Progress(sqlStore[s])' \/ sqlStore'[s] # sqlStore[s]
<1> SUFFICES ASSUME sqlStore'[s] = sqlStore[s] PROVE Progress(sqlStore[s])' OBVIOUS
<1> DEFINE c == sqlStore[s]
<1>1. Progress(c) /\ c' = c BY StoreIsOpener
<1>2. OpeningTypeOK /\ resets \in Nat BY DEF OpeningInv, OpeningTypeOK
<1>3. UNCHANGED <<shape.messages, shape.replica_accounts, shape.replicas>> =>
        /\ InLine(shape)' = InLine(shape) /\ OutOfLine(shape)' = OutOfLine(shape) /\ AlignedTables' = AlignedTables
  BY DEF InLine, OutOfLine, AlignedTables
<1>4. OutOfLine(shape) => ~InLine(shape) BY DEF InLine, OutOfLine
<1>5. AlignedTables = c.seen /\ InLine(shape) => ~OutOfLine(c.seen)
  BY <1>2, <1>4, AlignedFacts
<1>6. /\ c.at \in Aligning \cup Readied => InLine(shape)' \/ OutOfLine(shape)'
      /\ c.at = "columns" /\ c.phase \in {"batch", "recheck"} =>
           \/ /\ InLine(c.seen) /\ InLine(shape)'
              /\ "replica_id" \in shape'.replicas => "replica_id" \in c.seen["replicas"]
           \/ OutOfLine(c.seen) /\ (InLine(shape)' \/ AlignedTables' = c.seen)
  <2>1. CASE InLine(shape)
    <3>1. "replica_id" \in shape'.replicas => "replica_id" \in shape.replicas BY <2>1 DEF Forward
    <3> QED BY <1>1, <2>1, <3>1 DEF Forward, Progress
  <2>2. CASE ~InLine(shape) /\ OutOfLine(shape)
    BY <1>1, <1>3, <2>2 DEF Forward, Progress
  <2>3. CASE ~InLine(shape) /\ ~OutOfLine(shape)
    BY <1>1, <2>3 DEF Progress, Aligning
  <2> QED BY <2>1, <2>2, <2>3
<1> HIDE DEF c
<1>7. Progress(c)'
  <2>1. c'.at = c.at /\ c'.phase = c.phase /\ c'.seen = c.seen BY <1>1
  <2> QED BY <1>1, <1>2, <1>6, <2>1 DEF Progress, Forward, Aligning, Readied, InLine
<1> QED BY <1>7 DEF c

(* So it does for all the others of the step.                              *)
LEMMA OthersStay ==
    ASSUME OpeningInv, Forward, NEW s \in SqlStores, OpeningTypeOK', \A x \in SqlStores \ {s} : sqlStore'[x] = sqlStore[x],
           Progress(sqlStore[s])'
    PROVE  ProgressInv'
<1>1. resets' \in Nat BY DEF OpeningTypeOK
<1>2. ASSUME NEW x \in SqlStores, x # s PROVE Progress(sqlStore[x])'
  BY <1>1, <1>2, ForwardKeeps
<1>3. \A x \in SqlStores : Progress(sqlStore[x])' BY <1>2
<1> QED BY <1>3 DEF ProgressInv

(* The store of the step has gone on, and no other moved.                  *)
LEMMA GoneOn ==
    ASSUME OpeningTypeOK, NEW s \in SqlStores, NEW at \in Places, NEW phase \in {"none", "read", "batch"}, Goto(s, at, phase)
    PROVE  /\ sqlStore' \in [SqlStores -> Openers] /\ \A x \in SqlStores \ {s} : sqlStore'[x] = sqlStore[x]
           /\ sqlStore'[s].at = at /\ sqlStore'[s].phase = phase /\ sqlStore'[s].seen = Nil /\ sqlStore'[s].keys = sqlStore[s].keys
<1>1. PICK c \in Openers : /\ sqlStore' = [sqlStore EXCEPT ![s] = c]
                           /\ c.at = at /\ c.phase = phase /\ c.seen = Nil /\ c.keys = sqlStore[s].keys
  <2>1. phase \in {"none", "read", "batch", "recheck"} OBVIOUS
  <2> QED BY <2>1, GotoFacts
<1>2. sqlStore \in [SqlStores -> Openers] BY DEF OpeningTypeOK
<1> QED BY <1>1, <1>2

(* The keys stand under a step that leaves them.                           *)
LEMMA KeysStay ==
    ASSUME OpeningInv, NEW s \in SqlStores, \A x \in SqlStores \ {s} : sqlStore'[x] = sqlStore[x],
           sqlStore'[s].keys = sqlStore[s].keys, sqlStore'[s].at # "winner", stored' = stored
    PROVE  KeysInv'
BY DEF OpeningInv, KeysInv, KeysRight

(* A step that charges nobody keeps the account.                           *)
LEMMA ChargedLess ==
    ASSUME OpeningInv, NEW s \in SqlStores, Charged' \subseteq Charged, UNCHANGED <<failures, throws, resets>>
    PROVE  ChargeInv'
BY ChargeKeeps DEF OpeningInv

(* The former blobs table is dropped; if it was the present one by then,   *)
(* every other store may throw for it.                                     *)
LEMMA DropOldBlobTablesKeeps ==
    ASSUME OpeningInv, NEW s \in SqlStores, DropOldBlobTables(s) PROVE OpeningInv'
<1> USE DEF OpeningInv
<1>0. OpeningTypeOK /\ Goto(s, "schema", "batch") /\ "schema" \in Places BY DEF DropOldBlobTables, Places
<1>1. /\ sqlStore' \in [SqlStores -> Openers] /\ \A x \in SqlStores \ {s} : sqlStore'[x] = sqlStore[x]
      /\ sqlStore'[s].at = "schema" /\ sqlStore'[s].phase = "batch" /\ sqlStore'[s].seen = Nil /\ sqlStore'[s].keys = sqlStore[s].keys
  BY <1>0, GoneOn
<1>2. /\ shape' \in [Tables -> (SUBSET Columns) \cup {Nil}] /\ shape'.blobs = Nil
      /\ \A t \in Tables \ {"blobs"} : shape'[t] = shape[t]
  BY <1>0, TablesNamed DEF DropOldBlobTables, OpeningTypeOK
<1>3. /\ resets' = resets + (IF shape.blobs = {"owner_did"} THEN 1 ELSE 0) /\ resets \in Nat
      /\ UNCHANGED <<stored, written, failures, throws>>
  BY <1>0, TablesNamed DEF DropOldBlobTables, OpeningTypeOK
<1>4. /\ rows' \in [Kept \cup {"ended_blobs"} -> SUBSET Nat] /\ rows'.blobs = {}
      /\ rows'.replicas = rows.replicas /\ rows'.packages = rows.packages /\ rows'.ended_blobs = rows.ended_blobs
  BY <1>0, TablesNamed DEF DropOldBlobTables, OpeningTypeOK
<1>5. OpeningTypeOK' BY <1>0, <1>1, <1>2, <1>3, <1>4 DEF OpeningTypeOK
<1>6. Nil # {"hash"} /\ Nil # {"owner_did"} BY OpeningAssumption DEF Columns
<1>7. ShapeInv' BY <1>2, TablesNamed DEF ShapeInv, InLine, OutOfLine
<1>8. Forward BY <1>2, <1>3, <1>6, TablesNamed DEF Forward, InLine, OutOfLine
<1>9. Progress(sqlStore[s])' BY <1>1, <1>2, <1>6 DEF Progress, Aligning, Readied
<1>10. ProgressInv' BY <1>1, <1>5, <1>8, <1>9, OthersStay
<1>11. RowsInv' BY <1>2, <1>3, <1>4, <1>6, TablesNamed DEF RowsInv
<1>12. KeysInv' BY <1>1, <1>3, KeysStay
<1>13. ~WillThrow(sqlStore[s])' BY <1>1 DEF WillThrow, Aligning
<1>14. ChargeInv'
  <2>1. CASE shape.blobs = {"owner_did"}
    <3>1. s \notin Charged' BY <1>13 DEF Charged
    <3> QED BY <1>0, <1>3, <2>1, <3>1, ChargeReset
  <2>2. CASE shape.blobs # {"owner_did"}
    <3>1. ASSUME NEW x \in SqlStores, x # s, WillThrow(sqlStore[x])' PROVE WillThrow(sqlStore[x])
      <4>1. sqlStore'[x] = sqlStore[x] /\ Progress(sqlStore[x]) BY <1>1, <3>1, StoreIsOpener
      <4>2. AlignedTables' = AlignedTables BY <1>2, TablesNamed DEF AlignedTables
      <4>3. sqlStore[x].at \in Aligning BY <3>1, <4>1 DEF WillThrow, Aligning
      <4>4. shape.blobs # {"hash"} BY <4>1, <4>3 DEF Progress, Aligning
      <4>5. shape.blobs = Nil BY <2>2, <4>4 DEF ShapeInv
      <4> QED BY <4>3, <4>5 DEF WillThrow
    <3>2. Charged' \subseteq Charged BY <1>13, <3>1 DEF Charged
    <3> QED BY <1>3, <2>2, <3>2, ChargedLess
  <2> QED BY <2>1, <2>2
<1> QED BY <1>5, <1>7, <1>10, <1>11, <1>12, <1>14

(* The tables that lack are made.                                          *)
LEMMA SchemaKeeps ==
    ASSUME OpeningInv, NEW s \in SqlStores, Schema(s) PROVE OpeningInv'
<1> USE DEF OpeningInv
<1>0. OpeningTypeOK /\ Goto(s, "columns", "read") /\ "columns" \in Places /\ sqlStore[s].at = "schema" BY DEF Schema, Places, OpenerAt
<1>1. /\ sqlStore' \in [SqlStores -> Openers] /\ \A x \in SqlStores \ {s} : sqlStore'[x] = sqlStore[x]
      /\ sqlStore'[s].at = "columns" /\ sqlStore'[s].phase = "read" /\ sqlStore'[s].seen = Nil /\ sqlStore'[s].keys = sqlStore[s].keys
  BY <1>0, GoneOn
<1>2. UNCHANGED <<rows, stored, resets, written, failures, throws>> BY DEF Schema
<1>3. \A t \in Tables : shape'[t] = IF shape[t] = Nil /\ t # "ended_blobs" THEN Current[t] ELSE shape[t]
  BY DEF Schema
<1>4. shape' \in [Tables -> (SUBSET Columns) \cup {Nil}]
  <2>1. \A t \in Tables : Current[t] \in SUBSET Columns BY TablesNamed DEF Columns
  <2> QED BY <1>0, <2>1 DEF Schema, OpeningTypeOK
<1>5. OpeningTypeOK' BY <1>0, <1>1, <1>2, <1>4 DEF OpeningTypeOK
<1>6. Nil # {"hash"} /\ Nil # {"owner_did"} /\ Nil # {} /\ Nil # {"forward_id"} /\ Nil # {"registration"} /\ Nil # {"removed_at"}
      /\ Nil # {"next_did", "forward_id"} /\ Nil # {"replica_id", "removed_at"} /\ Nil # {"mediation_id"} /\ Nil # {"replica_id"}
  BY OpeningAssumption DEF Columns
<1>7. /\ shape'.messages = IF shape.messages = Nil THEN {} ELSE shape.messages
      /\ shape'.replica_accounts = IF shape.replica_accounts = Nil THEN {"registration"} ELSE shape.replica_accounts
      /\ shape'.replicas = IF shape.replicas = Nil THEN {"removed_at"} ELSE shape.replicas
      /\ shape'.packages = IF shape.packages = Nil THEN {} ELSE shape.packages
      /\ shape'.blobs = IF shape.blobs = Nil THEN {"owner_did"} ELSE shape.blobs
      /\ shape'.ended_blobs = shape.ended_blobs
  BY <1>3, TablesNamed
<1>8. InLine(shape)' \/ OutOfLine(shape)'
  BY <1>6, <1>7 DEF ShapeInv, InLine, OutOfLine
<1>9. ShapeInv' BY <1>7, <1>8 DEF ShapeInv
<1>10. InLine(shape) \/ OutOfLine(shape) => UNCHANGED <<shape.messages, shape.replica_accounts, shape.replicas>>
  BY <1>6, <1>7 DEF InLine, OutOfLine
<1>11. Forward BY <1>2, <1>6, <1>7, <1>10, <1>5 DEF Forward, InLine, OutOfLine, OpeningTypeOK
<1>12. shape.blobs # {"hash"} BY <1>0, StoreIsOpener DEF Progress
<1>13. shape'.blobs = {"owner_did"} /\ shape'.packages # Nil BY <1>6, <1>7, <1>12 DEF ShapeInv
<1>14. Progress(sqlStore[s])' BY <1>1, <1>8, <1>13 DEF Progress, Aligning, Readied
<1>15. ProgressInv' BY <1>1, <1>5, <1>11, <1>14, OthersStay
<1>16. RowsInv'
  <2>1. resets = 0 /\ shape'.blobs # {"owner_did"} => written.blobs = {} BY <1>13
  <2> QED BY <1>2, <1>7, <2>1 DEF RowsInv
<1>17. KeysInv' BY <1>1, <1>2, KeysStay
<1>18. ~WillThrow(sqlStore[s])' BY <1>1, <1>6, <1>13 DEF WillThrow
<1>19. ASSUME NEW x \in SqlStores, x # s, WillThrow(sqlStore[x])' PROVE WillThrow(sqlStore[x])
  <2>1. sqlStore'[x] = sqlStore[x] /\ Progress(sqlStore[x]) BY <1>1, <1>19, StoreIsOpener
  <2>2. sqlStore[x].at \in Aligning BY <1>19, <2>1 DEF WillThrow, Aligning
  <2>3. InLine(shape) \/ OutOfLine(shape) BY <2>1, <2>2 DEF Progress
  <2>4. AlignedTables' = AlignedTables BY <1>10, <2>3 DEF AlignedTables
  <2>5. shape'.packages = shape.packages /\ shape'.replicas = shape.replicas BY <1>7, <1>10, <2>1, <2>2, <2>3 DEF Progress
  <2>6. Due(sqlStore[x].at)' => Due(sqlStore[x].at) \/ sqlStore[x].at = "columns"
    BY <1>7, <2>1, <2>2, <2>5 DEF Due, Aligning
  <2> QED BY <1>6, <1>13, <1>19, <2>1, <2>4, <2>6 DEF WillThrow
<1>20. Charged' \subseteq Charged BY <1>18, <1>19 DEF Charged
<1>21. ChargeInv' BY <1>2, <1>20, ChargedLess
<1> QED BY <1>5, <1>9, <1>15, <1>16, <1>17, <1>21

(* What a batch of AlignColumns adds and drops, table by table.            *)
LEMMA AlignResult ==
    ASSUME OpeningTypeOK, NEW seen, InLine(seen) \/ OutOfLine(seen)
    PROVE  /\ InLine(seen) => \A t \in {"messages", "replicas", "replica_accounts"} : Aligned(t, seen) = shape[t]
           /\ OutOfLine(seen) /\ AlignedTables = seen =>
                /\ Aligned("messages", seen) = {} /\ Aligned("replica_accounts", seen) = {"registration"}
                /\ "removed_at" \in seen["replicas"] => Aligned("replicas", seen) = {"removed_at"}
                /\ "removed_at" \notin seen["replicas"] => Aligned("replicas", seen) = {"replica_id", "removed_at"}
           /\ OutOfLine(seen) /\ Applies(seen) => ~InLine(shape)
<1> DEFINE A == <<"replicas", "removed_at">>
           B == <<"replica_accounts", "registration">>
           C == <<"replica_accounts", "mediation_id">>
           D == <<"messages", "next_did">>
           E == <<"messages", "forward_id">>
<1>1. \A c \in LaterColumns : c = A \/ c = B BY DEF LaterColumns
<1>2. \A c \in FormerColumns : c = C \/ c = D \/ c = E BY DEF FormerColumns
<1>3. CASE InLine(seen)
  <2>1. Adds(seen) = {} BY <1>1, <1>3 DEF Adds, InLine
  <2>2. Drops(seen) = {} BY <1>2, <1>3 DEF Drops, InLine
  <2>3. \A t : Aligned(t, seen) = (shape[t] \cup {}) \ {} BY <2>1, <2>2 DEF Aligned
  <2>4. \A t : (shape[t] \cup {}) \ {} = shape[t] OBVIOUS
  <2>5. ~OutOfLine(seen) BY <1>3 DEF InLine, OutOfLine
  <2> QED BY <2>3, <2>4, <2>5
<1>4. CASE OutOfLine(seen)
  <2>1. ~InLine(seen) BY <1>4 DEF InLine, OutOfLine
  <2>2. D \in Drops(seen) /\ E \in Drops(seen) BY <1>4 DEF Drops, OutOfLine, FormerColumns
  <2>3. Applies(seen) => "next_did" \in shape["messages"] BY <2>2 DEF Applies
  <2>4. Applies(seen) => ~InLine(shape) BY <2>3 DEF InLine
  <2>5. ASSUME AlignedTables = seen
        PROVE  /\ shape["messages"] = seen["messages"] /\ shape["replicas"] = seen["replicas"]
               /\ shape["replica_accounts"] = seen["replica_accounts"]
    BY <2>5, AlignedFacts
  <2>6. ASSUME AlignedTables = seen PROVE Aligned("messages", seen) = {}
    <3>1. {c[2] : c \in {x \in Adds(seen) : x[1] = "messages"}} = {} BY <1>1 DEF Adds
    <3>2. "next_did" \in {c[2] : c \in {x \in Drops(seen) : x[1] = "messages"}}
          /\ "forward_id" \in {c[2] : c \in {x \in Drops(seen) : x[1] = "messages"}}
      BY <2>2
    <3>3. shape["messages"] = {"next_did", "forward_id"} BY <1>4, <2>5, <2>6 DEF OutOfLine
    <3> QED BY <3>1, <3>2, <3>3 DEF Aligned
  <2>7. ASSUME AlignedTables = seen PROVE Aligned("replica_accounts", seen) = {"registration"}
    <3>1. CASE seen["replica_accounts"] = {"registration"}
      <4>1. {c[2] : c \in {x \in Adds(seen) : x[1] = "replica_accounts"}} = {} BY <1>1, <3>1 DEF Adds
      <4>2. {c[2] : c \in {x \in Drops(seen) : x[1] = "replica_accounts"}} = {} BY <1>2, <3>1 DEF Drops
      <4> QED BY <2>5, <2>7, <3>1, <4>1, <4>2 DEF Aligned
    <3>2. CASE seen["replica_accounts"] = {"mediation_id"}
      <4>1. {c[2] : c \in {x \in Adds(seen) : x[1] = "replica_accounts"}} = {"registration"}
        <5>1. B \in Adds(seen) BY <3>2 DEF Adds, LaterColumns
        <5> QED BY <1>1, <5>1 DEF Adds
      <4>2. {c[2] : c \in {x \in Drops(seen) : x[1] = "replica_accounts"}} = {"mediation_id"}
        <5>1. C \in Drops(seen) BY <3>2 DEF Drops, FormerColumns
        <5> QED BY <1>2, <5>1 DEF Drops
      <4> QED BY <2>5, <2>7, <3>2, <4>1, <4>2 DEF Aligned
    <3> QED BY <1>4, <3>1, <3>2 DEF OutOfLine
  <2>8. ASSUME AlignedTables = seen
        PROVE  /\ "removed_at" \in seen["replicas"] => Aligned("replicas", seen) = {"removed_at"}
               /\ "removed_at" \notin seen["replicas"] => Aligned("replicas", seen) = {"replica_id", "removed_at"}
    <3>1. {c[2] : c \in {x \in Drops(seen) : x[1] = "replicas"}} = {} BY <1>2 DEF Drops
    <3>2. CASE seen["replicas"] = {"removed_at"}
      <4>1. {c[2] : c \in {x \in Adds(seen) : x[1] = "replicas"}} = {} BY <1>1, <3>2 DEF Adds
      <4> QED BY <2>5, <2>8, <3>1, <3>2, <4>1 DEF Aligned
    <3>3. CASE seen["replicas"] = {"replica_id"}
      <4>1. {c[2] : c \in {x \in Adds(seen) : x[1] = "replicas"}} = {"removed_at"}
        <5>1. A \in Adds(seen) BY <3>3 DEF Adds, LaterColumns
        <5> QED BY <1>1, <5>1 DEF Adds
      <4> QED BY <2>5, <2>8, <3>1, <3>3, <4>1 DEF Aligned
    <3> QED BY <1>4, <3>2, <3>3 DEF OutOfLine
  <2> QED BY <2>1, <2>4, <2>6, <2>7, <2>8
<1> QED BY <1>3, <1>4

(* The columns are brought up to date, or were by another store.           *)
LEMMA AlignKeeps ==
    ASSUME OpeningInv, NEW s \in SqlStores, Align(s) PROVE OpeningInv'
<1> USE DEF OpeningInv
<1> DEFINE seen == sqlStore[s].seen
<1>0. sqlStore[s].at = "columns" /\ sqlStore[s].phase = "batch" BY DEF Align, OpenerAt
<1>a. (InLine(seen) /\ InLine(shape)) \/ (OutOfLine(seen) /\ (InLine(shape) \/ AlignedTables = seen))
  BY <1>0, StoreIsOpener DEF Progress
<1>1. CASE ~Applies(seen)
  <2>1. ~(InLine(seen) /\ AlignedTables = seen) /\ ~(OutOfLine(seen) /\ AlignedTables = seen)
    <3>1. CASE InLine(seen)
      <4>1. Adds(seen) = {} BY <3>1 DEF Adds, InLine, LaterColumns
      <4>2. Drops(seen) = {} BY <3>1 DEF Drops, InLine, FormerColumns
      <4> QED BY <1>1, <4>1, <4>2 DEF Applies
    <3>2. CASE AlignedTables = seen
      <4>1. \A c \in LaterColumns \cup FormerColumns : seen[c[1]] = shape[c[1]]
        BY <3>2, AlignedFacts DEF LaterColumns, FormerColumns
      <4> QED BY <1>1, <4>1 DEF Applies, Adds, Drops
    <3> QED BY <3>1, <3>2
  <2>2. AlignedTables # seen BY <1>a, <2>1
  <2>3. Misses(s) /\ UNCHANGED <<Contents, throws>> /\ failures' = failures BY <1>1 DEF Align, Contents
  <2> HIDE DEF OpeningInv
  <2> QED BY <1>0, <2>2, <2>3, MissKeeps DEF Aligning
<1>2. CASE Applies(seen)
  <2>0. OpeningTypeOK /\ Goto(s, "replicas", "read") /\ "replicas" \in Places BY <1>2 DEF Align, Places
  <2>1. /\ sqlStore' \in [SqlStores -> Openers] /\ \A x \in SqlStores \ {s} : sqlStore'[x] = sqlStore[x]
        /\ sqlStore'[s].at = "replicas" /\ sqlStore'[s].phase = "read" /\ sqlStore'[s].seen = Nil /\ sqlStore'[s].keys = sqlStore[s].keys
    BY <2>0, GoneOn
  <2>2. UNCHANGED <<rows, stored, resets, written, failures, throws>> BY DEF Align
  <2>3. /\ shape' = [t \in Tables |-> IF t \in {"messages", "replicas", "replica_accounts"} THEN Aligned(t, seen) ELSE shape[t]]
    BY <1>2 DEF Align, AlignedTables
  <2>4. /\ shape'.messages = Aligned("messages", seen) /\ shape'.replica_accounts = Aligned("replica_accounts", seen)
        /\ shape'.replicas = Aligned("replicas", seen)
        /\ shape'.packages = shape.packages /\ shape'.blobs = shape.blobs /\ shape'.ended_blobs = shape.ended_blobs
    BY <2>3, TablesNamed
  <2>5. \/ InLine(seen) /\ InLine(shape) /\ UNCHANGED <<shape.messages, shape.replica_accounts, shape.replicas>>
        \/ OutOfLine(seen) /\ AlignedTables = seen /\ ~InLine(shape)
           /\ shape'.messages = {} /\ shape'.replica_accounts = {"registration"}
           /\ shape'.replicas \in {{"removed_at"}, {"replica_id", "removed_at"}}
           /\ ("replica_id" \in shape'.replicas => "replica_id" \in shape.replicas)
    <3>1. CASE InLine(seen) BY <1>a, <2>0, <2>4, <3>1, AlignResult DEF InLine, OutOfLine
    <3>2. CASE OutOfLine(seen)
      <4>1. AlignedTables = seen /\ ~InLine(shape) BY <1>a, <1>2, <2>0, <3>2, AlignResult DEF InLine, OutOfLine
      <4>2. seen["replicas"] = shape.replicas BY <2>0, <4>1, AlignedFacts
      <4> QED BY <2>0, <2>4, <3>2, <4>1, <4>2, AlignResult DEF OutOfLine
    <3> QED BY <1>a, <3>1, <3>2
  <2>6. InLine(shape)' BY <2>5 DEF InLine
  <2>7. shape' \in [Tables -> (SUBSET Columns) \cup {Nil}]
    <3>1. \A t \in {"messages", "replicas", "replica_accounts"} : shape'[t] \in SUBSET Columns BY <2>6 DEF InLine, Columns
    <3>2. \A t \in Tables : shape'[t] \in (SUBSET Columns) \cup {Nil} BY <2>0, <2>3, <3>1 DEF OpeningTypeOK
    <3> QED BY <2>3, <3>2
  <2>8. OpeningTypeOK' BY <2>0, <2>1, <2>2, <2>7 DEF OpeningTypeOK
  <2>9. ShapeInv' BY <2>4, <2>6 DEF ShapeInv
  <2>10. Forward
    <3>1. resets \in Nat BY DEF OpeningTypeOK
    <3>2. InLine(shape) => UNCHANGED <<shape.messages, shape.replica_accounts, shape.replicas>> BY <2>5
    <3> QED BY <2>2, <2>4, <2>6, <3>1, <3>2 DEF Forward
  <2>11. Progress(sqlStore[s]) /\ sqlStore[s].at = "columns" BY <1>0, StoreIsOpener
  <2>12. Progress(sqlStore[s])' BY <2>1, <2>2, <2>4, <2>6, <2>11 DEF Progress, Aligning, Readied
  <2>13. ProgressInv' BY <2>1, <2>8, <2>10, <2>12, OthersStay
  <2>14. RowsInv' BY <2>2, <2>4 DEF RowsInv
  <2>15. KeysInv' BY <2>1, <2>2, KeysStay
  <2>16. WillThrow(sqlStore[s])' => WillThrow(sqlStore[s]) BY <1>0, <2>1, <2>4 DEF WillThrow, Aligning
  <2>17. ASSUME NEW x \in SqlStores, x # s, WillThrow(sqlStore[x])' PROVE WillThrow(sqlStore[x])
    <3>1. sqlStore'[x] = sqlStore[x] /\ Progress(sqlStore[x]) BY <2>1, <2>17, StoreIsOpener
    <3>2. sqlStore[x].at \in Aligning BY <2>17, <3>1 DEF WillThrow, Aligning
    <3>3. InLine(shape) => AlignedTables' = AlignedTables BY <2>5 DEF AlignedTables
    <3>4. CASE InLine(shape)
      <4>1. shape'.replicas = shape.replicas BY <2>5, <3>4
      <4>2. Due(sqlStore[x].at)' => Due(sqlStore[x].at) \/ sqlStore[x].at = "columns" BY <2>4, <3>1, <3>2, <4>1 DEF Due, Aligning
      <4> QED BY <2>4, <2>17, <3>1, <3>3, <3>4, <4>2 DEF WillThrow
    <3>5. CASE ~InLine(shape)
      <4>1. sqlStore[x].at = "columns" BY <3>1, <3>2, <3>5 DEF Progress
      <4>2. CASE shape.blobs = Nil BY <3>2, <4>2 DEF WillThrow
      <4>3. CASE shape.blobs # Nil
        <5>1. sqlStore[x].phase = "recheck" /\ AlignedTables' = sqlStore[x].seen
          BY <2>4, <2>17, <3>1, <4>1, <4>3 DEF WillThrow
        <5>2. OutOfLine(sqlStore[x].seen) BY <3>1, <3>5, <4>1, <5>1 DEF Progress
        <5>3. InLine(sqlStore[x].seen)
          <6>1. InLine(AlignedTables)' = InLine(shape)' BY DEF InLine, AlignedTables
          <6> QED BY <2>6, <5>1, <6>1 DEF InLine
        <5> QED BY <5>2, <5>3 DEF InLine, OutOfLine
      <4> QED BY <4>2, <4>3
    <3> QED BY <3>4, <3>5
  <2>18. Charged' \subseteq Charged BY <2>16, <2>17 DEF Charged
  <2>19. ChargeInv' BY <2>2, <2>18, ChargedLess
  <2> QED BY <2>8, <2>9, <2>13, <2>14, <2>15, <2>19
<1> QED BY <1>1, <1>2

(* A table is made anew, or was by another store.                          *)
LEMMA RebuildKeeps ==
    ASSUME OpeningInv, NEW s \in SqlStores, NEW t \in {"replicas", "packages"}, Rebuild(s, t)
    PROVE  OpeningInv'
<1> USE DEF OpeningInv
<1>0. sqlStore[s].at = t /\ sqlStore[s].phase = "batch" /\ sqlStore[s].at \in Aligning /\ OpeningTypeOK BY DEF Rebuild, OpenerAt, Aligning
<1>a. Progress(sqlStore[s]) BY StoreIsOpener
<1>b. InLine(shape) /\ shape.packages # Nil BY <1>0, <1>a DEF Progress, Aligning
<1>1. CASE ~Due(t)
  <2>1. Misses(s) /\ UNCHANGED <<Contents, throws>> /\ failures' = failures BY <1>1 DEF Rebuild, Contents
  <2> HIDE DEF OpeningInv
  <2> QED BY <1>0, <1>1, <2>1, MissKeeps
<1>2. CASE Due(t)
  <2>0. UNCHANGED <<rows, stored, resets, written, failures, throws>> BY DEF Rebuild
  <2>1. \E at \in Places : at # "winner" /\ at # "columns" /\ Goto(s, at, "read") /\ at \in Aligning \ {"columns"}
          /\ at = After(t)[1]
    <3>1. After("replicas") = <<"packages", "read">> /\ After("packages") = <<"ended_blobs", "read">> BY DEF After
    <3> QED BY <1>2, <3>1 DEF Rebuild, Places, Aligning
  <2>2. PICK at \in Places : at # "winner" /\ at # "columns" /\ Goto(s, at, "read") /\ at \in Aligning \ {"columns"}
          /\ at = After(t)[1]
    BY <2>1
  <2>3. /\ sqlStore' \in [SqlStores -> Openers] /\ \A x \in SqlStores \ {s} : sqlStore'[x] = sqlStore[x]
        /\ sqlStore'[s].at = at /\ sqlStore'[s].phase = "read" /\ sqlStore'[s].seen = Nil /\ sqlStore'[s].keys = sqlStore[s].keys
    BY <1>0, <2>2, GoneOn
  <2>4. shape' = [shape EXCEPT ![t] = Current[t]] BY <1>2 DEF Rebuild
  <2>5. /\ shape' \in [Tables -> (SUBSET Columns) \cup {Nil}]
        /\ shape'.messages = shape.messages /\ shape'.replica_accounts = shape.replica_accounts
        /\ shape'.blobs = shape.blobs /\ shape'.ended_blobs = shape.ended_blobs
        /\ shape'.replicas = (IF t = "replicas" THEN {"removed_at"} ELSE shape.replicas)
        /\ shape'.packages = (IF t = "packages" THEN {} ELSE shape.packages)
    <3>1. Current[t] \in SUBSET Columns BY TablesNamed DEF Columns
    <3> QED BY <1>0, <2>4, <3>1, TablesNamed DEF OpeningTypeOK
  <2>6. InLine(shape)' BY <1>b, <2>5 DEF InLine
  <2>7. OpeningTypeOK' BY <1>0, <2>0, <2>3, <2>5 DEF OpeningTypeOK
  <2>8. ShapeInv' BY <2>5, <2>6 DEF ShapeInv
  <2>9. {} # Nil BY OpeningAssumption
  <2>10. Forward
    <3>1. resets \in Nat BY <1>0 DEF OpeningTypeOK
    <3>2. "replica_id" \notin shape.replicas => "replica_id" \notin shape'.replicas BY <2>5
    <3> QED BY <2>0, <2>5, <2>6, <2>9, <3>1, <3>2 DEF Forward
  <2>11. Progress(sqlStore[s])'
    <3>1. CASE t = "replicas"
      <4>1. at = "packages" BY <2>2, <3>1 DEF After
      <4>2. "replica_id" \notin shape'.replicas BY <2>5, <3>1
      <4> QED BY <1>0, <1>a, <2>0, <2>3, <2>5, <2>6, <2>9, <3>1, <4>1, <4>2 DEF Progress, Aligning, Readied
    <3>2. CASE t = "packages"
      <4>1. at = "ended_blobs" BY <2>2, <3>2 DEF After
      <4>2. "replica_id" \notin shape'.replicas BY <1>0, <1>a, <2>5, <3>2 DEF Progress
      <4> QED BY <1>0, <1>a, <2>0, <2>3, <2>5, <2>6, <2>9, <3>2, <4>1, <4>2 DEF Progress, Aligning, Readied
    <3> QED BY <3>1, <3>2
  <2>12. ProgressInv' BY <2>3, <2>7, <2>10, <2>11, OthersStay
  <2>13. RowsInv' BY <2>0, <2>5 DEF RowsInv
  <2>14. KeysInv' BY <2>0, <2>2, <2>3, KeysStay
  <2>15. WillThrow(sqlStore[s])' => WillThrow(sqlStore[s]) BY <1>0, <2>3, <2>5 DEF WillThrow
  <2>16. ASSUME NEW x \in SqlStores, x # s, WillThrow(sqlStore[x])' PROVE WillThrow(sqlStore[x])
    <3>1. sqlStore'[x] = sqlStore[x] /\ Progress(sqlStore[x]) BY <2>3, <2>16, StoreIsOpener
    <3>2. sqlStore[x].at \in Aligning BY <2>16, <3>1 DEF WillThrow, Aligning
    <3>3. Due(sqlStore[x].at)' => Due(sqlStore[x].at) \/ sqlStore[x].at = "columns" BY <2>5, <3>1, <3>2 DEF Due, Aligning
    <3>4. CASE sqlStore[x].at = "columns" /\ shape.blobs # Nil
      <4>1. sqlStore[x].phase = "recheck" /\ AlignedTables' = sqlStore[x].seen
        BY <2>5, <2>16, <3>1, <3>4 DEF WillThrow
      <4>2. InLine(sqlStore[x].seen)
        <5>1. InLine(AlignedTables)' = InLine(shape)' BY DEF InLine, AlignedTables
        <5> QED BY <2>6, <4>1, <5>1 DEF InLine
      <4>3. "replica_id" \in shape.replicas => "replica_id" \in sqlStore[x].seen["replicas"]
        BY <3>1, <3>4, <4>1, <4>2 DEF Progress, InLine, OutOfLine
      <4>4. sqlStore[x].seen["replicas"] = shape'.replicas BY <4>1 DEF AlignedTables
      <4>5. shape'.replicas = shape.replicas
        <5>1. CASE t = "replicas"
          <6>1. "replica_id" \in shape.replicas BY <1>2, <5>1 DEF Due
          <6> QED BY <2>5, <4>3, <4>4, <5>1, <6>1
        <5> QED BY <2>5, <5>1
      <4>6. AlignedTables' = AlignedTables BY <2>5, <4>5 DEF AlignedTables
      <4> QED BY <3>4, <4>1, <4>6 DEF WillThrow
    <3> QED BY <2>5, <2>16, <3>1, <3>2, <3>3, <3>4 DEF WillThrow
  <2>17. Charged' \subseteq Charged BY <2>15, <2>16 DEF Charged
  <2>18. ChargeInv' BY <2>0, <2>17, ChargedLess
  <2> QED BY <2>7, <2>8, <2>12, <2>13, <2>14, <2>18
<1> QED BY <1>1, <1>2

(* The ended blobs come, and the blobs of nobody's leave.                  *)
LEMMA CreateEndedBlobsKeeps ==
    ASSUME OpeningInv, NEW s \in SqlStores, CreateEndedBlobs(s) PROVE OpeningInv'
<1> USE DEF OpeningInv
<1>0. sqlStore[s].at = "ended_blobs" /\ sqlStore[s].phase = "batch" /\ sqlStore[s].at \in Aligning /\ OpeningTypeOK
  BY DEF CreateEndedBlobs, OpenerAt, Aligning
<1>1. CASE ~(Due("ended_blobs") /\ shape.blobs # Nil)
  <2>1. Misses(s) /\ UNCHANGED <<Contents, throws>> /\ failures' = failures BY <1>1 DEF CreateEndedBlobs, Contents
  <2> HIDE DEF OpeningInv
  <2> QED BY <1>0, <1>1, <2>1, MissKeeps
<1>2. CASE Due("ended_blobs") /\ shape.blobs # Nil
  <2>0. UNCHANGED <<stored, resets, written, failures, throws>> /\ Goto(s, "ready", "none") /\ "ready" \in Places
    BY <1>2 DEF CreateEndedBlobs, Places
  <2>1. /\ sqlStore' \in [SqlStores -> Openers] /\ \A x \in SqlStores \ {s} : sqlStore'[x] = sqlStore[x]
        /\ sqlStore'[s].at = "ready" /\ sqlStore'[s].phase = "none" /\ sqlStore'[s].seen = Nil /\ sqlStore'[s].keys = sqlStore[s].keys
    BY <1>0, <2>0, GoneOn
  <2>2. /\ shape' \in [Tables -> (SUBSET Columns) \cup {Nil}] /\ shape'.ended_blobs = {}
        /\ \A t \in Tables \ {"ended_blobs"} : shape'[t] = shape[t]
    BY <1>0, <1>2, TablesNamed DEF CreateEndedBlobs, OpeningTypeOK
  <2>3. shape.ended_blobs = Nil /\ {} # Nil BY <1>2, OpeningAssumption DEF Due
  <2>4. /\ rows' \in [Kept \cup {"ended_blobs"} -> SUBSET Nat]
        /\ rows'.blobs = rows.blobs \ {0} /\ rows'.ended_blobs = rows.blobs \cap {0}
        /\ rows'.replicas = rows.replicas /\ rows'.packages = rows.packages
    <3> DEFINE left == rows.blobs \ Ownerless
               given == rows.blobs \cap Ownerless
    <3>1. rows' = [rows EXCEPT !.blobs = left, !.ended_blobs = given] BY <1>2 DEF CreateEndedBlobs
    <3>2. rows \in [Kept \cup {"ended_blobs"} -> SUBSET Nat] BY <1>0 DEF OpeningTypeOK
    <3>3. {"blobs", "ended_blobs", "replicas", "packages"} = Kept \cup {"ended_blobs"} BY TablesNamed
    <3>4. rows.blobs \in SUBSET Nat BY <3>2, <3>3
    <3>5. left = rows.blobs \ {0} /\ given = rows.blobs \cap {0} /\ left \in SUBSET Nat /\ given \in SUBSET Nat
      BY <3>4 DEF Ownerless
    <3> HIDE DEF left, given
    <3>6. rows' \in [Kept \cup {"ended_blobs"} -> SUBSET Nat] BY <3>1, <3>2, <3>5
    <3>7. rows'.blobs = left /\ rows'.ended_blobs = given /\ rows'.replicas = rows.replicas /\ rows'.packages = rows.packages
      BY <3>1, <3>2, <3>3
    <3> QED BY <3>5, <3>6, <3>7
  <2>5. /\ shape'.messages = shape.messages /\ shape'.replica_accounts = shape.replica_accounts /\ shape'.replicas = shape.replicas
        /\ shape'.packages = shape.packages /\ shape'.blobs = shape.blobs
    BY <2>2, TablesNamed
  <2>6. AlignedTables' = AlignedTables /\ InLine(shape)' = InLine(shape) /\ OutOfLine(shape)' = OutOfLine(shape)
    BY <2>5 DEF AlignedTables, InLine, OutOfLine
  <2>7. OpeningTypeOK' BY <1>0, <2>0, <2>1, <2>2, <2>4 DEF OpeningTypeOK
  <2>8. ShapeInv' BY <2>2, <2>5, <2>6 DEF ShapeInv
  <2>9. Forward
    <3>1. resets \in Nat BY <1>0 DEF OpeningTypeOK
    <3> QED BY <2>0, <2>2, <2>5, <2>6, <3>1 DEF Forward
  <2>10. Progress(sqlStore[s]) BY StoreIsOpener
  <2>11. Progress(sqlStore[s])' BY <1>0, <2>0, <2>1, <2>2, <2>5, <2>6, <2>10 DEF Progress, Aligning, Readied
  <2>12. ProgressInv' BY <2>1, <2>7, <2>9, <2>11, OthersStay
  <2>13. RowsInv' BY <2>0, <2>2, <2>3, <2>4, <2>5 DEF RowsInv
  <2>14. KeysInv' BY <2>0, <2>1, KeysStay
  <2>15. ~WillThrow(sqlStore[s])' BY <2>1 DEF WillThrow, Aligning
  <2>16. ASSUME NEW x \in SqlStores, x # s, WillThrow(sqlStore[x])' PROVE WillThrow(sqlStore[x])
    <3>1. sqlStore'[x] = sqlStore[x] BY <2>1, <2>16
    <3>2. sqlStore[x].at \in Aligning BY <2>16, <3>1 DEF WillThrow, Aligning
    <3>3. Due(sqlStore[x].at)' => Due(sqlStore[x].at) \/ sqlStore[x].at = "columns" BY <2>2, <2>3, <2>5, <3>1, <3>2 DEF Due, Aligning
    <3> QED BY <2>5, <2>6, <2>16, <3>1, <3>3 DEF WillThrow
  <2>17. Charged' \subseteq Charged BY <2>15, <2>16 DEF Charged
  <2>18. ChargeInv' BY <2>0, <2>17, ChargedLess
  <2> QED BY <2>7, <2>8, <2>12, <2>13, <2>14, <2>18
<1> QED BY <1>1, <1>2

(* What the stores have done is not about the rows or the keys.            *)
LEMMA ShapeStays ==
    ASSUME OpeningInv, UNCHANGED <<shape, resets, throws, failures>>, OpeningTypeOK',
           RowsInv', KeysInv', NEW s \in SqlStores,
           \A x \in SqlStores : (sqlStore'[x].seen = sqlStore[x].seen) \/ (sqlStore'[x].at # "columns"),
           \A x \in SqlStores : (sqlStore'[x].at = sqlStore[x].at) \/ ({sqlStore'[x].at, sqlStore[x].at} \subseteq Readied),
           \A x \in SqlStores : sqlStore'[x].phase = sqlStore[x].phase
    PROVE  OpeningInv'
<1> USE DEF OpeningInv
<1>1. ShapeInv' BY DEF ShapeInv, InLine, OutOfLine
<1>2. AlignedTables' = AlignedTables /\ InLine(shape)' = InLine(shape) /\ OutOfLine(shape)' = OutOfLine(shape)
  BY DEF AlignedTables, InLine, OutOfLine
<1>3. ASSUME NEW x \in SqlStores PROVE Progress(sqlStore[x])'
  <2>1. Progress(sqlStore[x]) BY StoreIsOpener
  <2> QED BY <1>2, <2>1 DEF Progress, Aligning, Readied, InLine, OutOfLine
<1>4. ProgressInv' BY <1>3 DEF ProgressInv
<1>5. ASSUME NEW x \in SqlStores, WillThrow(sqlStore[x])' PROVE WillThrow(sqlStore[x])
  <2>1. sqlStore'[x].at \in Aligning BY <1>5 DEF WillThrow, Aligning
  <2>2. sqlStore'[x].at = sqlStore[x].at BY <2>1 DEF Aligning, Readied
  <2>3. Due(sqlStore[x].at)' = Due(sqlStore[x].at) BY <2>2 DEF Due
  <2>4. (sqlStore'[x].at = "columns") => (sqlStore'[x].seen = sqlStore[x].seen) OBVIOUS
  <2>5. sqlStore'[x].phase = sqlStore[x].phase OBVIOUS
  <2>6. AlignedTables' = AlignedTables BY <1>2
  <2> HIDE DEF OpeningInv
  <2> QED BY <1>5, <2>2, <2>3, <2>4, <2>5, <2>6 DEF WillThrow
<1>6. Charged' \subseteq Charged BY <1>5 DEF Charged
<1>7. ChargeInv' BY <1>6, ChargedLess
<1> QED BY <1>1, <1>4, <1>7

(* A store that is ready writes.                                           *)
LEMMA WriteKeeps ==
    ASSUME OpeningInv, NEW s \in SqlStores, NEW t \in Kept, Write(s, t) PROVE OpeningInv'
<1> DEFINE k == Cardinality(written[t]) + 2
<1>0. OpeningTypeOK /\ UNCHANGED <<shape, stored, sqlStore, failures, throws, resets>> BY DEF Write, OpeningInv
<1>1. Cardinality(written[t]) \in Nat BY <1>0, FS_CardinalityType DEF OpeningTypeOK
<1>2. k \in Nat /\ k # 0 BY <1>1
<1>3. rows' = [rows EXCEPT ![t] = @ \cup {k}] /\ written' = [written EXCEPT ![t] = @ \cup {k}]
  BY DEF Write
<1>a. sqlStore[s].at \in Readied /\ Progress(sqlStore[s]) BY StoreIsOpener DEF Write, Readied
<1> HIDE DEF k
<1>4. /\ rows' \in [Kept \cup {"ended_blobs"} -> SUBSET Nat] /\ written' \in [Kept -> SUBSET Nat]
      /\ \A x \in Kept : IsFiniteSet(written'[x])
  <2>1. IsFiniteSet(written[t] \cup {k}) BY <1>0, FS_AddElement DEF OpeningTypeOK
  <2> QED BY <1>0, <1>2, <1>3, <2>1 DEF OpeningTypeOK
<1>5. OpeningTypeOK' BY <1>0, <1>4 DEF OpeningTypeOK
<1>6. RowsInv'
  <2>1. \A x \in Kept : rows'[x] = (IF x = t THEN rows[x] \cup {k} ELSE rows[x]) /\ written'[x] = (IF x = t THEN written[x] \cup {k} ELSE written[x])
    BY <1>0, <1>3 DEF OpeningTypeOK
  <2>2. rows'["ended_blobs"] = rows["ended_blobs"] BY <1>0, <1>3, TablesNamed DEF OpeningTypeOK
  <2>3. resets = 0 => shape.blobs = {"owner_did"} BY <1>a DEF Progress
  <2>4. shape.ended_blobs = {} BY <1>a DEF Progress
  <2>5. RowsInv BY DEF OpeningInv
  <2>6. Nil # {} BY OpeningAssumption
  <2> QED BY <1>0, <1>2, <2>1, <2>2, <2>3, <2>4, <2>5, <2>6, TablesNamed DEF RowsInv
<1>7. KeysInv' BY <1>0 DEF OpeningInv, KeysInv, KeysRight
<1> QED BY <1>0, <1>5, <1>6, <1>7, ShapeStays

(* The first keys minted are stored.                                       *)
LEMMA InitIdentityKeeps ==
    ASSUME OpeningInv, NEW s \in SqlStores, InitIdentity(s) PROVE OpeningInv'
<1>0. /\ OpeningTypeOK /\ Goto(s, "winner", "none") /\ "winner" \in Places /\ sqlStore[s].at = "minted" /\ sqlStore[s].phase = "none"
      /\ UNCHANGED <<shape, rows, resets, written, failures, throws>>
  BY DEF InitIdentity, OpenerAt, OpeningInv, Places
<1>1. /\ sqlStore' \in [SqlStores -> Openers] /\ \A x \in SqlStores \ {s} : sqlStore'[x] = sqlStore[x]
      /\ sqlStore'[s].at = "winner" /\ sqlStore'[s].phase = "none" /\ sqlStore'[s].seen = Nil /\ sqlStore'[s].keys = sqlStore[s].keys
  BY <1>0, GoneOn
<1>2. stored' = (IF stored = Nil THEN s ELSE stored) BY DEF InitIdentity
<1>3. OpeningTypeOK' BY <1>0, <1>1, <1>2 DEF OpeningTypeOK
<1>4. stored' # Nil BY <1>2, OpeningAssumption
<1>5. KeysInv'
  <2>1. ASSUME NEW x \in SqlStores PROVE KeysRight(sqlStore[x])'
    <3>1. KeysRight(sqlStore[x]) BY StoreIsOpener
    <3>2. sqlStore'[x].keys = sqlStore[x].keys BY <1>1
    <3> QED BY <1>2, <1>4, <3>1, <3>2 DEF KeysRight
  <2> QED BY <2>1 DEF KeysInv
<1>6. RowsInv' BY <1>0 DEF OpeningInv, RowsInv
<1> QED BY <1>0, <1>1, <1>3, <1>5, <1>6, ShapeStays DEF Readied

-----------------------------------------------------------------------------
(* A database of any former shape is one the first store may meet.         *)
LEMMA OpeningBegins == ASSUME OpeningInit PROVE OpeningInv
<1>1. Unopened \in Openers /\ Unopened.at = "idle" /\ Unopened.phase = "none" /\ Unopened.keys = Nil BY DEF Unopened, Openers, Places
<1>2. \A s \in SqlStores : sqlStore[s] = Unopened BY DEF OpeningInit
<1>3. shape \in [Tables -> (SUBSET Columns) \cup {Nil}] /\ ShapeInv /\ shape.ended_blobs = Nil
      /\ (shape.blobs = {"owner_did"} \/ shape.blobs = {"hash"} \/ shape.blobs = Nil)
  <2>1. CASE shape = [t \in Tables |-> Nil]
    BY <2>1, TablesNamed DEF ShapeInv
  <2>2. CASE shape = [t \in Tables |-> IF t = "messages" THEN {"next_did", "forward_id"}
                                       ELSE IF t = "blobs" THEN {"hash"} ELSE Nil]
    BY <2>2, TablesNamed DEF ShapeInv, Columns
  <2>3. CASE shape = [Current EXCEPT !.messages = {"next_did", "forward_id"}, !.replica_accounts = {"mediation_id"},
                     !.replicas = {"replica_id"}, !.packages = {"forward_id"}, !.ended_blobs = Nil]
    <3>1. /\ shape.messages = {"next_did", "forward_id"} /\ shape.replica_accounts = {"mediation_id"} /\ shape.replicas = {"replica_id"}
          /\ shape.packages = {"forward_id"} /\ shape.ended_blobs = Nil /\ shape.blobs = {"owner_did"}
      BY <2>3 DEF Current
    <3>2. DOMAIN shape = Tables /\ shape = [t \in Tables |-> shape[t]]
      <4>1. DOMAIN Current = Tables /\ Current = [t \in Tables |-> Current[t]] BY DEF Tables, Current
      <4> QED BY <2>3, <4>1
    <3>3. \A t \in Tables : shape[t] \in (SUBSET Columns) \cup {Nil} BY <3>1, TablesNamed DEF Columns
    <3>4. shape \in [Tables -> (SUBSET Columns) \cup {Nil}] BY <3>2, <3>3
    <3> QED BY <3>1, <3>4 DEF ShapeInv, OutOfLine
  <2>4. CASE shape = [Current EXCEPT !.ended_blobs = Nil]
    <3>1. /\ shape.messages = {} /\ shape.replica_accounts = {"registration"} /\ shape.replicas = {"removed_at"}
          /\ shape.packages = {} /\ shape.ended_blobs = Nil /\ shape.blobs = {"owner_did"}
      BY <2>4 DEF Current
    <3>2. shape \in [Tables -> (SUBSET Columns) \cup {Nil}] BY <2>4, TablesNamed DEF Current, Columns
    <3> QED BY <3>1, <3>2 DEF ShapeInv, InLine
  <2> QED BY <2>1, <2>2, <2>3, <2>4 DEF OpeningInit, Shapes
<1>4. /\ rows = [t \in Kept \cup {"ended_blobs"} |->
                 IF t = "ended_blobs" \/ shape[t] = Nil THEN {} ELSE IF t = "blobs" THEN {0, 1} ELSE {1}]
      /\ written = [t \in Kept |-> IF t = "blobs" /\ shape[t] # {"owner_did"} THEN {} ELSE rows[t]]
  BY DEF OpeningInit
<1>5. \A t \in Kept : rows[t] \in {{}, {1}, {0, 1}} /\ written[t] \in {{}, {1}, {0, 1}} /\ written[t] \subseteq rows[t]
  BY <1>4, TablesNamed
<1>6. rows["ended_blobs"] = {} BY <1>4
<1>7. IsFiniteSet({}) /\ IsFiniteSet({1}) /\ IsFiniteSet({0, 1})
  <2>1. {0, 1} = {1} \cup {0} OBVIOUS
  <2> QED BY <2>1, FS_EmptySet, FS_Singleton, FS_AddElement
<1>8. OpeningTypeOK
  <2>1. \A t \in Kept : IsFiniteSet(written[t]) BY <1>5, <1>7
  <2>2. rows \in [Kept \cup {"ended_blobs"} -> SUBSET Nat] /\ written \in [Kept -> SUBSET Nat]
    <3>1. {} \in SUBSET Nat /\ {1} \in SUBSET Nat /\ {0, 1} \in SUBSET Nat OBVIOUS
    <3> QED BY <1>4, <1>5, <1>6, <3>1
  <2>3. sqlStore \in [SqlStores -> Openers] BY <1>1 DEF OpeningInit
  <2> QED BY <1>3, <2>1, <2>2, <2>3 DEF OpeningInit, OpeningTypeOK
<1>9. ProgressInv BY <1>1, <1>2 DEF ProgressInv, Progress, Aligning, Readied
<1>10. RowsInv
  <2>1. shape.blobs # {"owner_did"} => written.blobs = {} BY <1>4, TablesNamed
  <2> QED BY <1>3, <1>5, <1>6, <2>1, TablesNamed DEF RowsInv
<1>11. KeysInv BY <1>1, <1>2 DEF KeysInv, KeysRight
<1>12. ChargeInv
  <2>1. Charged = {} BY <1>1, <1>2 DEF Charged, WillThrow, Aligning
  <2>2. Cardinality(Charged) = 0 BY <2>1, FS_EmptySet
  <2>3. Cardinality(SqlStores) \in Nat BY FS_CardinalityType, OpeningAssumption
  <2>4. throws = 0 /\ failures = 0 /\ resets = 0 BY DEF OpeningInit
  <2> QED BY <2>2, <2>3, <2>4 DEF ChargeInv
<1> QED BY <1>3, <1>8, <1>9, <1>10, <1>11, <1>12 DEF OpeningInv

(* Every step keeps the invariant.                                         *)
LEMMA OpeningSteps == ASSUME OpeningInv, [OpeningNext]_openingVars PROVE OpeningInv'
<1>1. ASSUME NEW s \in SqlStores, BeginOpening(s) \/ LooksAtBlobs(s) \/ DropOldBlobTables(s) \/ Schema(s) \/ AlignColumns(s)
             \/ Align(s) \/ CreateEndedBlobs(s)
      PROVE  OpeningInv'
  BY <1>1, BeginOpeningKeeps, LooksAtBlobsKeeps, DropOldBlobTablesKeeps, SchemaKeeps, AlignColumnsKeeps, AlignKeeps, CreateEndedBlobsKeeps
<1>2. ASSUME NEW s \in SqlStores, NEW t \in {"replicas", "packages", "ended_blobs"}, Looks(s, t) \/ Rebuild(s, t) \/ Rechecks(s, t)
      PROVE  OpeningInv'
  <2>1. Rebuild(s, t) => t \in {"replicas", "packages"} BY DEF Rebuild
  <2> QED BY <1>2, <2>1, LooksKeeps, RebuildKeeps, RechecksKeeps
<1>3. ASSUME NEW s \in SqlStores, NEW t \in Kept, Write(s, t) PROVE OpeningInv'
  BY <1>3, WriteKeeps
<1>4. ASSUME NEW s \in SqlStores, LoadIdentity(s) \/ InitIdentity(s) \/ Winner(s) \/ Mishap(s) \/ Dies(s) PROVE OpeningInv'
  BY <1>4, LoadIdentityKeeps, InitIdentityKeeps, MishapKeeps, DiesKeeps
<1>5. CASE UNCHANGED openingVars
  <2>1. UNCHANGED <<shape, rows, stored, sqlStore, failures, throws, resets, written>> BY <1>5 DEF openingVars
  <2>2. OpeningTypeOK' BY <2>1 DEF OpeningInv, OpeningTypeOK
  <2>3. ShapeInv' BY <2>1 DEF OpeningInv, ShapeInv, InLine, OutOfLine
  <2>4. ProgressInv' BY <2>1 DEF OpeningInv, ProgressInv, Progress, InLine, OutOfLine, AlignedTables
  <2>5. RowsInv' /\ KeysInv' BY <2>1 DEF OpeningInv, RowsInv, KeysInv, KeysRight
  <2>6. Charged' = Charged BY <2>1 DEF Charged, WillThrow, AlignedTables, Due
  <2>7. ChargeInv' BY <2>1, <2>6 DEF OpeningInv, ChargeInv
  <2> QED BY <2>2, <2>3, <2>4, <2>5, <2>7 DEF OpeningInv
<1> QED BY <1>1, <1>2, <1>3, <1>4, <1>5 DEF OpeningNext

(* The invariant says what is promised of the opening.                     *)
LEMMA StoreOpensHolds == ASSUME OpeningInv PROVE StoreOpens
<1>1. ReadyIsAligned
  <2>1. ASSUME NEW s \in SqlStores, IsReady(s)
        PROVE  /\ \A t \in Tables \ {"blobs"} : shape[t] = Current[t]
               /\ shape.blobs = Current.blobs \/ resets > 0
               /\ rows.blobs \cap Ownerless = {}
    <3>1. sqlStore[s].at \in Readied /\ Progress(sqlStore[s]) BY <2>1, StoreIsOpener DEF IsReady, Readied
    <3>2. InLine(shape) /\ "replica_id" \notin shape.replicas /\ shape.packages = {} /\ shape.ended_blobs = {}
          /\ (shape.blobs = {"owner_did"} \/ resets > 0)
      BY <3>1 DEF Progress, Aligning, Readied
    <3>3. shape.replicas = {"removed_at"} BY <3>2 DEF InLine
    <3>4. 0 \notin rows.blobs
      <4>1. {} # Nil BY OpeningAssumption
      <4> QED BY <3>2, <4>1 DEF OpeningInv, RowsInv
    <3> QED BY <3>2, <3>3, <3>4, TablesNamed DEF InLine, Ownerless
  <2> QED BY <2>1 DEF ReadyIsAligned
<1>2. FailsForCause
  <2>1. Cardinality(Charged) \in Nat /\ Cardinality(SqlStores) \in Nat
    <3>1. Charged \in SUBSET SqlStores /\ OpeningTypeOK BY DEF Charged, OpeningInv
    <3> QED BY <3>1, ChargeCount
  <2>2. resets * (Cardinality(SqlStores) - 1) \in Int BY <2>1 DEF OpeningInv, OpeningTypeOK
  <2> DEFINE m == resets * (Cardinality(SqlStores) - 1)
  <2>3. throws + Cardinality(Charged) <= failures + m /\ throws \in Nat /\ failures \in Nat
    BY DEF OpeningInv, OpeningTypeOK, ChargeInv
  <2>4. FailsForCause <=> throws <= failures + m BY DEF FailsForCause
  <2> HIDE DEF m
  <2>5. m \in Int BY <2>2 DEF m
  <2> QED BY <2>1, <2>3, <2>4, <2>5
<1>3. RowsStand BY DEF OpeningInv, RowsInv, RowsStand
<1>4. OneIdentity BY DEF OpeningInv, KeysInv, KeysRight, OneIdentity
<1> QED BY <1>1, <1>2, <1>3, <1>4 DEF StoreOpens

(* In every behaviour of any number of stores that open one database the   *)
(* invariant holds: what one has done no other undoes, the first blobs     *)
(* table apart, and every init that threw or will is accounted for (sql-   *)
(* store.ts init, identity-core.ts).                                       *)
THEOREM OpeningInvariant == OpeningSpec => []OpeningInv
<1>1. OpeningInit => OpeningInv BY OpeningBegins
<1>2. OpeningInv /\ [OpeningNext]_openingVars => OpeningInv' BY OpeningSteps
<1> QED BY <1>1, <1>2, PTL DEF OpeningSpec

(* However many stores open a database of whichever former shape, at once  *)
(* and through failures: one that is ready meets the present tables, none  *)
(* throws for what another did but for a reset, no row written is lost to  *)
(* a rebuild, and all hold the same keys (sql-store.ts init, identity-     *)
(* core.ts loadOrCreateSecrets).                                           *)
THEOREM StoresOpen == OpeningSpec => []StoreOpens
<1>1. OpeningInv => StoreOpens BY StoreOpensHolds
<1>2. OpeningSpec => []OpeningInv BY OpeningInvariant
<1> QED BY <1>1, <1>2, PTL

-----------------------------------------------------------------------------
(* Beneath the stores everything is as it should be: a vault file is whole *)
(* to whoever opens it and its local state its own (sqlite/vault.ts), no   *)
(* handle is missing (browser/sqlite.ts), and the mediator's stores agree  *)
(* on their tables and keys (sql-store.ts, identity-core.ts).              *)
THEOREM DriversAreSound == DriversSpec => []DriversSound
<1>1. OpensWhole /\ LocalStateSound /\ HandlesSuffice /\ StoreOpens => DriversSound
  BY DEF DriversSound
<1>2. DriversSpec => DatabaseSpec /\ PoolSpec /\ OpeningSpec BY DEF DriversSpec
<1> QED BY <1>1, <1>2, DatabaseOpensWhole, DatabaseLocalState, PoolHandlesSuffice, StoresOpen, PTL
=============================================================================
