-------------------------------- MODULE Views --------------------------------
(***************************************************************************)
(* What an application is shown of a vault: the views of channels and      *)
(* contacts (vault/src/fold/views.ts, contacts.ts), the records and the    *)
(* work left for manual action (agent-core/src/records.ts,                 *)
(* vault/src/pending-work.ts), and the snapshot a daemon publishes of them *)
(* (daemon/src/projection.ts).                                             *)
(*                                                                         *)
(* The evidence grows by Rotation's actions on one replica, and the book   *)
(* keeps what the other events of its vault say: contacts, outputs,        *)
(* observations no authentication completes, addresses retired.  Every     *)
(* input is one receipt and asks for its receipt.  A message is shown by   *)
(* its ID: names, bodies, headers and presentation order are left out, as  *)
(* are the routes of addresses.                                            *)
(***************************************************************************)
EXTENDS Rotation

CONSTANTS
    Contacts,
    MaxLearnt,      \* bound: the receipts and denials a view is read off
    MaxShown        \* bound: the events the book is written from

VARIABLE book

Outputs == 1..MaxShown

BookOf(r) ==
    [of |-> r, written |-> 0, sent |-> {}, ended |-> {}, left |-> {}, strays |-> {}, retired |-> {},
     selects |-> [k \in Contacts |-> {}], prefers |-> [k \in Contacts |-> None], deleted |-> {},
     reads |-> [c \in {} |-> None]]

\* The contacts events name: the fold keeps the latest of each kind.
Named(b) == {k \in Contacts : b.selects[k] # {} \/ b.prefers[k] # None \/ k \in b.deleted}

SelectedBy(b, k) == IF k \in b.deleted THEN {} ELSE b.selects[k]

Selecting(b, c) == {k \in Contacts : c \in SelectedBy(b, k)}

----------------------------------------------------------------------------
(* The fold of the vault the view is read off.                             *)

E == held[book.of]
m == fold[book.of]

\* What is read of each channel a model knows, its head None where it has no
\* single one; read off again whenever the evidence changes.
ReadOff(n, F) ==
    [c \in UNION {Pairs(f) : f \in n.facts} \cup Ends(n.positive) |->
        LET h == Head(n, c)
        IN  [head |-> CASE h.status = "head" -> h.channel
                        [] h.status = "none" -> c
                        [] OTHER -> None,
             open |-> h.status \notin {"conflict", "many"} /\ ~Blocked(n, F, c) /\ ~Superseded(n, c)]]

\* The channel itself when no fact mentions it.
HeadOf(c) == IF c \in DOMAIN book.reads THEN book.reads[c].head ELSE c
OpenAt(c) == c \in DOMAIN book.reads => book.reads[c].open

\* Whether a channel takes new work now, whichever path asks.
SenderGate(c) ==
    /\ Local(c) \in Given \ book.retired
    /\ OpenAt(c)
    /\ HeadOf(c) = c
    /\ \A d \in DecisionsIn(m, E, c) : Candidate(E, d)

\* The observations and the pair each is placed in, None where no pair is known.
Received == {[at |-> s.at, of |-> s] : s \in E.received}
Sources == Received \cup book.strays

\* A proof in conflict is refused, a peer that moved on ignored.
Disposition(o) ==
    LET refused == o \in Received /\ ProofChecked(E, o.of) /\ FactStatus(m, FactOf(o.of)) = "conflict"
                     /\ o.of.prior # None
    IN  CASE o.of \in E.admitted -> "admitted"
          [] o.of \notin E.admitted /\ refused -> "refused"
          [] o \in Received \ {[at |-> s.at, of |-> s] : s \in E.admitted} /\ ~refused /\ Superseded(m, o.at) -> "ignored-superseded"
          [] OTHER -> "pending-admission"

\* The inputs established: admitted and witnessed completely.
Complete == {s \in E.admitted : WitnessComplete(m, E, s)}

\* An output's recorded intents agree when they are one.
IntentsOf(o) == {i \in book.sent : i.id = o}
Sent == {i.id : i \in book.sent}
Consistent(o) == Cardinality(IntentsOf(o)) = 1
IntentFor(o) == CHOOSE i \in IntentsOf(o) : TRUE

\* Where an output is shown: the pair its intent fixes or, while its intents
\* disagree, the one pair every one of them names.
PlaceOf(o) ==
    LET at == {i.at : i \in IntentsOf(o)}
    IN  [channel |-> IF None \notin at /\ Cardinality(at) = 1 THEN CHOOSE c \in at : TRUE ELSE None,
         candidates |-> at \ {None}]

----------------------------------------------------------------------------
(* The work an open lists.                                                 *)

\* A reply goes to the input's own channel or to the unique successor of its
\* local DID that keeps the peer.
ResponseChannel(s) ==
    LET h == HeadOf(s.at)
        may == {c \in {s.at, h} \ {None} : OpenAt(s.at) /\ Peer(c) = Peer(s.at) /\ SenderGate(c)}
    IN  IF s.at \in may THEN s.at ELSE IF may # {} THEN h ELSE None

MissingResponses ==
    {s \in Complete \ book.left : ResponseChannel(s) # None /\ \A i \in book.sent : i.for # s}

\* Where a decision's notification goes, while its source still permits one.
NotificationChannel(d) ==
    LET c == <<d.to, Peer(d.at)>>
    IN  IF /\ Candidate(E, d)
           /\ FactStatus(m, Decided(d.at, d.to)) = "usable"
           /\ SenderGate(c)
           /\ d.source # None => d.source \in Complete /\ OpenAt(d.at)
        THEN c ELSE None

MissingNotifications ==
    {d \in E.decisions :
        /\ \A i \in book.sent : i.for # d
        /\ NotificationChannel(d) # None
        /\ d.source \notin book.left}

\* The inputs the private-address policy reads as selecting a rotation.
SelectingInputs == {s \in Complete : Local(s.at) \in Disclosed}

\* The pairs of a context the rotation may be made from: what current policy
\* holds nothing against, else one whose peer is not replaced, else any.
RotatingPairs(S) ==
    LET pairs == {s.at : s \in S}
        free == {c \in pairs : OpenAt(c)}
        current == {c \in pairs : ~Superseded(m, c)}
    IN  IF free # {} THEN free ELSE IF current # {} THEN current ELSE pairs

SuccessorStands(c) == SuccessorRecipe(m, c) # None /\ SuccessorRecipe(m, c) \notin book.retired

RotationCandidates ==
    LET groups == {{t \in SelectingInputs : Local(t.at) = Local(s.at) /\ t.at \in Context(m.positive, s.at, "local")}
                      : s \in SelectingInputs}
    IN  {[channel |-> c, sources |-> S, ready |-> OpenAt(c) /\ SuccessorStands(c)]
            : <<S, c>> \in {<<T, p>> \in groups \X {s.at : s \in SelectingInputs} :
                               p \in RotatingPairs(T) /\ NoIntent(m, E, p)}}

PendingProofs == {o \in Received : ~ProofChecked(E, o.of)}

PendingOutbounds == {o \in Sent : Consistent(o) /\ o \notin book.ended}

PendingChannels ==
    ({IntentFor(o).at : o \in PendingOutbounds} \ {None})
        \cup {ResponseChannel(s) : s \in MissingResponses}
        \cup {c.channel : c \in RotationCandidates}
        \cup {NotificationChannel(d) : d \in MissingNotifications}
        \cup {o.at : o \in PendingProofs}

----------------------------------------------------------------------------
(* Records.                                                                *)

\* The messages a channel shows: the inputs with an admitted observation, the
\* outputs fixed to it and those whose intents disagree and name it alone.
MessagesIn(c) ==
    {<<"in", s>> : s \in {t \in E.admitted : t.at = c}}
        \cup {<<"out", o>> : o \in {p \in Sent : PlaceOf(p).channel = c}}

ObservationsIn(c) == {o \in Sources : o.at = c}

ChannelRecord(c) ==
    [channel |-> c, contacts |-> Selecting(book, c), head |-> HeadOf(c), open |-> SenderGate(c),
     messages |-> MessagesIn(c), observations |-> ObservationsIn(c)]

\* The channels a record shows anything in, and what none of them shows.
ShownChannels ==
    {o.at : o \in Sources} \cup {PlaceOf(o).channel : o \in Sent}
ReaderChannels == ShownChannels \ {None}
UnplacedInputs == {o \in Sources : o.at = None}
UnplacedOutputs == {o \in Sent : PlaceOf(o).channel = None}

----------------------------------------------------------------------------
(* A contact's view: the channels it selected with the history usable      *)
(* continuity connects them to.                                            *)

\* Only usable links count, among those connected to a selected channel.
VerifiedLinks(selected) ==
    {l \in DOMAIN m.positive : l \in DOMAIN m.usable /\ l[1] \in Component(DOMAIN m.positive, selected)}

Related(selected) ==
    UNION {Component(VerifiedLinks(selected), {c}) : c \in selected} \ selected

\* The local DIDs on the way from the selected channels to a head of theirs.
WayTo(selected, h) ==
    LET links == [l \in VerifiedLinks(selected) |-> {}]
    IN  {Local(d) : d \in UNION {DOMAIN Reach(links, c) : c \in {b \in selected : HeadOf(b) = h}}}

HeadsOf(selected) == {HeadOf(c) : c \in selected} \ {None}

\* With a bug: a head is offered whether or not it takes a send.
WritesAnywhere(selected) == HeadsOf(selected)

WriteTo(selected) == {h \in HeadsOf(selected) : SenderGate(h)}

\* Preferences apply only when those of the undeleted contacts name one DID.
PreferenceOf(K) == {book.prefers[k] : k \in K \ book.deleted} \ {None}

Matches(K, selected) ==
    {h \in WriteTo(selected) : PreferenceOf(K) \cap WayTo(selected, h) # {}}

ContactView(K) ==
    LET selected == UNION {SelectedBy(book, k) : k \in K}
        writes == WriteTo(selected)
        choice == IF Cardinality(PreferenceOf(K)) = 1 THEN Matches(K, selected) ELSE writes
    IN  [selected |-> selected,
         related |-> Related(selected),
         writeTo |-> writes,
         default |-> IF Cardinality(choice) = 1 THEN CHOOSE c \in choice : TRUE ELSE None]

----------------------------------------------------------------------------
(* The snapshot a daemon publishes.                                        *)

ContactIds == Named(book) \ book.deleted

\* Every head a channel taken leads to, taken too, until each is in.
RECURSIVE TakeHeads(_)
TakeHeads(C) ==
    LET heads == {HeadOf(c) : c \in C} \ {None}
    IN  IF heads \subseteq C THEN C ELSE TakeHeads(C \cup heads)

\* The channel table: every pair anything else names.
Taken(views, pending) ==
    TakeHeads(UNION {views[k].selected \cup views[k].related \cup views[k].writeTo : k \in ContactIds}
                  \cup ReaderChannels
                  \cup UNION {PlaceOf(o).candidates : o \in UnplacedOutputs}
                  \cup pending)

\* What was received in the channels of a conversation and not admitted.
Unadmitted(C) == {o \in UNION {ObservationsIn(c) : c \in C} : Disposition(o) # "admitted"}

ContactConversation(k, view) ==
    [key |-> k, channels |-> view.selected \cup view.related,
     writeTo |-> view.writeTo, default |-> view.default,
     unadmitted |-> Unadmitted(view.selected \cup view.related)]

\* The channels no contact shows, under the head each leads to or themselves.
NamelessConversations(records, assigned) ==
    LET rest == {r \in records : r.channel \notin assigned}
        keyOf(r) == IF r.head = None THEN r.channel ELSE r.head
        members(key) == {r.channel : r \in {q \in rest : keyOf(q) = key}}
        writes(key) == {r.channel : r \in {q \in rest : q.channel = key /\ q.open}}
    IN  {[key |-> key, channels |-> members(key), writeTo |-> writes(key),
          default |-> IF writes(key) = {} THEN None ELSE key,
          unadmitted |-> Unadmitted(members(key))] : key \in {keyOf(r) : r \in rest}}

Published(records, named, pending) ==
    [channels |-> records,
     messages |-> UNION {r.messages : r \in records} \cup {<<"out", o>> : o \in UnplacedOutputs},
     observations |-> UNION {r.observations : r \in records} \cup UnplacedInputs,
     contacts |-> named,
     nameless |-> NamelessConversations(records, UNION {v.channels : v \in named}),
     unplaced |-> [inputs |-> UnplacedInputs, outputs |-> UnplacedOutputs],
     pending |-> pending]

Projected(views, pending) ==
    Published({ChannelRecord(c) : c \in Taken(views, pending)},
              {ContactConversation(k, views[k]) : k \in ContactIds}, pending)

Snapshot == Projected([k \in ContactIds |-> ContactView({k})], PendingChannels)

----------------------------------------------------------------------------
(* What the book is written from.                                          *)

ViewsInit == \E r \in Replicas : book = BookOf(r)

\* An event about what the book holds, the evidence as it is.
Note(b) == book' = b /\ UNCHANGED <<held, fold>>

\* The events about a contact, a new message or an address: MaxShown of them.
Write(b) == book.written < MaxShown /\ Note([b EXCEPT !.written = @ + 1])

KnownPairs == {f.at : f \in m.facts} \cup Ends(m.positive)

CreateContact(k) ==
    \E C \in SUBSET KnownPairs, d \in Given \cup {None} :
        /\ k \notin Named(book)
        /\ Cardinality(C) \in {1, 2}
        /\ Write([book EXCEPT !.selects[k] = C, !.prefers[k] = d])

DeleteContact(k) == k \in Named(book) \ book.deleted /\ Note([book EXCEPT !.deleted = @ \cup {k}])

Intent(o, c, for, from) == [id |-> o, at |-> c, for |-> for, from |-> from]

NextOutput == Cardinality(Sent) + 1

Send(c) == SenderGate(c) /\ Write([book EXCEPT !.sent = @ \cup {Intent(NextOutput, c, None, "here")}])

CompleteResponse(s) ==
    /\ s \in MissingResponses
    /\ Write([book EXCEPT !.sent = @ \cup {Intent(NextOutput, ResponseChannel(s), s, "here")}])

CompleteNotification(d) ==
    /\ d \in MissingNotifications
    /\ Write([book EXCEPT !.sent = @ \cup {Intent(NextOutput, NotificationChannel(d), d, "here")}])

\* An import brings another replica's intent under the ID of an output, at a
\* pair of its own or from an address that does not read here.
ImportIntent(o) ==
    \E c \in KnownPairs \cup {None} : \E i \in IntentsOf(o) :
        /\ Consistent(o)
        /\ Note([book EXCEPT !.sent = @ \cup {Intent(o, c, i.for, "there")}])

Submitted(o) == o \in PendingOutbounds /\ Note([book EXCEPT !.ended = @ \cup {o}])

LeaveInput(s) == s \in MissingResponses /\ Write([book EXCEPT !.left = @ \cup {s}])

RetireAddress(d) == d \notin book.retired /\ Write([book EXCEPT !.retired = @ \cup {d}])

\* An observation whose own authentication is not complete: of no pair, or at
\* a pair whose sender is not resolved yet.
Stray ==
    \E c \in {None} \cup (Given \X PeerDids) :
        Write([book EXCEPT !.strays = @ \cup {[at |-> c, of |-> [at |-> c, prior |-> Cardinality(book.strays)]]}])

Learn(r) ==
    /\ \/ Rotate(r) \/ PrivateAddress(r)
       \/ Cardinality(E.received \cup E.denials) < MaxLearnt /\ (Receive(r) \/ Deny(r))
    /\ book' = [book EXCEPT !.reads = ReadOff(fold'[r], held'[r])]

Arrange == \E k \in Contacts : CreateContact(k) \/ DeleteContact(k)

ViewsNext ==
    \/ Learn(book.of)
    \/ Arrange
    \/ \E c \in KnownPairs : Send(c)
    \/ \E s \in E.admitted : CompleteResponse(s)
    \/ \E s \in E.admitted : LeaveInput(s)
    \/ \E d \in E.decisions : CompleteNotification(d)
    \/ \E o \in Sent : ImportIntent(o)
    \/ \E o \in Sent : Submitted(o)
    \/ \E d \in Given : RetireAddress(d)
    \/ Stray

----------------------------------------------------------------------------
(* Properties of every snapshot.                                           *)

\* Whatever a snapshot names is in it: heads, conversations, choices, pending
\* items and the candidates of an unplaced output are all in the channel table
\* (daemon/src/projection.ts project), so no view is left with a dangling name.
NothingDangling(s) ==
    LET table == {r.channel : r \in s.channels}
        talks == s.contacts \cup s.nameless
    IN  /\ {r.head : r \in s.channels} \subseteq table \cup {None}
        /\ UNION {t.channels \cup t.writeTo : t \in talks} \subseteq table
        /\ s.pending \subseteq table
        /\ UNION {PlaceOf(o).candidates : o \in s.unplaced.outputs} \subseteq table

\* Nothing is hidden and nothing shown apart twice: every observation and every
\* output of the vault is shown in one channel of some conversation or is listed
\* as unplaced, and a channel no contact shows is in exactly one conversation.
ShownOnce(s) ==
    LET talks == s.contacts \cup s.nameless
        shown == UNION {t.channels : t \in talks}
    IN  /\ \A o \in Sources :
              IF o \in s.unplaced.inputs THEN \A r \in s.channels : o \notin r.observations
              ELSE \E r \in s.channels : r.channel \in shown /\ o \in r.observations
        /\ \A o \in Sent :
              IF o \in s.unplaced.outputs THEN \A r \in s.channels : <<"out", o>> \notin r.messages
              ELSE Cardinality({r \in s.channels : <<"out", o>> \in r.messages /\ r.channel \in shown}) = 1
        /\ \A o \in Sources \ s.unplaced.inputs :
              Disposition(o) # "admitted" => \E t \in talks : o \in t.unadmitted
        /\ \A x \in E.admitted : \E r \in s.channels : r.channel \in shown /\ <<"in", x>> \in r.messages
        /\ \A r \in s.channels :
              \/ \E t \in s.contacts : r.channel \in t.channels
              \/ Cardinality({t \in s.nameless : r.channel \in t.channels}) = 1

\* A step offered is one that goes through: what may be written to takes a send
\* from whichever conversation offers it, a preference narrows the choice and
\* never widens it, and a rotation listed as ready commits, for a decision
\* checked again puts nothing in conflict (agent-core/src/successor.ts: "so that
\* what is offered by hand is a rotation that commits").
OffersHold(s) ==
        /\ \A t \in s.contacts \cup s.nameless :
              /\ \A c \in t.writeTo : SenderGate(c)
              /\ t.default # None => t.default \in t.writeTo
        /\ \A c \in RotationCandidates : c.ready =>
              /\ ConfirmedBy(m, E, c.channel) # {}
              /\ \A d \in {[at |-> c.channel, to |-> SuccessorRecipe(m, c.channel), source |-> None]} :
                    ~Refused(m, E, d)

SnapshotSound == \A s \in {Snapshot} : NothingDangling(s) /\ ShownOnce(s) /\ OffersHold(s)
=============================================================================
