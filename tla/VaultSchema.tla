----------------------------- MODULE VaultSchema -----------------------------
(***************************************************************************)
(* What the replicas of a vault record of messages and of their own names, *)
(* and which events of another they read (vault/src/schema.ts, ids.ts,     *)
(* projection.ts).  An answer and an entity that follows from another are  *)
(* named by what they follow from and never minted, so that replicas with  *)
(* no word of each other record the same; an event that names anything     *)
(* else than its own members give is kept and never applied.               *)
(*                                                                         *)
(* A name, a key or a CID is what it is derived from.  A wire ID is a name *)
(* in lower or in upper case, a DID a name in its short or its long form.  *)
(***************************************************************************)
EXTENDS Naturals, Sequences, FiniteSets

CONSTANTS Replicas, None,
          MaxEvents     \* bound: the events there ever are

VARIABLES records,      \* the events each replica reads
          subject       \* what they are about, there being no rule that spans both

schemaVars == <<records, subject>>

Author == "stranger"    \* whoever made an event no replica would
Self == <<<<"self">>, "lower">>
Pub == <<"did", "pub">>
Peer == <<"did", "peer">>

\* The one spelling wire IDs and DIDs are compared by.
CanonicalWireId(w) == <<w[1], "lower">>
SameWireId(v, w) == v[1] = w[1]
CanonicalDid(d) == <<d[1], "short">>

----------------------------------------------------------------------------
(* Names that follow from others.                                          *)

InboundMessageId(sender, recipient, wire) == <<"inbound", sender, recipient, wire[1]>>
AnonymousMessageId(key, wire) == <<"anonymous", key, wire[1]>>
ExecutionId(sender, recipient, wire) == <<"execution", sender, recipient, wire[1]>>
EffectKey(execution, effect) == <<"effect", execution, effect>>
AutomaticMessageId(key) == <<"automatic", key>>
MediationIdOf(mediator) == <<"mediation", CanonicalDid(mediator)[1]>>
MediationKeyName(id) == <<"me", id>>
SuccessorDidId(predecessor) == <<"next", predecessor>>
StartDidId(predecessor, binding) == <<"start", predecessor, binding>>
IsMintedId(id) == id[1] = "minted"

----------------------------------------------------------------------------
(* A message: its control headers as spelled, and its intent, which names  *)
(* the message itself by no ID.                                            *)

Folded(own, reference) == IF SameWireId(own, reference) THEN Self ELSE reference
IntentOf(own, c) ==
    [c EXCEPT !.thid = IF c.thid = None THEN Self ELSE Folded(own, c.thid),
              !.pleaseAck = IF c.pleaseAck = None THEN None
                            ELSE [i \in DOMAIN c.pleaseAck |-> Folded(own, c.pleaseAck[i])]]

Expires(c) == c.created # None /\ c.expires # None => c.expires > c.created

RequestsAck(wire, pleaseAck) ==
    pleaseAck # None /\ \E i \in DOMAIN pleaseAck : pleaseAck[i] = Self \/ SameWireId(pleaseAck[i], wire)

\* With a bug: the thread as the carrier spells it.
ReplyThreadSpelled(wire, thid) == IF thid = None THEN CanonicalWireId(wire) ELSE thid
ReplyThread(wire, thid) ==
    IF thid = None THEN CanonicalWireId(wire)
    ELSE IF SameWireId(thid, wire) THEN CanonicalWireId(wire) ELSE thid

\* An intent put on the wire under an ID, and what its reader makes of it.
WirePlaintext(intent, id) ==
    [id |-> id, control |-> [intent EXCEPT !.thid = IF @ = Self THEN None ELSE @]]
ReadIntent(p) == IntentOf(p.id, p.control)

\* What a document refers to.
AttachmentsOf(document) == IF document = "file" THEN <<"image">> ELSE <<>>
MessageRoots(document, attachments) == <<document>> \o SelectSeq(attachments, LAMBDA x : x # document)

----------------------------------------------------------------------------
(* The events that are read.                                               *)

IsLocal(e) == e.execution = None
KeyedByTuple(e) == e.key = EffectKey(e.execution, e.effect)

MessageOutReads(e) ==
    /\ Expires(e.control)
    /\ (e.execution = None) = (e.key = None) /\ (e.execution = None) = (e.effect = None)
    /\ (e.source = None) = IsLocal(e)
    /\ IF IsLocal(e)
         THEN IsMintedId(e.id) /\ e.control.ack = <<>> /\ e.control.created # None
         ELSE KeyedByTuple(e) /\ e.id = AutomaticMessageId(e.key)
    /\ e.intent = IntentOf(<<e.id, "lower">>, e.control)
    /\ e.roots = MessageRoots(e.control.document, e.attachments)

MessageInReads(e) ==
    /\ Expires(e.control)
    /\ (e.did = None) = (e.presented = None)
    /\ IF e.did = None THEN e.id = AnonymousMessageId(e.localKey, e.wire)
                       ELSE CanonicalDid(e.presented)[1] = e.did
    /\ e.intent = IntentOf(e.wire, e.control)
    /\ e.roots = MessageRoots(e.control.document, e.attachments)

\* Under another profile an entity is read as it is.
GenerationNames(e) ==
    /\ (e.kind = "entry") = (e.predecessor = None) /\ (e.kind = "start") = (e.binding # None)
    /\ e.predecessor # e.did /\ (e.kind = "start" => e.binding # e.predecessor)
    /\ e.profile = "v1" =>
         CASE e.kind = "entry" -> IsMintedId(e.id)
           [] e.kind = "start" -> e.id = StartDidId(e.predecessor, e.binding)
           [] e.kind = "next" -> e.id = SuccessorDidId(e.predecessor)

MediationReads(e) == e.id = MediationIdOf(e.mediator) /\ e.meKey = MediationKeyName(e.id)

Reads(e) ==
    CASE e.type = "message.out" -> MessageOutReads(e)
      [] e.type = "message.in" -> MessageInReads(e)
      [] e.type = "effect.skipped" -> KeyedByTuple(e)
      [] e.type = "did.created" -> GenerationNames(e) /\ e.roots = <<>>
      [] e.type = "mediation.created" -> MediationReads(e) /\ e.roots = <<>>

All == UNION {records[r] : r \in Replicas}
OfType(events, type) == {e \in events : e.type = type}
\* A stranger's event comes last, one short of the bound.
Room == Cardinality(All) < MaxEvents /\ \A e \in All : e.author # Author
Record(r, e) == Reads(e) /\ Room /\ records' = [records EXCEPT ![r] = @ \cup {e}] /\ UNCHANGED subject

----------------------------------------------------------------------------
\* One message of the peer's, a Ping, in whichever spelling it comes, or one
\* that asks for nothing.
Ping(wire, thid, pleaseAck, document) ==
    [id |-> wire, control |-> [type |-> "ping", thid |-> thid, created |-> 1, expires |-> 2,
                               pleaseAck |-> pleaseAck, ack |-> <<>>, document |-> document]]
Wire(name, case) == <<<<"wire", name>>, case>>
Plaintexts ==
    {Ping(Wire("a", "lower"), None, <<Wire("b", "lower")>>, "quiet")}
    \cup {Ping(w, x.thid, <<x.asks>>, "ping") :
            w \in {Wire("a", "lower"), Wire("a", "upper")},
            x \in {[thid |-> None, asks |-> Self], [thid |-> Wire("a", "upper"), asks |-> Wire("a", "upper")],
                   [thid |-> Wire("b", "upper"), asks |-> Self]}}

Observation(r, p, presented) ==
    [type |-> "message.in", author |-> r, wire |-> p.id, localKey |-> "key",
     id |-> IF presented = None THEN AnonymousMessageId("key", p.id)
            ELSE InboundMessageId(CanonicalDid(presented)[1], Pub, p.id),
     presented |-> presented, did |-> IF presented = None THEN None ELSE CanonicalDid(presented)[1],
     control |-> p.control, intent |-> ReadIntent(p), attachments |-> AttachmentsOf(p.control.document),
     roots |-> MessageRoots(p.control.document, AttachmentsOf(p.control.document))]

\* Each replica is handed its own delivery.
RecordReceipt(r, p, presented) ==
    /\ \A e \in OfType(records[r], "message.in") : e.author # r
    /\ Record(r, Observation(r, p, presented))

Output(r, id, control, source, effect) ==
    [type |-> "message.out", author |-> r, id |-> id, control |-> control,
     execution |-> IF source = None THEN None ELSE ExecutionId(source.did, Pub, source.wire),
     effect |-> effect,
     key |-> IF source = None THEN None ELSE EffectKey(ExecutionId(source.did, Pub, source.wire), effect),
     source |-> source, intent |-> IntentOf(<<id, "lower">>, control),
     attachments |-> AttachmentsOf(control.document),
     roots |-> MessageRoots(control.document, AttachmentsOf(control.document))]

SendMessage(r, document) ==
    Record(r, Output(r, <<"minted", r>>,
                     [type |-> "message", thid |-> None, created |-> 1, expires |-> None,
                      pleaseAck |-> <<Self>>, ack |-> <<>>, document |-> document], None, None))

Acknowledgement(s) ==
    [type |-> "empty", thid |-> ReplyThread(s.wire, s.control.thid), created |-> s.control.created,
     expires |-> None, pleaseAck |-> None, ack |-> <<CanonicalWireId(s.wire)>>, document |-> "empty"]
PingResponse(s) ==
    [type |-> "response", thid |-> CanonicalWireId(s.wire), created |-> s.control.created,
     expires |-> s.control.expires, pleaseAck |-> None, ack |-> <<>>, document |-> "empty"]

Responds(s, effect) ==
    IF effect = "ack" THEN RequestsAck(s.wire, s.control.pleaseAck) ELSE s.control.document = "ping"
Given(s, effect) == IF effect = "ack" THEN Acknowledgement(s) ELSE PingResponse(s)

Skip(r, s, effect) ==
    [type |-> "effect.skipped", author |-> r, execution |-> ExecutionId(s.did, Pub, s.wire),
     effect |-> effect, key |-> EffectKey(ExecutionId(s.did, Pub, s.wire), effect), source |-> s, roots |-> <<>>]

\* To an input the observations here agree on, once.
Answer(r, s, effect) ==
    LET key == EffectKey(ExecutionId(s.did, Pub, s.wire), effect)
    IN  /\ \A q \in OfType(records[r], "message.in") : q.id = s.id => q.intent = s.intent
        /\ \A e \in OfType(records[r], "message.out") \cup OfType(records[r], "effect.skipped") : e.key # key
        /\ \/ Responds(s, effect) /\ Record(r, Output(r, AutomaticMessageId(key), Given(s, effect), s, effect))
           \/ effect = "reply" /\ ~Responds(s, effect) /\ Record(r, Skip(r, s, effect))

Generation(r, id, kind, predecessor, binding) ==
    [type |-> "did.created", author |-> r, id |-> id, did |-> <<"made", id>>, kind |-> kind,
     profile |-> "v1", predecessor |-> predecessor, binding |-> binding, roots |-> <<>>]
Generations(r) ==
    {Generation(r, <<"minted", r>>, "entry", None, None),
     Generation(r, StartDidId(Pub, Peer), "start", Pub, Peer),
     Generation(r, SuccessorDidId(<<"made", StartDidId(Pub, Peer)>>), "next", <<"made", StartDidId(Pub, Peer)>>, None)}

Arrangement(r, mediator) ==
    [type |-> "mediation.created", author |-> r, mediator |-> mediator, id |-> MediationIdOf(mediator),
     meKey |-> MediationKeyName(MediationIdOf(mediator)), roots |-> <<>>]

Merge(r, q) == records' = [records EXCEPT ![r] = @ \cup records[q]] /\ UNCHANGED subject

\* An event like one there is, but for one member: another's, or none of any.
Garbled(e) ==
    {[e EXCEPT ![f] = x[f]] : f \in DOMAIN e \ {"author", "type"}, x \in OfType(All, e.type)}
    \cup {[e EXCEPT !.roots = <<"other">>]}
    \cup (IF e.type = "did.created" THEN {[e EXCEPT !.profile = "v0"]} ELSE {})

ImportGarbled(r) ==
    /\ Cardinality(All) + 1 < MaxEvents
    /\ \E e \in All : \E g \in Garbled(e) : Record(r, [g EXCEPT !.author = Author])

SchemaInit == records = [r \in Replicas |-> {}] /\ subject \in {"messages", "entities"}

Messages(r) ==
    \/ \E p \in Plaintexts : RecordReceipt(r, p, <<Peer, "long">>)
    \/ \E p \in Plaintexts : p.control.document = "quiet" /\ RecordReceipt(r, p, None)
    \/ \E s \in {x \in OfType(records[r], "message.in") : x.did # None} :
           \E effect \in {"ack", "reply"} : Answer(r, s, effect)
    \/ SendMessage(r, "file")

Entities(r) ==
    \/ \E g \in Generations(r) : Record(r, g)
    \/ \E form \in {"short", "long"} : Record(r, Arrangement(r, <<<<"did", "mediator">>, form>>))

SchemaNext ==
    \E r \in Replicas :
        \/ subject = "messages" /\ Messages(r)
        \/ subject = "entities" /\ Entities(r)
        \/ \E q \in Replicas : Merge(r, q)
        \/ ImportGarbled(r)

----------------------------------------------------------------------------
Outputs == OfType(All, "message.out")
Results == Outputs \cup OfType(All, "effect.skipped")
Answers == {e \in Outputs : e.author # Author /\ ~IsLocal(e)}

(* Replicas that answer one message from two spellings of it record one    *)
(* answer: where their carriers mean the same, so do the answers.          *)
AnswersAgree ==
    \A e, f \in Answers : e.key = f.key /\ e.source.intent = f.source.intent => e.id = f.id /\ e.intent = f.intent

(* What the fold holds an answer to, it finds in every answer a replica    *)
(* gives, on every replica.                                                *)
AnswersPass ==
    \A e \in Answers :
        IF e.effect = "ack"
          THEN /\ RequestsAck(e.source.wire, e.source.control.pleaseAck)
               /\ e.control.thid = ReplyThread(e.source.wire, e.source.control.thid)
               /\ e.control.ack = <<CanonicalWireId(e.source.wire)>>
          ELSE /\ e.control.thid = CanonicalWireId(e.source.wire)
               /\ e.control.expires = e.source.control.expires

(* No event that is read passes one message off as another: a message ID   *)
(* and an effect key each name one operation over one input, and none that *)
(* a replica sent.                                                         *)
NamesTell ==
    /\ \A e, f \in Outputs : e.id = f.id => e.execution = f.execution /\ e.effect = f.effect
    /\ \A e, f \in Results : e.key # None /\ e.key = f.key => e.execution = f.execution /\ e.effect = f.effect

(* A message means on arrival what it meant when it was recorded: its      *)
(* receiver reads the intent its sender fixed.                             *)
WireMeets ==
    \A e \in Outputs : ReadIntent(WirePlaintext(e.intent, <<e.id, "lower">>)) = e.intent

(* Whatever content an event that is read names, its roots hold.           *)
RootsHold ==
    \A e \in Outputs \cup OfType(All, "message.in") :
        \A x \in {e.control.document} \cup {e.attachments[i] : i \in DOMAIN e.attachments} :
            \E i \in DOMAIN e.roots : e.roots[i] = x

(* Replicas name the entity that follows from another, and the arrangement *)
(* with a mediator however spelled, alike, and nothing else so.            *)
EntitiesTell ==
    /\ \A e, f \in {x \in OfType(All, "did.created") : x.profile = "v1"} : e.id = f.id =>
           e.kind = f.kind /\ e.predecessor = f.predecessor /\ e.binding = f.binding
    /\ \A e, f \in OfType(All, "mediation.created") :
           (e.id = f.id) = (CanonicalDid(e.mediator) = CanonicalDid(f.mediator))

SchemaSound == AnswersAgree /\ AnswersPass /\ NamesTell /\ WireMeets /\ RootsHold /\ EntitiesTell
=============================================================================
