------------------------------ MODULE Rotation ------------------------------
(***************************************************************************)
(* Rotations and private addresses of one vault on several replicas: the   *)
(* channel evidence and its admissions (vault/src/fold/channels.ts,        *)
(* fold/continuity.ts, admission/), the intent and the recipe of a         *)
(* successor (rotation-policy.ts, succession.ts), and the decision under   *)
(* the writer lock (agent-core/src/rotate.ts, privacy.ts).                 *)
(*                                                                         *)
(* Each replica holds a set of events and reads everything off the model   *)
(* derived over it; imports join the sets.  Receipts are told apart by     *)
(* what they establish.  The peers are external: they write from any of    *)
(* their DIDs to any address of ours they were given, with a proof of      *)
(* rotation or without, so histories fork and arrive in any order.         *)
(***************************************************************************)
EXTENDS Continuity

CONSTANTS Replicas, Entries, PeerDids,
          Disclosed,      \* the entries given out publicly: the privacy policy replaces them
          Spelled,        \* the peer DIDs whose proofs name them in their long form
          MaxEvidence, MaxDecisions

VARIABLES held,           \* per replica, the events of the vault it holds
          fold            \* per replica, the model derived over the facts they project

vars == <<held, fold>>

NoEvents == [received |-> {}, admitted |-> {}, decisions |-> {}, denials |-> {}]
Union(E, G) == [f \in DOMAIN E |-> E[f] \cup G[f]]

----------------------------------------------------------------------------
(* Channel evidence.                                                       *)

\* A proof is verified once the issuer's document is here: named in its long
\* form, or retained from a receipt of that DID.
ProofChecked(E, s) ==
    s.prior # None => s.prior \in Spelled \/ \E r \in E.received : Peer(r.at) = s.prior
Positive(E) == {s \in E.received : ProofChecked(E, s)}

\* A decision is a candidate once the source it names is here and verified.
Candidate(E, d) == d.source # None => d.source \in Positive(E)

FactOf(s) == Seen(s.at, s.prior)
Project(E) ==
    {FactOf(s) : s \in Positive(E)}
        \cup {Decided(d.at, d.to) : d \in {e \in E.decisions : Candidate(E, e)}}

----------------------------------------------------------------------------
(* The host's reading of the model.                                        *)

\* A proof-free receipt witnesses by itself, a proof only while usable.
WitnessComplete(m, E, s) ==
    s \in Positive(E) /\ (s.prior # None => FactStatus(m, FactOf(s)) = "usable")
Superseded(m, c) == Changes(m.facts, m.positive, c, "peer") # {}
Conflicted(m, c) == Head(m, c).status \in {"conflict", "many"}
Blocked(m, E, c) ==
    \E d \in E.denials : d.at = c \/ (d.successors /\ c \in DOMAIN Reach(m.positive, d.at))

\* Why new work is refused at a channel.
Open(m, E, c) == ~Blocked(m, E, c) /\ ~Conflicted(m, c) /\ ~Superseded(m, c)

\* The admitted receipts that show the peer writing to exactly this address.
ConfirmedBy(m, E, c) == {s \in E.admitted : FactOf(s) \in Confirmation(m, c)}

\* Walking the peer's replacements back from a channel, the local DID fixed.
RECURSIVE BackFrom(_, _, _)
BackFrom(m, C, local) ==
    LET ls == {l \in OfSide(m.positive, "peer") : l[2] \in C /\ Local(l[2]) = local}
        more == {l[1] : l \in ls}
    IN  IF more \subseteq C THEN C ELSE BackFrom(m, C \cup more, local)

PeerRoot(m, c) ==
    LET back == BackFrom(m, {c}, Local(c))
        into == {l \in OfSide(m.positive, "peer") : l[2] \in back}
        roots == {b \in back : ~\E l \in into : l[2] = b}
    IN  IF \/ back \cap m.affected # {}
           \/ ~(into \subseteq DOMAIN m.usable)
           \/ Cardinality(roots) # 1
           \/ \E b \in roots : b # c /\ Path(m, b, c).status # "path"
        THEN None
        ELSE Peer(CHOOSE b \in roots : TRUE)

DecisionsIn(m, E, c) == {d \in E.decisions : d.at \in Context(m.positive, c, "local")}

----------------------------------------------------------------------------
(* Successors: named by their recipe alone, so that every replica deciding *)
(* the rotation arrives at one entity.                                     *)

Start(pred, binding) == <<"start", pred, binding>>
NextOf(pred) == <<"next", pred>>
IsEntry(did) == did \in Entries

\* The pair the branch an address belongs to was started at.
RECURSIVE Anchor(_)
Anchor(did) == IF did[1] = "start" THEN <<did[2], did[3]>> ELSE Anchor(did[2])

\* A variant of SuccessorRecipe: an entry's first private address is one for
\* every peer.
RecipeUnbound(m, c) ==
    IF IsEntry(Local(c))
    THEN IF PeerRoot(m, c) = None THEN None ELSE Start(Local(c), None)
    ELSE IF Path(m, Anchor(Local(c)), c).status = "path" THEN NextOf(Local(c)) ELSE None

SuccessorRecipe(m, c) ==
    IF IsEntry(Local(c))
    THEN LET root == PeerRoot(m, c) IN IF root = None THEN None ELSE Start(Local(c), root)
    ELSE IF Path(m, Anchor(Local(c)), c).status = "path" THEN NextOf(Local(c)) ELSE None

\* Whatever is recorded from the address anywhere in its context is reused,
\* waits or conflicts; only where nothing is recorded is a rotation decided.
NoIntent(m, E, c) == DecisionsIn(m, E, c) = {}

\* What the decision would put in conflict that is not in conflict already.
Refused(m, E, d) ==
    LET n == Derive(Project(Union(E, [NoEvents EXCEPT !.decisions = {d}])))
    IN  FactStatus(n, Decided(d.at, d.to)) = "conflict" \/ ~(n.affected \subseteq m.affected)

----------------------------------------------------------------------------
(* The pass that records the admissions owed, after every change of the    *)
(* evidence.                                                               *)

Eligible(m, E, s) ==
    WitnessComplete(m, E, s) /\ ~Superseded(m, s.at) /\ ~Blocked(m, E, s.at)
Admit(m, E) == [E EXCEPT !.admitted = @ \cup {s \in E.received : Eligible(m, E, s)}]

\* The events a replica holds now, with the model over them and the pass made.
Now(r, E) ==
    \E m \in {Derive(Project(E))} :
        /\ fold' = [fold EXCEPT ![r] = m]
        /\ held' = [held EXCEPT ![r] = Admit(m, E)]

----------------------------------------------------------------------------
(* Actions.                                                                *)

All(f) == UNION {held[r][f] : r \in Replicas}
Given == Entries \cup {d.to : d \in All("decisions")}

\* The bound on receipts and denials together.
WithinEvidence(e) == Cardinality(All("received") \cup All("denials") \cup {e}) <= MaxEvidence

TypeOK ==
    \A r \in Replicas :
        /\ held[r].admitted \subseteq held[r].received
        /\ \A f \in fold[r].facts : ValidFact(f)

Init ==
    /\ held = [r \in Replicas |-> NoEvents]
    /\ fold = [r \in Replicas |-> Derive({})]

\* A message from a peer's DID is received, its proof kept as it came.
Receive(r) ==
    \E local \in Given, peer \in PeerDids, prior \in PeerDids \cup {None} :
        LET s == [at |-> <<local, peer>>, prior |-> prior]
        IN  /\ prior # peer
            /\ WithinEvidence(s)
            /\ s \notin held[r].received
            /\ Now(r, [held[r] EXCEPT !.received = @ \cup {s}])

\* The decision under the lock: the one recorded is reused and writes nothing.
Select(r, c, source) ==
    LET E == held[r]
        m == fold[r]
    IN  /\ Open(m, E, c)
        /\ NoIntent(m, E, c)
        /\ ConfirmedBy(m, E, c) # {}
        /\ SuccessorRecipe(m, c) # None
        /\ \E d \in {[at |-> c, to |-> SuccessorRecipe(m, c), source |-> source]} :
              /\ ~Refused(m, E, d)
              /\ Cardinality(All("decisions") \cup {d}) <= MaxDecisions
              /\ Now(r, [E EXCEPT !.decisions = @ \cup {d}])

\* A rotation asked for by hand.
Rotate(r) == \E c \in {f.at : f \in fold[r].facts} : Select(r, c, None)

\* The rotation an admitted input at a public address selects.
PrivateAddress(r) ==
    \E s \in held[r].admitted :
        /\ Local(s.at) \in Disclosed
        /\ WitnessComplete(fold[r], held[r], s)
        /\ Select(r, s.at, s)

Deny(r) ==
    \E c \in {f.at : f \in fold[r].facts}, successors \in BOOLEAN :
        LET d == [at |-> c, successors |-> successors]
        IN  /\ d \notin held[r].denials
            /\ WithinEvidence(d)
            /\ Now(r, [held[r] EXCEPT !.denials = @ \cup {d}])

Import(r) ==
    \E q \in Replicas \ {r} :
        /\ held[q] # held[r]
        /\ Now(r, Union(held[r], held[q]))

Next == \E r \in Replicas : Receive(r) \/ Rotate(r) \/ PrivateAddress(r) \/ Deny(r) \/ Import(r)

Spec == Init /\ [][Next]_vars

----------------------------------------------------------------------------
(* Properties.                                                             *)

Channels(m) == UNION {Pairs(f) : f \in m.facts} \cup Ends(m.positive)

\* What was in conflict stays in conflict and what the evidence showed stays
\* shown, whatever arrives later and in whichever order (continuity/src/model.ts:
\* "none is resolved and no history is dropped").
HistoryKept ==
    [][\A r \in Replicas : /\ fold[r].affected \subseteq fold'[r].affected
                           /\ DOMAIN fold[r].positive \subseteq DOMAIN fold'[r].positive]_vars

\* The head is unique whenever nothing contradicts it, it is never the pair
\* itself while a replacement of that pair is known, and the facts it names
\* derive its links again by themselves (HeadResult in continuity/src/model.ts).
HeadHolds(m, c, h) ==
    /\ h.status # "many"
    /\ h.status = "head" =>
          /\ (\E f \in m.facts : Claiming(f) /\ Leaves(f) = c) => h.channel # c
          /\ h.channel # c => h.channel \in DOMAIN Reach(Derive(h.support).usable, c)
HeadSound == \A r \in Replicas : \A c \in Channels(fold[r]) : HeadHolds(fold[r], c, Head(fold[r], c))

\* A private address belongs to one relationship: whenever it was chosen for two
\* pairs, by whichever replicas, the history of the vault connects the pairs
\* (vault/src/succession.ts: "given to no other relationship").
OneRelationship ==
    \A d, e \in All("decisions") :
        d.to = e.to /\ d.at # e.at =>
            LET m == Derive(UNION {fold[r].facts : r \in Replicas})
            IN  e.at \in Component(DOMAIN m.positive, {d.at})

=============================================================================
