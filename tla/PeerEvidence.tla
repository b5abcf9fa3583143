---------------------------- MODULE PeerEvidence ----------------------------
(***************************************************************************)
(* What a vault holds of a peer and what it proves by it: the did:peer:4   *)
(* spellings in evidence (agent-core/src/resolver.ts), the resolutions     *)
(* recorded with their document (agent-core/src/evidence.ts) and checked   *)
(* against it (vault/src/fold/evidence.ts), and the from_prior proof a     *)
(* message carries, read, verified under the issuer's document and bound   *)
(* to its receipt (packages/from-prior).                                   *)
(*                                                                         *)
(* One peer, ann, with the one document "d" its long form encodes, which   *)
(* lists the key "agree" for key agreement and "auth" for authentication.  *)
(* Keys, signatures and documents are what they are compared by; a token   *)
(* is one that is in order or has one thing wrong with it.                 *)
(***************************************************************************)
EXTENDS FiniteSets, Naturals

CONSTANTS MaxRecorded,  \* bound: the resolutions recorded
          None

VARIABLES recorded,     \* the resolutions recorded
          objects,      \* the documents that can be read here
          seen,         \* the long forms other events of the vault spell
          cited,        \* the resolution the last piece of work cites
          token,        \* the proof a message carries
          sender        \* who sealed that message

evidenceVars == <<recorded, objects, seen, cited, token, sender>>

----------------------------------------------------------------------------
(* Spellings.                                                              *)

\* A long form carries its document under a hash of it; a bent one does not.
LongForms == {"long", "bent"}
Validates(s) == s # "bent"
Canonical(s) == IF s \in {"long", "short"} THEN "ann" ELSE s

\* A spelling in evidence is validated when it is looked up.
KnownLongForm(inEvidence) == IF "long" \in inEvidence THEN "long" ELSE None
Spelled == seen \cup {r.presented : r \in recorded}

\* The answer is final either way: a document, or none to be had from this.
ResolvePeer(s) ==
    LET longForm == IF s \in LongForms THEN s ELSE KnownLongForm(Spelled)
    IN  IF longForm # None /\ Validates(longForm) THEN "d" ELSE None

\* A mediated route is named by the mediator's long form, once that is known.
RouteStanding(status, mediator) ==
    CASE status = "pending" -> "waiting"
      [] status \notin {"pending", "usable"} -> "blocked"
      [] status = "usable" /\ mediator \notin LongForms /\ KnownLongForm(Spelled) = None -> "waiting"
      [] OTHER -> "ready"

----------------------------------------------------------------------------
(* Resolutions.                                                            *)

\* As recorded: the methods listed are the document's, the key one of them.
Resolution(s, doc) == [presented |-> s, doc |-> doc, listed |-> TRUE, key |-> "agree"]

AuthorizedKeys == {"agree", "auth"}
AgreementKeys == {"agree"}

\* What another writer may have recorded beside: one thing wrong with it.
Flawed ==
    {Resolution("bent", "d"), Resolution("long", "x"), Resolution("short", "x"),
     [Resolution("short", "d") EXCEPT !.listed = FALSE], [Resolution("short", "d") EXCEPT !.key = "auth"]}
Resolutions == {Resolution("long", "d"), Resolution("short", "d")} \cup Flawed

\* A long form derives its document; anything else is read and must be the one.
ResolvedDocument(r) ==
    IF Validates(r.presented) /\ r.presented # "long" /\ r.doc \notin objects THEN None
    ELSE IF Validates(r.presented) /\ r.doc = "d" THEN "d"
    ELSE "invalid"

\* No verdict while the document is not here.
ResolutionCheck(r) ==
    CASE ResolvedDocument(r) = None -> "unchecked"
      [] ResolvedDocument(r) = "d" /\ r.listed /\ r.key \in AgreementKeys -> "verified"
      [] OTHER -> "invalid"

\* Read back for the work that goes on from it.
ReadResolution(r) ==
    IF r.presented = "long" THEN IF r.doc = "d" THEN "d" ELSE "invalid"
    ELSE IF r.doc \notin objects THEN None ELSE IF r.doc = "d" THEN "d" ELSE "invalid"

\* didcomm's resolver for one piece of work: fresh, pinned, then by spelling.
PinnedAnswer(current, pinned, s) ==
    IF current # None THEN current ELSE IF pinned # None THEN pinned ELSE ResolvePeer(s)

----------------------------------------------------------------------------
(* A from_prior proof: who was written as ann now writes as new.           *)

Proof == [formed |-> TRUE, profiled |-> TRUE, kid |-> "listed", signed |-> TRUE, iss |-> "long", sub |-> "new", aud |-> None]
Forged ==
    {[Proof EXCEPT !.formed = FALSE], [Proof EXCEPT !.profiled = FALSE], [Proof EXCEPT !.signed = FALSE],
     [Proof EXCEPT !.kid = "unlisted"], [Proof EXCEPT !.kid = "foreign"], [Proof EXCEPT !.aud = "here"],
     [Proof EXCEPT !.iss = "bent"], [Proof EXCEPT !.iss = "here"], [Proof EXCEPT !.sub = "long"],
     [Proof EXCEPT !.sub = "bent"], [Proof EXCEPT !.sub = "here"]}
Endings == {[Proof EXCEPT !.sub = None, !.aud = a] : a \in {None, "here", "other", "long"}}
InOrder == {Proof, [Proof EXCEPT !.iss = "short"]}
Tokens == InOrder \cup Endings \cup Forged \cup {[t EXCEPT !.iss = "short"] : t \in Forged}

Change(t) ==
    IF t.sub # None THEN Validates(t.sub) /\ Canonical(t.sub) # Canonical(t.iss) /\ t.aud = None
    ELSE t.aud # None => Validates(t.aud) /\ Canonical(t.aud) # Canonical(t.iss)

Profile(t) == t.formed /\ t.profiled /\ Validates(t.iss) /\ t.kid # "foreign" /\ Change(t)

\* All that can be told without the issuer's document.
Precheck(t, from) == Profile(t) /\ (t.sub # None /\ from # None => Canonical(from) = Canonical(t.sub))

Verify(t, longForm) ==
    /\ Profile(t)
    /\ longForm \in LongForms /\ Validates(longForm) /\ Canonical(longForm) = Canonical(t.iss)
    /\ t.kid = "listed" /\ t.signed

Bind(t, recipient, from) ==
    /\ recipient # Canonical(t.iss)
    /\ IF t.sub # None THEN from # None /\ Canonical(from) = Canonical(t.sub) /\ recipient # Canonical(t.sub)
       ELSE from = None /\ t.aud = recipient

\* A long form is its own; a short one needs a resolution that stands.
Material(iss) ==
    IF iss \in LongForms THEN {iss}
    ELSE {"long" : r \in {q \in recorded : iss = "short" /\ ResolutionCheck(q) = "verified"}}

\* The proof against the first material, if it gets as far and there is one.
ProofCheck(t, from) ==
    IF ~Precheck(t, from) \/ t.sub = None \/ Material(t.iss) = {} THEN None
    ELSE IF Verify(t, CHOOSE m \in Material(t.iss) : TRUE) THEN "verified" ELSE "invalid"

CarrierProof(t, from) ==
    CASE ~Precheck(t, from) -> "invalid"
      [] Precheck(t, from) /\ t.sub = None -> "unsupported"
      [] Precheck(t, from) /\ t.sub # None /\ Canonical(t.iss) = "here" -> "invalid"
      [] OTHER -> IF ProofCheck(t, from) = None THEN "pending" ELSE ProofCheck(t, from)

Fact(t, from) == CarrierProof(t, from) = "verified" /\ Bind(t, "here", from)

\* The proof ann makes under a method and with a key; it is handed out once it
\* verifies under ann's own document and says what was asked.
Signed(m, own) == [Proof EXCEPT !.kid = m, !.signed = own]
Returned == {t \in {Signed(m, own) : m \in {"listed", "unlisted", "foreign"}, own \in BOOLEAN} : Verify(t, "long")}

----------------------------------------------------------------------------
(* Steps.                                                                  *)

EvidenceInit ==
    /\ recorded = {} /\ objects = {} /\ seen = {} /\ cited = None
    /\ token \in Tokens /\ sender \in {"new", "other"}

Carried == UNCHANGED <<token, sender>>

\* An equal record is cited as it is while its document is here; and else a new
\* one, which brings the document with it.
CommitResolution(s) ==
    LET r == Resolution(s, "d")
    IN  /\ ResolvePeer(s) = "d" /\ r.key \in AuthorizedKeys
        /\ \/ r \in recorded /\ "d" \in objects /\ UNCHANGED <<recorded, objects>>
           \/ /\ ~(r \in recorded /\ "d" \in objects)
              /\ r \in recorded \/ Cardinality(recorded) < MaxRecorded
              /\ recorded' = recorded \cup {r} /\ objects' = objects \cup {"d"}
        /\ cited' = r
        /\ UNCHANGED seen /\ Carried

\* What another replica recorded comes in with its document.
ImportResolution ==
    /\ Cardinality(recorded) < MaxRecorded
    /\ \E r \in Resolutions \ recorded : recorded' = recorded \cup {r} /\ objects' = objects \cup {r.doc}
    /\ UNCHANGED <<seen, cited>> /\ Carried

\* Any other event that spells a long form of ann's.
Mention == \E s \in LongForms \ seen : seen' = seen \cup {s} /\ UNCHANGED <<recorded, objects, cited>> /\ Carried

\* A document is found damaged.
Damage == \E doc \in objects : objects' = objects \ {doc} /\ UNCHANGED <<recorded, seen, cited>> /\ Carried

EvidenceNext == (\E s \in {"long", "short"} : CommitResolution(s)) \/ ImportResolution \/ Mention \/ Damage

----------------------------------------------------------------------------
(* Properties.                                                             *)

\* Exactly the proofs in order, brought by the successor, are ever believed,
\* whatever is recorded beside; what the precheck refuses could never have been
\* ("a token this refuses can never verify or bind"); and what ann hands out
\* passes wherever its document is had.
ProofsTrue ==
    /\ Fact(token, sender) => token \in InOrder /\ sender = "new"
    /\ ~Precheck(token, sender) => \A m \in LongForms : ~(Verify(token, m) /\ Bind(token, "here", sender))
    /\ \A t \in Returned : Precheck(t, "new") /\ Bind(t, "here", "new") /\ CarrierProof(t, "new") = "verified"

\* A verdict is withdrawn by the loss of a document and never turned by what is
\* recorded beside; a spelling once resolved and a route once open stay so; and
\* work rests on a resolution that reads and checks when it cites it.
VerdictKept ==
    /\ CarrierProof(token, sender) # "pending" =>
             CarrierProof(token, sender)' \in {CarrierProof(token, sender)} \cup (IF objects \subseteq objects' THEN {} ELSE {"pending"})
    /\ \A r \in recorded : ResolutionCheck(r) # "unchecked" =>
             ResolutionCheck(r)' = ResolutionCheck(r) \/ (ResolutionCheck(r)' = "unchecked" /\ r.doc \notin objects')
    /\ \A s \in {"long", "short"} : ResolvePeer(s) # None => ResolvePeer(s)' = ResolvePeer(s)
    /\ RouteStanding("usable", "short") = "ready" => RouteStanding("usable", "short")' = "ready"
    /\ cited' # cited =>
             /\ ResolutionCheck(cited)' = "verified" /\ ReadResolution(cited)' = "d"
             /\ PinnedAnswer(ReadResolution(cited), None, cited.presented)' = "d"
=============================================================================
