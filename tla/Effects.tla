------------------------------ MODULE Effects ------------------------------
(***************************************************************************)
(* What follows a receipt.  One input, a Ping a peer writes to a disclosed *)
(* entry of ours, reaches every replica of an account, some more than once *)
(* and some by import too.  The input requests its own receipt, asks for a *)
(* reply, acknowledges a message of ours and selects a private address, so *)
(* each operation an input can earn is owed for it.                        *)
(*                                                                         *)
(* A delivery is recorded as an observation of its own under the writer    *)
(* lock and admissions are reconciled before the lock is released.  Only   *)
(* the vault's first observation, admitted there as the input's witness,   *)
(* is live: its call chain decides the private address, finds who answers, *)
(* makes the notification and the effects, and calls each once.  Anything  *)
(* else is left to a completion by hand, under the same tuple.             *)
(*                                                                         *)
(* Who answers an input that was picked up is the first replica of the     *)
(* mediator's registration of it.  The mediator purges a registration when *)
(* it lapses, and a replica that asks then is the first of another: the    *)
(* registrations themselves, and requests that overtake each other, are    *)
(* ExecutionAnswer's.                                                      *)
(***************************************************************************)
EXTENDS Integers, Sequences, FiniteSets

CONSTANTS
  Replicas,      \* the replicas of the account, each with its vault
  Intents,       \* what the peer's message may say; two differ in content
  Acknowledging, \* the replicas whose local policy gives receipts
  Ways,          \* how a delivery may come: picked up at the mediator or posted straight here
  Proofs,        \* the rotation proofs a delivery may carry
  MaxObserved,   \* bound on observations: their places in canonical event order
  MaxOwn,        \* bound on the observations of one replica
  MaxDisturbed,  \* bound on faults, imports, purges, evidence and what users ask for
  None

ASSUME EffectsAssumption ==
  /\ Acknowledging \subseteq Replicas
  /\ Ways \subseteq {"pickup", "posted"}
  /\ Proofs \subseteq {"none", "later", "refused"}
  /\ None \notin Replicas \cup Intents

VARIABLES
  vault,     \* vault[r]: the events of r's vault
  jobs,      \* jobs[r]: the call chains of r that follow a receipt
  answerers, \* the first replica of each registration of the input the mediator made, in turn
  standing,  \* whether the mediator still keeps the last of them
  calls,     \* history: the calls made under an initial action
  entered,   \* entered[r]: history, the observations that first entered r's vault, and how many at once
  disturbed  \* how many of the steps that MaxDisturbed bounds were taken
vars == <<vault, jobs, answerers, standing, calls, entered, disturbed>>
mediator == <<answerers, standing>>

Effect == {"ack", "reply"}
Operation == Effect \cup {"notify"}

(***************************************************************************)
(* The vault's events.  An author's events of one kind are told apart by   *)
(* their number, so that a record made twice is seen twice.                *)
(***************************************************************************)
Of(v, kind) == {x \in v : x.kind = kind}
Observations(v) == Of(v, "in")
Number(v, r, kind) == Cardinality({x \in Of(v, kind) : x.author = r})
Evidence == [kind |-> "evidence"]
Denial == [kind |-> "denied"]
Admission(r, source) == [kind |-> "admitted", author |-> r, source |-> source]
Acknowledged(v, r) == [kind |-> "acknowledged", author |-> r, n |-> Number(v, r, "acknowledged")]
Output(v, r, op, source, rotation) ==
  [kind |-> "out", author |-> r, op |-> op, source |-> source, rotation |-> rotation, n |-> Number(v, r, "out")]
Skip(v, r, op, source) == [kind |-> "skip", author |-> r, op |-> op, source |-> source, n |-> Number(v, r, "skip")]
Decision(r, source) == [kind |-> "rotation", author |-> r, source |-> source]

(***************************************************************************)
(* The input in a vault: which observations are admitted, whether they     *)
(* agree, and through which one the input speaks.                          *)
(***************************************************************************)
CompleteWitness(v, o) == o.proof = "none" \/ (o.proof = "later" /\ Evidence \in v)
Denied(v) == Denial \in v
AdmittedSources(v) == {a.source : a \in Of(v, "admitted")}
Admitted(v) == {o \in AdmittedSources(v) \cap Observations(v) : CompleteWitness(v, o)}
AdmittedIntents(v) == {o.intent : o \in Admitted(v)}
Established(v) == Cardinality(AdmittedIntents(v)) = 1
First(os) == CHOOSE o \in os : \A p \in os : o.at <= p.at
FirstWitness(v) == IF Established(v) THEN First(Admitted(v)) ELSE None

(***************************************************************************)
(* The admissions a vault owes.  One observation of the input is admitted  *)
(* a round, in canonical order, each judged against what the rounds before *)
(* admitted: the first eligible fixes the intent if none is, and only the  *)
(* observations that agree follow.                                         *)
(***************************************************************************)
Eligible(v) ==
  IF Denied(v) THEN {} ELSE {o \in Observations(v) \ AdmittedSources(v) : CompleteWitness(v, o)}
Admissible(v) ==
  LET eligible == Eligible(v)
      admitted == AdmittedIntents(v)
      intents == IF admitted # {} \/ eligible = {} THEN admitted ELSE {First(eligible).intent}
  IN  IF Cardinality(intents) > 1 THEN {} ELSE {o \in eligible : o.intent \in intents}
AdmitReceipts(v, r) == v \cup {Admission(r, o) : o \in Admissible(v)}

Acknowledge(v, r) ==
  IF Established(v) /\ Of(v, "acknowledged") = {} THEN v \cup {Acknowledged(v, r)} ELSE v
RecordOwed(v, r) == Acknowledge(AdmitReceipts(v, r), r)

(***************************************************************************)
(* What an operation came to under its tuple, and what may be made now.    *)
(***************************************************************************)
Results(v, op) == {x \in Of(v, "out") \cup Of(v, "skip") : x.op = op /\ x.source # None}
SettledAfresh(v, op) == FALSE
Settled(v, op) == Results(v, op) # {}
TakesReply(v) == Established(v) /\ ~Denied(v)
Speaks(v, o) == Established(v) => FirstWitness(v) = o
Owes(v, r, o) ==
  /\ FirstWitness(v) = o
  /\ \/ ~Settled(v, "ack") /\ r \in Acknowledging
     \/ ~Settled(v, "reply")

(* The receipt is the vault's own and never skipped; the reply is the      *)
(* handler's, which may answer, owe nothing for good, give nothing now or  *)
(* throw.  A record the disk refuses leaves nothing behind.                *)
Answers(r, op) ==
  IF op = "ack" THEN IF r \in Acknowledging THEN {"content"} ELSE {"none"}
  ELSE {"content", "skip"}
Recorded(v, r, op, answer) ==
  CASE Settled(v, op) -> v
    [] ~Settled(v, op) /\ answer = "skip" -> v \cup {Skip(v, r, op, FirstWitness(v))}
    [] ~Settled(v, op) /\ answer = "content" /\ TakesReply(v) -> v \cup {Output(v, r, op, FirstWitness(v), None)}
    [] OTHER -> v
Made(v, w) == {x \in w \ v : x.kind = "out"}

(* The notification of a decision: reused when an output names it, made    *)
(* under the input's tuple when the decision has a source, else under an   *)
(* ID of its own.                                                          *)
Naming(v, d) == {x \in Of(v, "out") : x.rotation = d}
TakesNotification(v, d) == d.source = None \/ (d.source \in Admitted(v) /\ TakesReply(v))
Notified(v, r, d) ==
  IF /\ Naming(v, d) = {}
     /\ TakesNotification(v, d)
     /\ d.source # None => ~Settled(v, "notify")
  THEN v \cup {Output(v, r, "notify", d.source, d)} ELSE v

-----------------------------------------------------------------------------
Init ==
  /\ vault = [r \in Replicas |-> {}]
  /\ jobs = [r \in Replicas |-> {}]
  /\ answerers = <<>> /\ standing = FALSE
  /\ calls = {}
  /\ entered = [r \in Replicas |-> {}]
  /\ disturbed = 0

Disturbs == disturbed < MaxDisturbed /\ disturbed' = disturbed + 1

Enters(r, v) == entered' = [entered EXCEPT ![r] = IF @ = {} THEN Observations(v) ELSE @]

(* A receipt: the observation is committed, then the admissions, under one *)
(* lock.  A crash in between leaves the observation and no call chain.     *)
(* Every delivery of the input comes the way its entry discloses: posted   *)
(* straight to one runtime, and to it alone, or picked up in the one       *)
(* account.  The same message delivered again is the same envelope and     *)
(* carries the same proof.                                                 *)
LiveAgain(v, o, w) == FirstWitness(w) = o
Live(v, o, w) == Observations(v) = {} /\ FirstWitness(w) = o
Observes(r, o) ==
  /\ o.author = r
  /\ Number(vault[r], r, "in") < MaxOwn
  /\ \A q \in Replicas : \A p \in Observations(vault[q]) :
       /\ p.at # o.at
       /\ p.intent = o.intent => p.proof = o.proof
       /\ p.way = o.way /\ (o.way = "posted" => p.author = r)

Receive(r) ==
  \E i \in Intents, p \in Proofs, w \in Ways, at \in 1..MaxObserved :
    LET o == [kind |-> "in", author |-> r, at |-> at, intent |-> i, proof |-> p, way |-> w]
        v == vault[r] \cup {o}
        a == AdmitReceipts(v, r)
    IN  /\ Observes(r, o)
        /\ vault' = [vault EXCEPT ![r] = a]
        /\ jobs' = [jobs EXCEPT ![r] = @ \cup {[source |-> o, live |-> Live(vault[r], o, a), stage |-> "owed", rotation |-> None, under |-> None, todo |-> {}]}]
        /\ Enters(r, v)
        /\ UNCHANGED <<mediator, calls, disturbed>>

CrashInReceipt(r) ==
  \E i \in Intents, p \in Proofs, w \in Ways, at \in 1..MaxObserved :
    LET o == [kind |-> "in", author |-> r, at |-> at, intent |-> i, proof |-> p, way |-> w]
    IN  /\ Observes(r, o)
        /\ vault' = [vault EXCEPT ![r] = @ \cup {o}]
        /\ jobs' = [jobs EXCEPT ![r] = {}]
        /\ Enters(r, vault'[r])
        /\ Disturbs
        /\ UNCHANGED <<mediator, calls>>

Ends(r, j) == jobs' = [jobs EXCEPT ![r] = @ \ {j}]
Goes(r, j, k) == jobs' = [jobs EXCEPT ![r] = (@ \ {j}) \cup {k}]

(* The pass over what the vault owes; a step that throws is left.          *)
AfterReceipt(r) == \E j \in jobs[r] :
  /\ j.stage = "owed"
  /\ \/ vault' = [vault EXCEPT ![r] = RecordOwed(@, r)] /\ UNCHANGED disturbed
     \/ UNCHANGED vault /\ Disturbs
  /\ IF j.live THEN Goes(r, j, [j EXCEPT !.stage = "address"]) ELSE Ends(r, j)
  /\ UNCHANGED <<mediator, calls, entered>>

(* Every replica a live input came to decides the private address at once, *)
(* unless a decision for the pair is recorded; the choice may be refused.  *)
Selects(v, o) == o \in Admitted(v) /\ TakesReply(v) /\ Of(v, "rotation") = {}
PrivateAddress(r) == \E j \in jobs[r] :
  /\ j.stage = "address"
  /\ \/ /\ Selects(vault[r], j.source)
        /\ vault' = [vault EXCEPT ![r] = @ \cup {Decision(r, j.source)}]
        /\ Goes(r, j, [j EXCEPT !.stage = "find", !.rotation = Decision(r, j.source)])
        /\ UNCHANGED disturbed
     \/ /\ IF Selects(vault[r], j.source) THEN Disturbs ELSE UNCHANGED disturbed
        /\ Goes(r, j, [j EXCEPT !.stage = "find"])
        /\ UNCHANGED vault
  /\ UNCHANGED <<mediator, calls, entered>>

(* The mediator's answer to r: the registration that stands, or a new one. *)
Registered(r) == IF standing THEN answerers ELSE Append(answerers, r)

(* Who answers: an input posted here is ours; one picked up is registered  *)
(* for, and the request may be counted though its answer is lost.          *)
FindResponder(r) == \E j \in jobs[r] :
  LET next == [j EXCEPT !.stage = IF j.rotation = None THEN "decide" ELSE "notify"]
      asked == answerers' = Registered(r) /\ standing' = TRUE
  IN  /\ j.stage = "find"
      /\ \/ /\ j.rotation = None /\ ~Owes(vault[r], r, j.source)
            /\ Ends(r, j) /\ UNCHANGED <<mediator, disturbed>>
         \/ /\ j.rotation # None \/ Owes(vault[r], r, j.source)
            /\ \/ /\ j.source.way = "posted"
                  /\ Goes(r, j, next) /\ UNCHANGED <<mediator, disturbed>>
               \/ /\ j.source.way = "pickup"
                  /\ asked
                  /\ IF answerers'[Len(answerers')] = r
                       THEN Goes(r, j, [next EXCEPT !.under = Len(answerers')]) ELSE Ends(r, j)
                  /\ UNCHANGED disturbed
               \/ /\ j.source.way = "pickup"
                  /\ asked \/ UNCHANGED mediator
                  /\ Ends(r, j) /\ Disturbs
      /\ UNCHANGED <<vault, calls, entered>>

(* The registration lapses: whoever asks next is first of another.         *)
PurgeExecutions ==
  /\ standing
  /\ standing' = FALSE
  /\ Disturbs
  /\ UNCHANGED <<vault, jobs, answerers, calls, entered>>

Notify(r) == \E j \in jobs[r] :
  /\ j.stage = "notify"
  /\ \E v \in {vault[r], Notified(vault[r], r, j.rotation)} :
       /\ vault' = [vault EXCEPT ![r] = v]
       /\ Goes(r, j, [j EXCEPT !.stage = "decide", !.todo = Made(vault[r], v)])
       /\ IF v = Notified(vault[r], r, j.rotation) THEN UNCHANGED disturbed ELSE Disturbs
  /\ UNCHANGED <<mediator, calls, entered>>

(* The effects decided under one lock, each result committed on its own.   *)
Decided(v, r, given) == Recorded(Recorded(v, r, "ack", given.ack), r, "reply", given.reply)
DecideEffects(r) == \E j \in jobs[r] :
  /\ j.stage = "decide" /\ j.todo = {}
  /\ \E given \in [ack : Answers(r, "ack") \cup {"none"}, reply : Answers(r, "reply") \cup {"none"}] :
       LET v == IF Established(vault[r]) /\ Speaks(vault[r], j.source) THEN Decided(vault[r], r, given) ELSE vault[r]
       IN  /\ vault' = [vault EXCEPT ![r] = v]
           /\ IF Made(vault[r], v) = {} THEN Ends(r, j)
              ELSE Goes(r, j, [j EXCEPT !.stage = "call", !.todo = Made(vault[r], v)])
           /\ IF given.ack \in Answers(r, "ack") /\ given.reply # "none" THEN UNCHANGED disturbed ELSE Disturbs
  /\ UNCHANGED <<mediator, calls, entered>>

(* The process dies between the commit of the receipt and of the reply.    *)
CrashInEffects(r) == \E j \in jobs[r] :
  /\ j.stage = "decide" /\ j.todo = {}
  /\ \E ack \in Answers(r, "ack") :
       vault' = [vault EXCEPT ![r] = IF Established(@) /\ Speaks(@, j.source) THEN Recorded(@, r, "ack", ack) ELSE @]
  /\ jobs' = [jobs EXCEPT ![r] = {}]
  /\ Disturbs
  /\ UNCHANGED <<mediator, calls, entered>>

(* The calls, each under the initial action minted with its intent; a      *)
(* crash before one leaves the intent recorded and not called.             *)
CallEffect(r) == \E j \in jobs[r] : \E x \in j.todo :
  /\ \A y \in j.todo : y.op = "ack" => y = x
  /\ calls' = calls \cup {[by |-> r, op |-> x.op, source |-> j.source, under |-> j.under, n |-> Cardinality({c \in calls : c.by = r /\ c.op = x.op})]}
  /\ IF j.stage = "call" /\ j.todo = {x} THEN Ends(r, j) ELSE Goes(r, j, [j EXCEPT !.todo = @ \ {x}])
  /\ UNCHANGED <<vault, mediator, entered, disturbed>>

(* Completions by hand, under the same tuple and a manual action.          *)
CompleteResponse(r) == \E op \in Effect : \E answer \in Answers(r, op) :
  /\ Established(vault[r])
  /\ vault' = [vault EXCEPT ![r] = Recorded(@, r, op, answer)]
  /\ Disturbs
  /\ UNCHANGED <<jobs, mediator, calls, entered>>

CompleteNotification(r) == \E d \in Of(vault[r], "rotation") :
  /\ vault' = [vault EXCEPT ![r] = Notified(@, r, d)]
  /\ Disturbs
  /\ UNCHANGED <<jobs, mediator, calls, entered>>

(* A rotation asked for by hand, over no input: the decision, then its     *)
(* notification; a decision recorded already is reused.                    *)
Rotate(r) ==
  /\ Of(vault[r], "rotation") = {} /\ Admitted(vault[r]) # {} /\ ~Denied(vault[r])
  /\ LET d == Decision(r, None)
         v == vault[r] \cup {d}
     IN  \E w \in {v, Notified(v, r, d)} : vault' = [vault EXCEPT ![r] = w]
  /\ Disturbs
  /\ UNCHANGED <<jobs, mediator, calls, entered>>

-----------------------------------------------------------------------------
(* What else changes a vault.                                              *)
Reconcile(r) ==
  /\ vault' = [vault EXCEPT ![r] = RecordOwed(@, r)]
  /\ UNCHANGED <<jobs, mediator, calls, entered, disturbed>>

BringEvidence(r) ==
  /\ "later" \in Proofs
  /\ vault' = [vault EXCEPT ![r] = RecordOwed(@ \cup {Evidence}, r)]
  /\ Disturbs
  /\ UNCHANGED <<jobs, mediator, calls, entered>>

Deny(r) ==
  /\ vault' = [vault EXCEPT ![r] = @ \cup {Denial}]
  /\ Disturbs
  /\ UNCHANGED <<jobs, mediator, calls, entered>>

Import(r) == \E s \in Replicas :
  /\ vault' = [vault EXCEPT ![r] = @ \cup vault[s]]
  /\ Enters(r, vault'[r])
  /\ Disturbs
  /\ UNCHANGED <<jobs, mediator, calls>>

Crash(r) ==
  /\ jobs' = [jobs EXCEPT ![r] = {}]
  /\ Disturbs
  /\ UNCHANGED <<vault, mediator, calls, entered>>

(* What MaxDisturbed counts is only what changes something.                *)
Changes == disturbed' # disturbed => <<vault, jobs, mediator>>' # <<vault, jobs, mediator>>
Next ==
  /\ \/ PurgeExecutions
     \/ \E r \in Replicas :
          \/ Receive(r) \/ CrashInReceipt(r) \/ AfterReceipt(r) \/ PrivateAddress(r) \/ FindResponder(r)
          \/ Notify(r) \/ DecideEffects(r) \/ CrashInEffects(r) \/ CallEffect(r)
          \/ CompleteResponse(r) \/ CompleteNotification(r) \/ Rotate(r)
          \/ Reconcile(r) \/ BringEvidence(r) \/ Deny(r) \/ Import(r) \/ Crash(r)
  /\ Changes

Spec == Init /\ [][Next]_vars

-----------------------------------------------------------------------------
(* The state keeps its types: a call chain is one of a recorded            *)
(* observation, and what it still has to call is an output of the vault.   *)
TypeOK ==
  /\ answerers \in Seq(Replicas) /\ standing \in BOOLEAN
  /\ \A r \in Replicas : \A j \in jobs[r] : j.source \in vault[r] /\ j.todo \subseteq vault[r]

(* An input is answered once on its own.  A call under an initial action   *)
(* is made for a live input alone: the observation that first entered the  *)
(* vault, recorded by that replica and not delivered again, imported or    *)
(* admitted late (receipt.ts settle).  Each operation is called at most    *)
(* once by a replica, and at most once by all the replicas that were       *)
(* listed in one registration, whatever crashes, completions by hand and   *)
(* imports come in between; two of them answer only when a registration    *)
(* was purged between their requests (responder.ts).                       *)
CallsEarned ==
  /\ \A c \in calls : c.source.author = c.by /\ entered[c.by] = {c.source}
  /\ \A c, d \in calls : c.op = d.op /\ (c.by = d.by \/ c.under = d.under) => c = d

(* A result stands: no step of a replica records an output or a skip for   *)
(* an operation its vault already has a result for, nor two at once, nor a *)
(* second notification of a decision; only an import brings results        *)
(* together that disagree (effects.ts settle, rotate.ts                    *)
(* settleNotification, send.ts automaticDraft).                            *)
ResultsStand ==
  [][\A r \in Replicas : LET own == {x \in vault'[r] \ vault[r] : x.kind \in {"out", "skip"} /\ x.author = r} IN
       /\ \A op \in Operation : Results(own, op) # {} => Results(vault[r], op) = {} /\ Cardinality(Results(own, op)) = 1
       /\ \A x \in Of(own, "out") : x.rotation # None => Naming(vault[r], x.rotation) = {}]_vars

(* A replica never contradicts itself: the observations it admitted agree  *)
(* on what the input says, and the peer's acknowledgement, delivered again *)
(* or reconciled at an open, an import and a receipt, is recorded by it    *)
(* once (admission/model.ts eligibilityOf, acknowledgements.ts).           *)
OwnRecordsAgree ==
  \A r \in Replicas :
    /\ Cardinality({a.source.intent : a \in {b \in Of(vault[r], "admitted") : b.author = r}}) <= 1
    /\ Number(vault[r], r, "acknowledged") <= 1
=============================================================================
