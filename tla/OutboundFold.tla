---------------------------- MODULE OutboundFold ----------------------------
(***************************************************************************)
(* What the vault reads of one outgoing message (vault/src/fold/outbound.ts): *)
(* its intents, preparations, submissions, terminations and receipts, and  *)
(* what it may still need.  A fold is a function of the events held, and   *)
(* an import brings the events of any replica in any order, so the module  *)
(* lets the events and the evidence the other folds draw from theirs       *)
(* arrive one by one, in every order, and says which verdicts stand.       *)
(*                                                                         *)
(* The message is a send of the user's, a reply to an input in its own     *)
(* channel or in a successor of it, or the notification of a rotation.     *)
(* An intent is what it names -- content, sender, recipient, tuple,        *)
(* rotation, told apart by a number -- and its source; what the rules of   *)
(* an operation demand of its fields holds of the first and not of the     *)
(* second.  The order of events in time is left out.                       *)
(***************************************************************************)
EXTENDS FiniteSets, Naturals

CONSTANT MaxEvents      \* bound: the events and pieces of evidence that arrive

VARIABLES form,         \* what the message is
          h,            \* what is here
          arrived       \* how much arrived since

Forms == {"send", "reply", "onward", "notice"}
Contents == {1, 2}
Sources == IF form = "send" THEN {"none"} ELSE {"own", "alien"}
Preps == {"fit", "astray", "crossed"}
Codes == {"expired", "cancelled"}

\* Evidence: the sender's creation, and another under its ID; the source, its
\* witness, its admission and a dispute of its input's content; a source of
\* another input; the path between the channels; the rotation and its
\* verification; another message naming that rotation; a conflict of the
\* continuity all of these rest on; an admitted receipt, and a dispute of it; a
\* skip under the tuple; a denial; an erasure.
Evidence ==
    {"created", "forked", "closed", "erased", "receipt", "receiptDisputed"}
        \cup (IF form = "send" THEN {} ELSE {"in", "witnessed", "disputed", "alien", "broken", "skip"})
        \cup (IF form = "onward" THEN {"path"} ELSE {})
        \cup (IF form = "notice" THEN {"rotation", "verified", "rival"} ELSE {})

\* What an event must follow: evidence about a thing is drawn once it is here.
After(e) ==
    CASE e = "forked" -> {"created"} [] e = "witnessed" -> {"in"} [] e = "disputed" -> {"in"}
      [] e = "verified" -> {"rotation"} [] e = "receiptDisputed" -> {"receipt"} [] OTHER -> {}

----------------------------------------------------------------------------
(* The intent and its sender.                                              *)

\* Records of one message agree when they name one intent; their sources differ.
Consistent == Cardinality({i.names : i \in h.out}) = 1
Names == CHOOSE n \in Contents : \E i \in h.out : i.names = n

SenderConflict == "forked" \in h.ev
ChannelKnown == Consistent /\ "created" \in h.ev /\ ~SenderConflict

\* A message expires when it is a send or a notification's content says so.
Expires == form = "send"

----------------------------------------------------------------------------
(* Preparations and what names them.                                       *)

\* Each contradiction is found once what it needs is here, before any absence.
PreparationStatus(p) ==
    CASE ~Consistent -> "pending"
      [] Consistent /\ p = "astray" /\ ChannelKnown -> "conflict"
      [] Consistent /\ p = "crossed" /\ p \in h.resolved -> "conflict"
      [] Consistent /\ p = "fit" /\ ChannelKnown /\ p \in h.resolved /\ p \in h.read -> "complete"
      [] OTHER -> "pending"

Standing(p) == p \in h.prep /\ PreparationStatus(p) = "complete"

\* The best any preparation reaches, one waiting before one in conflict.
PreparedOf ==
    CASE \E p \in h.prep : Standing(p) -> "complete"
      [] h.prep # {} /\ (\A p \in h.prep : PreparationStatus(p) = "conflict") -> "conflict"
      [] OTHER -> "pending"

\* A submission stands as the preparation it names by its event.
SubmissionOf(p) == IF p \in h.prep THEN PreparationStatus(p) ELSE "pending"

\* With a bug: a message is submitted when every submission of it stands.
SubmittedByAll == h.sub # {} /\ \A p \in h.sub : SubmissionOf(p) = "complete"

Submitted == \E p \in h.sub : SubmissionOf(p) = "complete"
Unresolved == ~(h.sub \subseteq h.prep)

TerminationOf(code) == Consistent /\ (code = "expired" => Expires)
Terminal == \E code \in h.fail : TerminationOf(code)

----------------------------------------------------------------------------
(* What an intent derived from an input rests on.                          *)

\* An observation here contradicts the record or adds to what is missing.
ReadSource(s) ==
    CASE s = "alien" /\ "alien" \in h.ev -> "conflict"
      [] s = "own" /\ "in" \in h.ev /\ h.ev \cap {"disputed", "broken"} # {} -> "conflict"
      [] s = "own" /\ "witnessed" \in h.ev /\ ("in" \notin h.ev \/ h.ev \cap {"disputed", "broken"} = {}) -> "complete"
      [] s = "none" -> "complete"
      [] OTHER -> "pending"

\* The output continues the source's channel, or a verified successor of it.
Continues ==
    CASE form # "onward" \/ ~ChannelKnown \/ "in" \notin h.ev -> "complete"
      [] form = "onward" /\ ChannelKnown /\ "in" \in h.ev /\ "broken" \in h.ev -> "conflict"
      [] form = "onward" /\ ChannelKnown /\ {"in", "path"} \subseteq h.ev /\ "broken" \notin h.ev -> "complete"
      [] OTHER -> "pending"

\* The rules that compare a reply with its source are read once that is here.
BuiltInOf(i) ==
    IF Continues = "conflict" \/ (i.names = 2 /\ i.source = "own" /\ "in" \in h.ev) THEN "conflict" ELSE Continues

\* A notification is triggered as its decision was, alone for it.
NotificationOf(i) ==
    CASE \/ i.names = 2 \/ "rival" \in h.ev
         \/ "rotation" \in h.ev /\ (i.source # "own" \/ "broken" \in h.ev) -> "conflict"
      [] i.names = 1 /\ "rival" \notin h.ev /\ "verified" \in h.ev /\ i.source = "own" /\ "broken" \notin h.ev -> "complete"
      [] OTHER -> "pending"

EffectOf(i) ==
    LET parts == {ReadSource(i.source)}
                     \cup (IF form = "notice" THEN {NotificationOf(i)}
                           ELSE IF form = "send" THEN {} ELSE {BuiltInOf(i)})
    IN  CASE "conflict" \in parts -> "conflict"
          [] "conflict" \notin parts /\ "pending" \in parts -> "pending"
          [] OTHER -> "complete"

\* A record that contradicts decides for all, and else one that waits; an
\* output and a skip under one tuple contradict each other.
EffectOfRecords(skipped) ==
    LET verdicts == {EffectOf(i) : i \in h.out}
    IN  CASE ~Consistent -> "complete"
          [] Consistent /\ (skipped \/ "conflict" \in verdicts) -> "conflict"
          [] Consistent /\ ~skipped /\ "conflict" \notin verdicts /\ "pending" \in verdicts -> "pending"
          [] OTHER -> "complete"
Effect == EffectOfRecords("skip" \in h.ev)

\* What the operation came to over the input.
EffectResult ==
    CASE h.out # {} /\ "skip" \in h.ev -> "conflict"
      [] h.out # {} /\ "skip" \notin h.ev -> "produced"
      [] h.out = {} /\ "skip" \in h.ev -> "skipped"
      [] OTHER -> "pending"

----------------------------------------------------------------------------
(* Receipts.                                                               *)

\* An admitted witness that names the message, attributed once a complete
\* preparation is here; a disputed input says nothing of what the peer has.
AckWitnessed ==
    /\ ChannelKnown /\ PreparedOf = "complete"
    /\ "receipt" \in h.ev /\ {"receiptDisputed", "broken"} \cap h.ev = {}

AcknowledgementOf(fields) ==
    CASE PreparedOf # "complete" -> PreparedOf
      [] PreparedOf = "complete" /\ AckWitnessed /\ fields = "same" -> "complete"
      [] PreparedOf = "complete" /\ AckWitnessed /\ fields # "same" -> "conflict"
      [] OTHER -> "pending"

\* The receipt the input earns: its own wire ID, while admitted and agreed on.
AckTarget == {"in", "witnessed"} \subseteq h.ev /\ h.ev \cap {"disputed", "broken"} = {}

----------------------------------------------------------------------------
(* The message.                                                            *)

Fault == ~Consistent \/ SenderConflict \/ Effect = "conflict"

Outcome ==
    CASE Fault -> "conflict"
      [] ~Fault /\ Submitted -> "submitted"
      [] ~Fault /\ ~Submitted /\ Terminal -> "terminal"
      [] ~Fault /\ ~Submitted /\ ~Terminal /\ h.prep # {} -> "prepared"
      [] OTHER -> "queued"

Released == Consistent /\ (Submitted \/ Terminal)

Gate == h.ev \cap {"closed", "broken"} = {}

Workable ==
    /\ Outcome \in {"queued", "prepared"}
    /\ "erased" \notin h.ev /\ ChannelKnown /\ Gate
    /\ Effect = "complete" /\ ~Unresolved

\* A preparation is made beside none; a call carries one that stands.
Work ==
    CASE Workable /\ h.prep = {} -> "prepare"
      [] Workable /\ (\E p \in h.prep : Standing(p)) -> "dispatch"
      [] OTHER -> "none"

\* Delivery events of a message no intent is recorded under.
Stray == h.out = {} /\ h.prep \cup h.sub \cup h.fail \cup h.acks # {}

----------------------------------------------------------------------------
(* Arrivals.                                                               *)

Nothing == [out |-> {}, prep |-> {}, resolved |-> {}, read |-> {}, sub |-> {}, fail |-> {}, acks |-> {}, ev |-> {}]

\* The message as the runtime that sent it leaves it at each stage.
AsIntended ==
    [Nothing EXCEPT !.out = {[names |-> 1, source |-> IF form = "send" THEN "none" ELSE "own"]},
                    !.ev = {"created"} \cup (Evidence \cap {"in", "witnessed", "path", "rotation", "verified"})]
AsPrepared == [AsIntended EXCEPT !.prep = {"fit"}, !.resolved = {"fit"}, !.read = {"fit"}]
Stages ==
    {Nothing, AsIntended, AsPrepared, [AsPrepared EXCEPT !.sub = {"fit"}], [AsIntended EXCEPT !.fail = {"cancelled"}]}

\* Nothing of the message is here, or a stage of its runtime's own.
FoldInit == form \in Forms /\ h \in Stages /\ arrived = 0

Arrives(g) ==
    /\ arrived < MaxEvents
    /\ arrived' = arrived + 1
    /\ h' = g /\ h' # h
    /\ UNCHANGED form

Intended == \E n \in Contents, s \in Sources : Arrives([h EXCEPT !.out = @ \cup {[names |-> n, source |-> s]}])
Prepared == \E p \in Preps : Arrives([h EXCEPT !.prep = @ \cup {p}])
ResolvedFor == \E p \in {"fit", "crossed"} : Arrives([h EXCEPT !.resolved = @ \cup {p}])
DocumentRead == \E p \in h.resolved \cap {"fit"} : Arrives([h EXCEPT !.read = @ \cup {p}])
SubmissionIn == \E p \in {"fit", "crossed"} : Arrives([h EXCEPT !.sub = @ \cup {p}])
Failed == \E code \in Codes : Arrives([h EXCEPT !.fail = @ \cup {code}])
Acknowledged == \E fields \in {"same", "other"} : Arrives([h EXCEPT !.acks = @ \cup {fields}])
Learnt == \E e \in Evidence : After(e) \subseteq h.ev /\ Arrives([h EXCEPT !.ev = @ \cup {e}])

\* The bound is reached.
Settled == arrived = MaxEvents /\ UNCHANGED <<form, h, arrived>>

FoldNext ==
    \/ Settled
    \/ Intended \/ Prepared \/ ResolvedFor \/ DocumentRead \/ SubmissionIn \/ Failed \/ Acknowledged \/ Learnt

----------------------------------------------------------------------------
(* Properties.                                                             *)

Ended == h.out # {} /\ Outcome \in {"conflict", "submitted", "terminal"}
Held(p) == p \in h.prep /\ PreparationStatus(p) = "conflict"
Receipted == \E fields \in h.acks : AcknowledgementOf(fields) = "complete"

\* Whatever arrives later and in whichever order: a message that ended is never
\* prepared or carried again and its conflict is for good; while its intents
\* agree and its sender is one, a complete submission, the release of its
\* envelopes and a preparation's conflict are withdrawn by nothing
\* (vault/src/fold/outbound.ts: "no other, competing or later evidence withdraws
\* it", "Conflict is for good"); an operation once decided is never open again;
\* and a receipt is lost only with the input or the continuity it came by.
VerdictsStand ==
    [][/\ Ended => Ended' /\ Work' = "none"
       /\ h.out # {} /\ Outcome = "conflict" => Outcome' = "conflict"
       /\ Consistent' /\ ~SenderConflict' =>
             /\ Submitted => Submitted'
             /\ Released => Released'
             /\ \A p \in h.prep : Held(p) => Held(p)'
             /\ Receipted => Receipted' \/ {"receiptDisputed", "broken"} \cap h'.ev # {}
       /\ EffectResult # "pending" => EffectResult' \in {EffectResult, "conflict"}
       /\ AckTarget => AckTarget' \/ {"disputed", "broken"} \cap h'.ev # {}]_h
=============================================================================
