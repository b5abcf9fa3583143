---------------------------- MODULE EffectsProofs ----------------------------
(***************************************************************************)
(* Proofs about what follows a receipt, for any replicas, any faults and   *)
(* any length: an input is answered once by a replica, and once by all     *)
(* those that asked under one registration, a replica never contradicts    *)
(* itself in what it admits, and a result once recorded is not recorded    *)
(* again.                                                                  *)
(***************************************************************************)
EXTENDS MCEffects, FiniteSetTheorems, TLAPS

-----------------------------------------------------------------------------
(* The inductive invariant.                                                *)

(* An event that names its author is in its author's vault, wherever else  *)
(* an import has brought it; so an import brings a replica nothing new of  *)
(* its own.                                                                *)
Authored == {"in", "admitted", "acknowledged", "out", "skip", "rotation"}
Kinds == Authored \cup {"evidence", "denied"}
HomeInv == \A s \in Replicas : \A x \in vault[s] :
  /\ x.kind \in Kinds
  /\ x.kind \in Authored => x.author \in Replicas /\ x \in vault[x.author]

(* The deliveries of the input all come the one way; one posted straight   *)
(* to a replica comes to that replica alone.                               *)
WayInv == \A s, t \in Replicas : \A o \in Observations(vault[s]), p \in Observations(vault[t]) :
  /\ o.way \in Ways /\ o.way = p.way
  /\ o.way = "posted" => o.author = p.author

(* What first entered a vault is still there.                              *)
EnteredInv == \A r \in Replicas : entered[r] \subseteq Observations(vault[r])

(* A call chain goes on from a recorded observation, and past what is owed *)
(* only when it is the one live chain of its replica; it asks who answers  *)
(* before it makes anything, and has still to call what it made and nobody *)
(* called: a notification first, then one of each effect.                  *)
Stages == {"owed", "address", "find", "notify", "decide", "call"}
Answering == {"notify", "decide", "call"}
Uncalled(r, op) == \A c \in calls : c.by = r => c.op # op
Chains(r) ==
  [source : Observations(vault[r]), live : BOOLEAN, stage : Stages,
   rotation : Of(vault[r], "rotation") \cup {None}, under : Nat \cup {None},
   todo : SUBSET Of(vault[r], "out")]

(* A chain, or a call, is its replica's to answer: the input was posted to *)
(* it, or it was the first of the registration it asked under.             *)
Entitled(r, x) == x.source.way = "posted" \/ (x.under \in DOMAIN answerers /\ answerers[x.under] = r)

ChainInv(r, j) ==
  /\ j \in Chains(r)
  /\ j.source.author = r
  /\ j.stage # "owed" => j.live
  /\ j.live => entered[r] = {j.source}
  /\ j.stage \in Answering => Entitled(r, j)
  /\ j.stage \notin {"decide", "call"} => j.todo = {}
  /\ j.live /\ j.stage # "call" => Uncalled(r, "ack") /\ Uncalled(r, "reply")
  /\ j.live /\ j.stage \notin {"decide", "call"} => Uncalled(r, "notify")
  /\ \A x \in j.todo : Uncalled(r, x.op)
  /\ \A x \in j.todo : x.op \in IF j.stage = "decide" THEN {"notify"} ELSE Effect
  /\ \A x, y \in j.todo : x.op = y.op => x = y
JobsInv == \A r \in Replicas :
  /\ \A j \in jobs[r] : ChainInv(r, j)
  /\ \A j, k \in jobs[r] : j.live /\ k.live => j = k

(* A call was made by a replica that answers, and each operation once by   *)
(* it.                                                                     *)
CallsInv == \A c \in calls :
  /\ c.by \in Replicas
  /\ c.source \in Observations(vault[c.by]) /\ c.source.author = c.by
  /\ entered[c.by] = {c.source}
  /\ Entitled(c.by, c)
OnceInv == \A c, d \in calls : c.op = d.op /\ c.by = d.by => c = d

(* What a replica admitted stays admitted, and agrees.                     *)
Own(r, kind) == {x \in Of(vault[r], kind) : x.author = r}
AgreeInv == \A r \in Replicas :
  /\ \A a \in Own(r, "admitted") : a.source \in Admitted(vault[r])
  /\ \A a, b \in Own(r, "admitted") : a.source.intent = b.source.intent
  /\ \A a, b \in Own(r, "acknowledged") : a = b

(* A registration that stands has a first replica.                         *)
MediatorInv ==
  /\ answerers \in Seq(Replicas) /\ standing \in BOOLEAN
  /\ standing => answerers # <<>>

(* Every variable of the replicas is a function of theirs, and a vault     *)
(* holds finitely many events.                                             *)
ShapeInv ==
  /\ DOMAIN vault = Replicas /\ DOMAIN jobs = Replicas /\ DOMAIN entered = Replicas
  /\ \A r \in Replicas : IsFiniteSet(vault[r])

Inv == MediatorInv /\ ShapeInv /\ HomeInv /\ WayInv /\ EnteredInv /\ JobsInv /\ CallsInv /\ OnceInv /\ AgreeInv

-----------------------------------------------------------------------------
(* What the operators add to a vault.                                      *)

(* The image of a finite set under a function is finite.                   *)
LEMMA ImageFinite ==
  ASSUME NEW S, IsFiniteSet(S), NEW f, DOMAIN f = S
  PROVE  IsFiniteSet({f[x] : x \in S})
<1> DEFINE T == {f[x] : x \in S}
           g == [x \in S |-> f[x]]
<1>1. g \in Surjection(S, T) BY DEF Surjection
<1> QED BY <1>1, FS_Surjection

(* The events of one kind.                                                 *)
LEMMA OfFacts ==
  ASSUME NEW v, NEW kind
  PROVE  \A x : x \in Of(v, kind) <=> x \in v /\ x.kind = kind
BY DEF Of

(* What an input may say is finite in a finite vault.                      *)
LEMMA IntentsFinite ==
  ASSUME NEW v, IsFiniteSet(v)
  PROVE  IsFiniteSet(AdmittedIntents(v))
<1> DEFINE f == [o \in Admitted(v) |-> o.intent]
<1>1. Admitted(v) \subseteq v BY DEF Admitted, Observations, Of
<1>2. IsFiniteSet(Admitted(v)) BY <1>1, FS_Subset
<1>3. IsFiniteSet({f[o] : o \in Admitted(v)}) BY <1>2, ImageFinite
<1>4. AdmittedIntents(v) = {f[o] : o \in Admitted(v)} BY DEF AdmittedIntents
<1> QED BY <1>3, <1>4

(* Of several intents none is admitted: what a vault owes agrees with what *)
(* it has admitted and with itself.                                        *)
LEMMA AdmissibleFacts ==
  ASSUME NEW v, IsFiniteSet(v)
  PROVE  /\ \A o \in Admissible(v) : o \in Observations(v) /\ CompleteWitness(v, o)
         /\ \A o \in Admissible(v), p \in Admitted(v) : o.intent = p.intent
         /\ \A o, p \in Admissible(v) : o.intent = p.intent
<1> DEFINE eligible == Eligible(v)
           admitted == AdmittedIntents(v)
           intents == IF admitted # {} \/ eligible = {} THEN admitted ELSE {First(eligible).intent}
<1>1. IsFiniteSet(intents)
  <2>1. IsFiniteSet(admitted) BY IntentsFinite
  <2>2. IsFiniteSet({First(eligible).intent}) BY FS_Singleton
  <2> QED BY <2>1, <2>2
<1>2. Admissible(v) = IF Cardinality(intents) > 1 THEN {} ELSE {o \in eligible : o.intent \in intents}
  BY DEF Admissible
<1>3. ASSUME NEW i \in intents, NEW k \in intents, ~(Cardinality(intents) > 1) PROVE i = k
  <2>1. Cardinality(intents) \in Nat BY <1>1, FS_CardinalityType
  <2>2. Cardinality(intents) = 1 \/ Cardinality(intents) = 0 BY <2>1, <1>3
  <2>3. Cardinality(intents) # 0 BY <1>1, <1>3, FS_EmptySet
  <2>4. PICK x : intents = {x} BY <1>1, <2>2, <2>3, FS_Singleton
  <2> QED BY <1>3, <2>4
<1>4. \A o \in Admissible(v) : o \in eligible /\ o.intent \in intents /\ ~(Cardinality(intents) > 1)
  BY <1>2
<1>5. \A p \in Admitted(v) : p.intent \in admitted BY DEF AdmittedIntents
<1>6. \A p \in Admitted(v) : p.intent \in intents BY <1>5
<1>7. \A o \in eligible : o \in Observations(v) /\ CompleteWitness(v, o) BY DEF Eligible
<1> HIDE DEF intents, eligible
<1> QED BY <1>3, <1>4, <1>6, <1>7

(* Receipts are admitted by their replica alone, and only admissible ones. *)
LEMMA AdmitFacts ==
  ASSUME NEW v, IsFiniteSet(v), NEW r
  PROVE  /\ v \subseteq AdmitReceipts(v, r) /\ IsFiniteSet(AdmitReceipts(v, r))
         /\ \A x \in AdmitReceipts(v, r) \ v :
              x.kind = "admitted" /\ x.author = r /\ x.source \in Admissible(v)
<1> DEFINE f == [o \in Admissible(v) |-> Admission(r, o)]
           S == {Admission(r, o) : o \in Admissible(v)}
<1>1. Admissible(v) \subseteq v BY AdmissibleFacts, OfFacts DEF Observations
<1>2. IsFiniteSet(Admissible(v)) BY <1>1, FS_Subset
<1>3. IsFiniteSet({f[o] : o \in Admissible(v)}) BY <1>2, ImageFinite
<1>4. S = {f[o] : o \in Admissible(v)} OBVIOUS
<1>5. AdmitReceipts(v, r) = v \cup S BY DEF AdmitReceipts
<1>6. IsFiniteSet(v \cup S) BY <1>3, <1>4, FS_Union
<1>7. \A x \in S : x.kind = "admitted" /\ x.author = r /\ x.source \in Admissible(v) BY DEF Admission
<1> HIDE DEF S
<1> QED BY <1>5, <1>6, <1>7

(* An admission is acknowledged by its replica, and only when nothing was  *)
(* acknowledged before.                                                    *)
LEMMA AcknowledgeFacts ==
  ASSUME NEW v, IsFiniteSet(v), NEW r
  PROVE  /\ v \subseteq Acknowledge(v, r) /\ IsFiniteSet(Acknowledge(v, r))
         /\ \A x \in Acknowledge(v, r) \ v :
              /\ x.kind = "acknowledged" /\ x.author = r
              /\ \A y \in Acknowledge(v, r) : y.kind = "acknowledged" => y = x
<1>1. Acknowledge(v, r) = v \/ (Of(v, "acknowledged") = {} /\ Acknowledge(v, r) = v \cup {Acknowledged(v, r)})
  BY DEF Acknowledge
<1>2. IsFiniteSet(v \cup {Acknowledged(v, r)}) BY FS_AddElement
<1>3. Acknowledged(v, r).kind = "acknowledged" /\ Acknowledged(v, r).author = r BY DEF Acknowledged
<1>4. CASE Acknowledge(v, r) = v BY <1>4
<1>5. CASE Of(v, "acknowledged") = {} /\ Acknowledge(v, r) = v \cup {Acknowledged(v, r)}
  <2>1. \A y \in v : y.kind # "acknowledged" BY <1>5, OfFacts
  <2> QED BY <2>1, <1>2, <1>3, <1>5
<1> QED BY <1>1, <1>4, <1>5

(* A witness once complete stays complete, and an admission admitted.      *)
LEMMA AdmittedGrows ==
  ASSUME NEW v, NEW w, v \subseteq w
  PROVE  /\ \A o : CompleteWitness(v, o) => CompleteWitness(w, o)
         /\ Admitted(v) \subseteq Admitted(w)
         /\ Observations(v) \subseteq Observations(w)
         /\ \A kind : Of(v, kind) \subseteq Of(w, kind)
<1>1. \A o : CompleteWitness(v, o) => CompleteWitness(w, o) BY DEF CompleteWitness
<1>2. \A kind : Of(v, kind) \subseteq Of(w, kind) BY DEF Of
<1>3. Observations(v) \subseteq Observations(w) BY <1>2 DEF Observations
<1>4. AdmittedSources(v) \subseteq AdmittedSources(w) BY <1>2 DEF AdmittedSources
<1> QED BY <1>1, <1>2, <1>3, <1>4 DEF Admitted

(* A result is recorded for an operation without one, and one alone.       *)
LEMMA RecordedFacts ==
  ASSUME NEW v, IsFiniteSet(v), NEW r, NEW op, NEW answer
  PROVE  /\ v \subseteq Recorded(v, r, op, answer) /\ IsFiniteSet(Recorded(v, r, op, answer))
         /\ \A x \in Recorded(v, r, op, answer) \ v :
              /\ x.kind \in {"out", "skip"} /\ x.author = r /\ x.op = op /\ ~Settled(v, op)
              /\ x.kind = "out" => x.rotation = None
              /\ \A y \in Recorded(v, r, op, answer) \ v : y = x
<1> DEFINE S == Skip(v, r, op, FirstWitness(v))
           O == Output(v, r, op, FirstWitness(v), None)
<1>1. \/ Recorded(v, r, op, answer) = v
      \/ ~Settled(v, op) /\ Recorded(v, r, op, answer) \in {v \cup {S}, v \cup {O}}
  BY DEF Recorded
<1>2. S.kind = "skip" /\ S.author = r /\ S.op = op BY DEF Skip
<1>3. O.kind = "out" /\ O.author = r /\ O.op = op /\ O.rotation = None BY DEF Output
<1>4. IsFiniteSet(v \cup {S}) /\ IsFiniteSet(v \cup {O}) BY FS_AddElement
<1> HIDE DEF S, O
<1> QED BY <1>1, <1>2, <1>3, <1>4

(* A notification names a decision that nothing named before, of a source  *)
(* without one.                                                            *)
LEMMA NotifiedFacts ==
  ASSUME NEW v, IsFiniteSet(v), NEW r, NEW d
  PROVE  /\ v \subseteq Notified(v, r, d) /\ IsFiniteSet(Notified(v, r, d))
         /\ \A x \in Notified(v, r, d) \ v :
              /\ x.kind = "out" /\ x.author = r /\ x.op = "notify"
              /\ x.rotation = d /\ x.source = d.source
              /\ Naming(v, d) = {}
              /\ d.source # None => ~Settled(v, "notify")
              /\ \A y \in Notified(v, r, d) \ v : y = x
<1> DEFINE O == Output(v, r, "notify", d.source, d)
<1>1. \/ Notified(v, r, d) = v
      \/ /\ Naming(v, d) = {} /\ (d.source # None => ~Settled(v, "notify"))
         /\ Notified(v, r, d) = v \cup {O}
  BY DEF Notified
<1>2. O.kind = "out" /\ O.author = r /\ O.op = "notify" /\ O.rotation = d /\ O.source = d.source BY DEF Output
<1>3. IsFiniteSet(v \cup {O}) BY FS_AddElement
<1> HIDE DEF O
<1> QED BY <1>1, <1>2, <1>3

-----------------------------------------------------------------------------
(* A step of one replica's vault.                                          *)

(* What a step that is not an import does to the vault of r: it only adds, *)
(* and only what r writes, admissions that agree among it.                 *)
Adds(r, w) ==
  /\ vault[r] \subseteq w /\ IsFiniteSet(w)
  /\ \A x \in w \ vault[r] : x.kind \in Kinds /\ (x.kind \in Authored => x.author = r)
  /\ \A a \in w \ vault[r] : a.kind = "admitted" => a.source \in Observations(w) /\ CompleteWitness(w, a.source)
  /\ \A a, b \in w : a.kind = "admitted" /\ b.kind = "admitted" /\ a.author = r /\ b.author = r => a.source.intent = b.source.intent
  /\ \A a, b \in w : a.kind = "acknowledged" /\ b.kind = "acknowledged" /\ a.author = r /\ b.author = r => a = b

(* No observation among it.                                                *)
Unobserving(r, w) == \A x \in w \ vault[r] : x.kind # "in"

(* The step, said pointwise.                                               *)
VaultTo(r, w) == DOMAIN vault' = Replicas /\ vault'[r] = w /\ \A s \in Replicas \ {r} : vault'[s] = vault[s]
JobsTo(r, J) == DOMAIN jobs' = Replicas /\ jobs'[r] = J /\ \A s \in Replicas \ {r} : jobs'[s] = jobs[s]

(* A step that sets one replica's vault or jobs moves no other's; one that *)
(* sets none moves none.                                                   *)
LEMMA VaultGoes ==
  ASSUME Inv, NEW r \in Replicas, NEW w, vault' = [vault EXCEPT ![r] = w]
  PROVE  VaultTo(r, w)
BY DEF Inv, ShapeInv, VaultTo

LEMMA JobsGo ==
  ASSUME Inv, NEW r \in Replicas, NEW J, jobs' = [jobs EXCEPT ![r] = J]
  PROVE  JobsTo(r, J)
BY DEF Inv, ShapeInv, JobsTo

LEMMA VaultStays ==
  ASSUME Inv, NEW r \in Replicas, vault' = vault
  PROVE  VaultTo(r, vault[r])
BY DEF Inv, ShapeInv, VaultTo

LEMMA JobsStay ==
  ASSUME Inv, NEW r \in Replicas, jobs' = jobs
  PROVE  JobsTo(r, jobs[r])
BY DEF Inv, ShapeInv, JobsTo

(* Adding what is neither admission nor acknowledgement.                   *)
LEMMA PlainAdds ==
  ASSUME Inv, NEW r \in Replicas, NEW w, vault[r] \subseteq w, IsFiniteSet(w),
         \A x \in w \ vault[r] : /\ x.kind \in Kinds \ {"admitted", "acknowledged"}
                                 /\ x.kind \in Authored => x.author = r
  PROVE  Adds(r, w)
<1>1. \A a \in w : a.kind \in {"admitted", "acknowledged"} => a \in vault[r] OBVIOUS
<1>2. \A a, b \in w : a.kind = "admitted" /\ b.kind = "admitted" /\ a.author = r /\ b.author = r => a.source.intent = b.source.intent
  BY <1>1, OfFacts DEF Inv, AgreeInv, Own
<1>3. \A a, b \in w : a.kind = "acknowledged" /\ b.kind = "acknowledged" /\ a.author = r /\ b.author = r => a = b
  BY <1>1, OfFacts DEF Inv, AgreeInv, Own
<1> QED BY <1>1, <1>2, <1>3 DEF Adds

(* Adding what the vault owes, after something plain.                      *)
LEMMA AdmitAdds ==
  ASSUME Inv, NEW r \in Replicas, NEW v, Adds(r, v)
  PROVE  /\ Adds(r, AdmitReceipts(v, r))
         /\ Unobserving(r, v) => Unobserving(r, AdmitReceipts(v, r))
<1> DEFINE w == AdmitReceipts(v, r)
<1>0. IsFiniteSet(v) /\ vault[r] \subseteq v BY DEF Adds
<1>1. /\ v \subseteq w /\ IsFiniteSet(w)
      /\ \A x \in w \ v : x.kind = "admitted" /\ x.author = r /\ x.source \in Admissible(v)
  BY <1>0, AdmitFacts
<1>2. /\ \A o \in Admissible(v) : o \in Observations(w) /\ CompleteWitness(w, o)
      /\ \A o \in Admissible(v), p \in Admitted(v) : o.intent = p.intent
      /\ \A o, p \in Admissible(v) : o.intent = p.intent
  BY <1>0, <1>1, AdmissibleFacts, AdmittedGrows
<1>3. \A o : CompleteWitness(v, o) => CompleteWitness(w, o) BY <1>1, AdmittedGrows
<1>4. Observations(v) \subseteq Observations(w) BY <1>1, AdmittedGrows
<1>5. \A a \in v : a.kind = "admitted" /\ a.author = r => a.source \in Admitted(v)
  <2> SUFFICES ASSUME NEW a \in v, a.kind = "admitted", a.author = r PROVE a.source \in Admitted(v)
    OBVIOUS
  <2>1. CASE a \in vault[r]
    <3>1. a.source \in Admitted(vault[r]) BY <2>1, OfFacts DEF Inv, AgreeInv, Own
    <3> QED BY <3>1, <1>0, AdmittedGrows
  <2>2. CASE a \notin vault[r]
    <3>1. a.source \in Observations(v) /\ CompleteWitness(v, a.source) BY <2>2 DEF Adds
    <3>2. a \in Of(v, "admitted") BY OfFacts
    <3> QED BY <3>1, <3>2 DEF Admitted, AdmittedSources
  <2> QED BY <2>1, <2>2
<1>6. \A a \in w : a.kind = "admitted" /\ a.author = r => (a \in v /\ a.source \in Admitted(v)) \/ a.source \in Admissible(v)
  BY <1>1, <1>5
<1>7. \A a, b \in v : a.kind = "admitted" /\ b.kind = "admitted" /\ a.author = r /\ b.author = r => a.source.intent = b.source.intent
  BY DEF Adds
<1>8. \A a, b \in w : a.kind = "admitted" /\ b.kind = "admitted" /\ a.author = r /\ b.author = r => a.source.intent = b.source.intent
  BY <1>2, <1>6, <1>7
<1>9. \A a, b \in w : a.kind = "acknowledged" /\ b.kind = "acknowledged" /\ a.author = r /\ b.author = r => a = b
  BY <1>1 DEF Adds
<1>10. \A a \in w \ vault[r] : a.kind = "admitted" => a.source \in Observations(w) /\ CompleteWitness(w, a.source)
  BY <1>1, <1>2, <1>3, <1>4 DEF Adds
<1>11. \A x \in w \ vault[r] : x.kind \in Kinds /\ (x.kind \in Authored => x.author = r)
  BY <1>1 DEF Adds, Kinds, Authored
<1>12. Unobserving(r, v) => Unobserving(r, w) BY <1>1 DEF Unobserving
<1> HIDE DEF w
<1>13. Adds(r, w) BY <1>0, <1>1, <1>8, <1>9, <1>10, <1>11 DEF Adds
<1> QED BY <1>12, <1>13 DEF w

(* What a replica owes adds events of its own and observes nothing.        *)
LEMMA OwedAdds ==
  ASSUME Inv, NEW r \in Replicas, NEW v, Adds(r, v), Unobserving(r, v)
  PROVE  Adds(r, RecordOwed(v, r)) /\ Unobserving(r, RecordOwed(v, r))
<1> DEFINE u == AdmitReceipts(v, r)
           w == Acknowledge(u, r)
<1>0. Adds(r, u) /\ Unobserving(r, u) BY AdmitAdds
<1> HIDE DEF u
<1>1. IsFiniteSet(u) /\ vault[r] \subseteq u BY <1>0 DEF Adds
<1>2. /\ u \subseteq w /\ IsFiniteSet(w)
      /\ \A x \in w \ u : /\ x.kind = "acknowledged" /\ x.author = r
                          /\ \A y \in w : y.kind = "acknowledged" => y = x
  BY <1>1, AcknowledgeFacts
<1>3. \A o : CompleteWitness(u, o) => CompleteWitness(w, o) BY <1>2, AdmittedGrows
<1>4. Observations(u) \subseteq Observations(w) BY <1>2, AdmittedGrows
<1> HIDE DEF w
<1>5. \A a \in w : a.kind = "admitted" => a \in u BY <1>2
<1>6. \A a, b \in w : a.kind = "admitted" /\ b.kind = "admitted" /\ a.author = r /\ b.author = r => a.source.intent = b.source.intent
  BY <1>0, <1>5 DEF Adds
<1>7. \A a \in w \ vault[r] : a.kind = "admitted" => a.source \in Observations(w) /\ CompleteWitness(w, a.source)
  BY <1>0, <1>3, <1>4, <1>5 DEF Adds
<1>8. \A a, b \in w : a.kind = "acknowledged" /\ b.kind = "acknowledged" /\ a.author = r /\ b.author = r => a = b
  BY <1>0, <1>2 DEF Adds
<1>9. \A x \in w \ vault[r] : x.kind \in Kinds /\ (x.kind \in Authored => x.author = r)
  BY <1>0, <1>2 DEF Adds, Kinds, Authored
<1>10. Adds(r, w) BY <1>1, <1>2, <1>6, <1>7, <1>8, <1>9 DEF Adds
<1>11. Unobserving(r, w) BY <1>0, <1>2 DEF Unobserving
<1>12. RecordOwed(v, r) = w BY DEF RecordOwed, w, u
<1> QED BY <1>10, <1>11, <1>12

(* What a step of one vault keeps of the vaults' own invariants.           *)
LEMMA VaultKeeps ==
  ASSUME Inv, NEW r \in Replicas, NEW w, Adds(r, w), VaultTo(r, w)
  PROVE  /\ HomeInv' /\ AgreeInv'
         /\ DOMAIN vault' = Replicas
         /\ \A s \in Replicas : IsFiniteSet(vault'[s]) /\ vault[s] \subseteq vault'[s]
         /\ Unobserving(r, w) => WayInv' /\ \A s \in Replicas : Observations(vault'[s]) = Observations(vault[s])
<1>0. /\ vault'[r] = w /\ DOMAIN vault' = Replicas
      /\ \A s \in Replicas \ {r} : vault'[s] = vault[s]
  BY DEF VaultTo
<1>1. \A s \in Replicas : IsFiniteSet(vault'[s]) /\ vault[s] \subseteq vault'[s]
  BY <1>0 DEF Adds, Inv, ShapeInv
<1>2. \A s \in Replicas : \A x \in vault'[s] \ vault[s] : s = r /\ x \in w \ vault[r] BY <1>0
<1>3. HomeInv'
  <2> SUFFICES ASSUME NEW s \in Replicas, NEW x \in vault'[s]
               PROVE  x.kind \in Kinds /\ (x.kind \in Authored => x.author \in Replicas /\ x \in vault'[x.author])
    BY DEF HomeInv
  <2>1. CASE x \in vault[s] BY <2>1, <1>1 DEF Inv, HomeInv
  <2>2. CASE x \notin vault[s]
    <3>1. s = r /\ x \in w \ vault[r] BY <2>2, <1>2
    <3>2. x.kind \in Kinds /\ (x.kind \in Authored => x.author = r) BY <3>1 DEF Adds
    <3> QED BY <3>1, <3>2
  <2> QED BY <2>1, <2>2
<1>4. AgreeInv'
  <2> SUFFICES ASSUME NEW s \in Replicas
               PROVE  /\ \A a \in vault'[s] : a.kind = "admitted" /\ a.author = s => a.source \in Admitted(vault'[s])
                      /\ \A a, b \in vault'[s] : a.kind = "admitted" /\ b.kind = "admitted" /\ a.author = s /\ b.author = s => a.source.intent = b.source.intent
                      /\ \A a, b \in vault'[s] : a.kind = "acknowledged" /\ b.kind = "acknowledged" /\ a.author = s /\ b.author = s => a = b
    BY OfFacts DEF AgreeInv, Own
  <2>1. CASE s # r
    <3>1. vault'[s] = vault[s] BY <2>1, <1>0
    <3> QED BY <3>1, OfFacts DEF Inv, AgreeInv, Own
  <2>2. CASE s = r
    <3>1. \A a \in w : a.kind = "admitted" /\ a.author = r => a.source \in Admitted(w)
      <4> SUFFICES ASSUME NEW a \in w, a.kind = "admitted", a.author = r PROVE a.source \in Admitted(w)
        OBVIOUS
      <4>1. CASE a \in vault[r]
        <5>1. a.source \in Admitted(vault[r]) BY <4>1, OfFacts DEF Inv, AgreeInv, Own
        <5>2. vault[r] \subseteq w BY DEF Adds
        <5> QED BY <5>1, <5>2, AdmittedGrows
      <4>2. CASE a \notin vault[r]
        <5>1. a.source \in Observations(w) /\ CompleteWitness(w, a.source) BY <4>2 DEF Adds
        <5>2. a \in Of(w, "admitted") BY OfFacts
        <5> QED BY <5>1, <5>2 DEF Admitted, AdmittedSources
      <4> QED BY <4>1, <4>2
    <3> QED BY <2>2, <3>1, <1>0 DEF Adds
  <2> QED BY <2>1, <2>2
<1>5. ASSUME Unobserving(r, w) PROVE \A s \in Replicas : Observations(vault'[s]) = Observations(vault[s])
  <2> SUFFICES ASSUME NEW s \in Replicas PROVE Observations(vault'[s]) = Observations(vault[s])
    OBVIOUS
  <2>1. \A x \in vault'[s] : x.kind = "in" => x \in vault[s] BY <1>2, <1>5 DEF Unobserving
  <2> QED BY <2>1, <1>1 DEF Observations, Of
<1>6. ASSUME Unobserving(r, w) PROVE WayInv'
  BY <1>5, <1>6 DEF Inv, WayInv
<1> QED BY <1>0, <1>1, <1>3, <1>4, <1>5, <1>6

(* An import brings what others wrote, whatever it is.                     *)
LEMMA ImportKeeps ==
  ASSUME Inv, NEW r \in Replicas, NEW s \in Replicas, VaultTo(r, vault[r] \cup vault[s])
  PROVE  /\ HomeInv' /\ AgreeInv' /\ WayInv'
         /\ \A t \in Replicas : IsFiniteSet(vault'[t]) /\ vault[t] \subseteq vault'[t]
         /\ \A x \in vault'[r] : x.kind \in Authored /\ x.author = r => x \in vault[r]
<1>0. /\ vault'[r] = vault[r] \cup vault[s]
      /\ \A t \in Replicas \ {r} : vault'[t] = vault[t]
  BY DEF VaultTo
<1>1. IsFiniteSet(vault[r] \cup vault[s]) BY FS_Union DEF Inv, ShapeInv
<1>2. \A t \in Replicas : IsFiniteSet(vault'[t]) /\ vault[t] \subseteq vault'[t]
  BY <1>0, <1>1 DEF Inv, ShapeInv
<1>3. \A t \in Replicas : \A x \in vault'[t] : \E u \in Replicas : x \in vault[u] BY <1>0
<1>4. HomeInv' BY <1>2, <1>3 DEF Inv, HomeInv
<1>5. WayInv'
  <2>1. \A t \in Replicas : \A x \in Observations(vault'[t]) : \E u \in Replicas : x \in Observations(vault[u])
    BY <1>3, OfFacts DEF Observations
  <2> QED BY <2>1 DEF Inv, WayInv
<1>6. \A x \in vault'[r] : x.kind \in Authored /\ x.author = r => x \in vault[r]
  BY <1>0 DEF Inv, HomeInv
<1>7. AgreeInv'
  <2> SUFFICES ASSUME NEW t \in Replicas
               PROVE  /\ \A a \in vault'[t] : a.kind = "admitted" /\ a.author = t => a.source \in Admitted(vault'[t])
                      /\ \A a, b \in vault'[t] : a.kind = "admitted" /\ b.kind = "admitted" /\ a.author = t /\ b.author = t => a.source.intent = b.source.intent
                      /\ \A a, b \in vault'[t] : a.kind = "acknowledged" /\ b.kind = "acknowledged" /\ a.author = t /\ b.author = t => a = b
    BY OfFacts DEF AgreeInv, Own
  <2>1. \A a \in vault'[t] : a.kind \in {"admitted", "acknowledged"} /\ a.author = t => a \in vault[t]
    BY <1>0, <1>6 DEF Authored
  <2>2. Admitted(vault[t]) \subseteq Admitted(vault'[t]) BY <1>2, AdmittedGrows
  <2> QED BY <2>1, <2>2, OfFacts DEF Inv, AgreeInv, Own
<1> QED BY <1>2, <1>4, <1>5, <1>6, <1>7

-----------------------------------------------------------------------------
(* A step of the call chains.                                              *)

(* Who was first of a registration stays so.                               *)
FirstsStay == \A n \in DOMAIN answerers : n \in DOMAIN answerers' /\ answerers'[n] = answerers[n]

(* What a chain of s and the calls of s rest on, and no step takes away.   *)
Calm(s) ==
  /\ vault[s] \subseteq vault'[s]
  /\ entered[s] # {} => entered'[s] = entered[s]
  /\ FirstsStay

(* A mediator nobody asked is as it was; one that is asked only adds.      *)
LEMMA MediatorStays ==
  ASSUME Inv, mediator' = mediator
  PROVE  MediatorInv' /\ FirstsStay
BY DEF Inv, MediatorInv, FirstsStay, mediator

LEMMA MediatorAnswers ==
  ASSUME Inv, NEW r \in Replicas, answerers' = Registered(r), standing' = TRUE
  PROVE  /\ MediatorInv' /\ FirstsStay
         /\ Len(answerers') \in DOMAIN answerers' /\ Len(answerers') \in Nat
<1>1. answerers \in Seq(Replicas) /\ (standing => answerers # <<>>) BY DEF Inv, MediatorInv
<1>2. CASE standing
  <2>1. answerers' = answerers BY <1>2 DEF Registered
  <2> QED BY <1>1, <1>2, <2>1 DEF MediatorInv, FirstsStay
<1>3. CASE ~standing
  <2>1. answerers' = Append(answerers, r) BY <1>3 DEF Registered
  <2> QED BY <1>1, <2>1 DEF MediatorInv, FirstsStay
<1> QED BY <1>2, <1>3

(* A chain that is not its replica's to move stays sound while nobody      *)
(* calls in its replica's name.                                            *)
LEMMA ChainKept ==
  ASSUME Inv, NEW s \in Replicas, NEW j, ChainInv(s, j), Calm(s), \A c \in calls' : c.by = s => c \in calls
  PROVE  ChainInv(s, j)'
<1>1. Observations(vault[s]) \subseteq Observations(vault'[s]) /\ \A kind : Of(vault[s], kind) \subseteq Of(vault'[s], kind)
  BY AdmittedGrows DEF Calm
<1>2. j \in Chains(s)' BY <1>1 DEF ChainInv, Chains
<1>3. \A op : Uncalled(s, op) => Uncalled(s, op)' BY DEF Uncalled
<1>4. j.live => entered'[s] = {j.source} BY DEF ChainInv, Calm
<1>5. j.stage \in Answering => Entitled(s, j)'
  BY DEF ChainInv, Calm, FirstsStay, Entitled
<1> QED BY <1>2, <1>3, <1>4, <1>5 DEF ChainInv

(* Calls that were made stay as they were made.                            *)
LEMMA CallsKept ==
  ASSUME Inv, \A s \in Replicas : Calm(s), calls' = calls
  PROVE  CallsInv' /\ OnceInv'
<1>1. CallsInv'
  <2> SUFFICES ASSUME NEW c \in calls
               PROVE  /\ c.by \in Replicas
                      /\ c.source \in Observations(vault'[c.by]) /\ c.source.author = c.by
                      /\ entered'[c.by] = {c.source}
                      /\ Entitled(c.by, c)'
    BY DEF CallsInv
  <2>1. /\ c.by \in Replicas
        /\ c.source \in Observations(vault[c.by]) /\ c.source.author = c.by
        /\ entered[c.by] = {c.source}
        /\ Entitled(c.by, c)
    BY DEF Inv, CallsInv
  <2>2. Calm(c.by) BY <2>1
  <2>3. Observations(vault[c.by]) \subseteq Observations(vault'[c.by]) BY <2>2, AdmittedGrows DEF Calm
  <2>4. Entitled(c.by, c)' BY <2>1, <2>2 DEF Calm, FirstsStay, Entitled
  <2> QED BY <2>1, <2>2, <2>3, <2>4 DEF Calm
<1>2. OnceInv' BY DEF Inv, OnceInv
<1> QED BY <1>1, <1>2

(* The invariant after a step of one replica, from what the step does to   *)
(* its vault, its jobs and the calls.                                      *)
LEMMA ChainsKeep ==
  ASSUME Inv, NEW r \in Replicas, NEW J, JobsTo(r, J),
         \A s \in Replicas : Calm(s), calls' = calls,
         \A j \in J : j \in jobs[r] \/ ChainInv(r, j)',
         \A j, k \in J : j.live /\ k.live => j = k
  PROVE  JobsInv' /\ CallsInv' /\ OnceInv'
<1>1. \A s \in Replicas : \A j \in jobs[s] : ChainInv(s, j)' BY ChainKept DEF Inv, JobsInv
<1>2. \A j \in J : ChainInv(r, j)' BY <1>1
<1>3. JobsInv' BY <1>1, <1>2 DEF JobsInv, JobsTo, Inv
<1> QED BY <1>3, CallsKept

(* A chain that ends, or goes on as another.                               *)
LEMMA MovesKeepOneLive ==
  ASSUME Inv, NEW r \in Replicas, NEW j \in jobs[r]
  PROVE  /\ \A i, l \in jobs[r] \ {j} : i.live /\ l.live => i = l
         /\ \A k : j.live \/ ~k.live => \A i, l \in (jobs[r] \ {j}) \cup {k} : i.live /\ l.live => i = l
BY DEF Inv, JobsInv

(* The whole invariant, for a step of the vault and the chains of r that   *)
(* observes nothing.                                                       *)
LEMMA Keeps ==
  ASSUME Inv, NEW r \in Replicas, NEW w, NEW J,
         VaultTo(r, w), Adds(r, w), Unobserving(r, w), JobsTo(r, J),
         entered' = entered, calls' = calls,
         MediatorInv', FirstsStay,
         \A j \in J : j \in jobs[r] \/ ChainInv(r, j)',
         \A j, k \in J : j.live /\ k.live => j = k
  PROVE  Inv'
<1>1. /\ HomeInv' /\ AgreeInv' /\ WayInv'
      /\ \A s \in Replicas : IsFiniteSet(vault'[s]) /\ vault[s] \subseteq vault'[s]
      /\ \A s \in Replicas : Observations(vault'[s]) = Observations(vault[s])
  BY VaultKeeps
<1>2. \A s \in Replicas : Calm(s) BY <1>1 DEF Calm
<1>3. JobsInv' /\ CallsInv' /\ OnceInv' BY <1>2, ChainsKeep
<1>4. EnteredInv' BY <1>1 DEF Inv, EnteredInv
<1>5. ShapeInv' BY <1>1 DEF Inv, ShapeInv, VaultTo, JobsTo
<1> QED BY <1>1, <1>3, <1>4, <1>5 DEF Inv

-----------------------------------------------------------------------------
(* The steps that observe.                                                 *)
Observation(r, i, p, w, at) == [kind |-> "in", author |-> r, at |-> at, intent |-> i, proof |-> p, way |-> w]

(* An observation recorded, and whatever else with it.                     *)
LEMMA ObserveKeeps ==
  ASSUME Inv, NEW r \in Replicas, NEW o, NEW w, NEW v,
         o.kind = "in", o.way \in Ways, Observes(r, o),
         VaultTo(r, w), Adds(r, w), Enters(r, v),
         Observations(v) = Observations(vault[r]) \cup {o}, Observations(w) = Observations(v),
         mediator' = mediator
  PROVE  /\ HomeInv' /\ AgreeInv' /\ WayInv' /\ EnteredInv'
         /\ \A s \in Replicas : Calm(s)
         /\ Observations(vault[r]) = {} => entered'[r] = {o}
         /\ DOMAIN vault' = Replicas /\ DOMAIN entered' = Replicas
         /\ \A s \in Replicas : IsFiniteSet(vault'[s])
<1>1. /\ HomeInv' /\ AgreeInv' /\ DOMAIN vault' = Replicas
      /\ \A s \in Replicas : IsFiniteSet(vault'[s]) /\ vault[s] \subseteq vault'[s]
  BY VaultKeeps
<1>2. DOMAIN entered = Replicas BY DEF Inv, ShapeInv
<1>3. /\ DOMAIN entered' = Replicas
      /\ entered'[r] = IF entered[r] = {} THEN Observations(v) ELSE entered[r]
      /\ \A s \in Replicas \ {r} : entered'[s] = entered[s]
  BY <1>2 DEF Enters
<1>4. \A s \in Replicas : Calm(s) BY <1>1, <1>3, MediatorStays DEF Calm
<1>5. \A s \in Replicas : Observations(vault'[s]) = IF s = r THEN Observations(vault[s]) \cup {o} ELSE Observations(vault[s])
  BY DEF VaultTo
<1>6. EnteredInv' BY <1>3, <1>5 DEF Inv, EnteredInv
<1>7. Observations(vault[r]) = {} => entered'[r] = {o} BY <1>3 DEF Inv, EnteredInv
<1>8. WayInv'
  <2>1. o.author = r /\ \A q \in Replicas : \A p \in Observations(vault[q]) : p.way = o.way /\ (o.way = "posted" => p.author = r)
    BY DEF Observes
  <2>2. SUFFICES ASSUME NEW s \in Replicas, NEW t \in Replicas,
                        NEW x \in Observations(vault'[s]), NEW y \in Observations(vault'[t])
                 PROVE  x.way \in Ways /\ x.way = y.way /\ (x.way = "posted" => x.author = y.author)
    BY DEF WayInv
  <2>3. x = o \/ x \in Observations(vault[s]) BY <1>5
  <2>4. y = o \/ y \in Observations(vault[t]) BY <1>5
  <2>5. CASE x = o BY <2>1, <2>4, <2>5
  <2>6. CASE x # o /\ y = o BY <2>1, <2>3, <2>6
  <2>7. CASE x # o /\ y # o BY <2>3, <2>4, <2>7 DEF Inv, WayInv
  <2> QED BY <2>5, <2>6, <2>7
<1> QED BY <1>1, <1>3, <1>4, <1>6, <1>7, <1>8

(* Recording a delivery adds one observation.                              *)
LEMMA ObservationAdds ==
  ASSUME Inv, NEW r \in Replicas, NEW o, o.kind = "in", o.author = r
  PROVE  /\ Adds(r, vault[r] \cup {o})
         /\ Observations(vault[r] \cup {o}) = Observations(vault[r]) \cup {o}
<1>1. IsFiniteSet(vault[r] \cup {o}) BY FS_AddElement DEF Inv, ShapeInv
<1>2. Adds(r, vault[r] \cup {o}) BY <1>1, PlainAdds DEF Kinds, Authored
<1> QED BY <1>2 DEF Observations, Of

(* A receipt is observed, and starts the live chain only if nothing was    *)
(* observed before.                                                        *)
LEMMA ReceiveKeeps ==
  ASSUME Inv, NEW r \in Replicas, Receive(r)
  PROVE  Inv'
<1>1. PICK i \in Intents, p \in Proofs, way \in Ways, at \in 1..MaxObserved :
        LET o == Observation(r, i, p, way, at)
            v == vault[r] \cup {o}
            a == AdmitReceipts(v, r)
        IN  /\ Observes(r, o)
            /\ vault' = [vault EXCEPT ![r] = a]
            /\ jobs' = [jobs EXCEPT ![r] = @ \cup {[source |-> o, live |-> Live(vault[r], o, a), stage |-> "owed", rotation |-> None, under |-> None, todo |-> {}]}]
            /\ Enters(r, v)
            /\ UNCHANGED <<mediator, calls, disturbed>>
  BY DEF Receive, Observation
<1> DEFINE o == Observation(r, i, p, way, at)
           v == vault[r] \cup {o}
           a == AdmitReceipts(v, r)
<1>1a. PICK k : k = [source |-> o, live |-> Live(vault[r], o, a), stage |-> "owed", rotation |-> None, under |-> None, todo |-> {}]
  OBVIOUS
<1>1b. PICK J : J = jobs[r] \cup {k} OBVIOUS
<1>2. o.kind = "in" /\ o.way = way /\ o.author = r BY DEF Observation
<1>3. Live(vault[r], o, a) => Observations(vault[r]) = {} BY DEF Live
<1>3a. Live(vault[r], o, a) \in BOOLEAN BY DEF Live
<1>4. k.source = o /\ k.live = Live(vault[r], o, a) /\ k.stage = "owed" /\ k.todo = {} /\ k.rotation = None BY <1>1a
<1>5. jobs' = [jobs EXCEPT ![r] = J] BY <1>1, <1>1a, <1>1b
<1>6. VaultTo(r, a) /\ JobsTo(r, J) BY <1>1, <1>5, VaultGoes, JobsGo
<1>7. Observes(r, o) /\ Enters(r, v) /\ mediator' = mediator /\ calls' = calls BY <1>1
<1> HIDE DEF o
<1>8. Adds(r, v) /\ Observations(v) = Observations(vault[r]) \cup {o} BY <1>2, ObservationAdds
<1>9. Adds(r, a) BY <1>8, AdmitAdds
<1>10. Observations(a) = Observations(v)
  <2>1. IsFiniteSet(v) BY <1>8 DEF Adds
  <2> HIDE DEF v
  <2>2. v \subseteq a /\ \A x \in a \ v : x.kind = "admitted" BY <2>1, AdmitFacts
  <2> HIDE DEF a
  <2> QED BY <2>2 DEF Observations, Of
<1>11. k \in [source : {o}, live : BOOLEAN, stage : {"owed"}, rotation : {None}, under : {None}, todo : {{}}] BY <1>1a, <1>3a
<1> HIDE DEF a, v
<1>12. /\ HomeInv' /\ AgreeInv' /\ WayInv' /\ EnteredInv'
       /\ \A s \in Replicas : Calm(s)
       /\ Observations(vault[r]) = {} => entered'[r] = {o}
       /\ DOMAIN vault' = Replicas /\ DOMAIN entered' = Replicas
       /\ \A s \in Replicas : IsFiniteSet(vault'[s])
  BY <1>2, <1>6, <1>7, <1>8, <1>9, <1>10, ObserveKeeps
<1>13. ChainInv(r, k)'
  <2>1. o \in Observations(vault'[r]) BY <1>6, <1>8, <1>10 DEF VaultTo
  <2>2. k \in Chains(r)' BY <1>11, <2>1 DEF Chains, Stages
  <2>3. k.live => \A c \in calls' : c.by # r BY <1>3, <1>4, <1>7 DEF Inv, CallsInv
  <2>6. k.live => Uncalled(r, "ack")' /\ Uncalled(r, "reply")' /\ Uncalled(r, "notify")' BY <2>3 DEF Uncalled
  <2>4. k.source.author = r BY <1>2, <1>4
  <2>5. k.live => entered'[r] = {k.source} BY <1>3, <1>4, <1>12
  <2> QED BY <1>4, <2>2, <2>4, <2>5, <2>6 DEF ChainInv, Answering
<1>14. \A i1, i2 \in J : i1.live /\ i2.live => i1 = i2
  <2>1. k.live => jobs[r] = {} BY <1>3, <1>4 DEF Inv, JobsInv, ChainInv, Chains
  <2> QED BY <2>1, <1>1b DEF Inv, JobsInv
<1>15. JobsInv' /\ CallsInv' /\ OnceInv' BY <1>1b, <1>6, <1>7, <1>12, <1>13, <1>14, ChainsKeep
<1>16. ShapeInv' BY <1>6, <1>7, <1>12 DEF ShapeInv, JobsTo, Inv
<1> QED BY <1>7, <1>12, <1>15, <1>16, MediatorStays DEF Inv

(* A crash in a receipt leaves the observation without a chain.            *)
LEMMA CrashInReceiptKeeps ==
  ASSUME Inv, NEW r \in Replicas, CrashInReceipt(r)
  PROVE  Inv'
<1>1. PICK i \in Intents, p \in Proofs, way \in Ways, at \in 1..MaxObserved :
        LET o == Observation(r, i, p, way, at)
        IN  /\ Observes(r, o)
            /\ vault' = [vault EXCEPT ![r] = @ \cup {o}]
            /\ jobs' = [jobs EXCEPT ![r] = {}]
            /\ Enters(r, vault'[r])
            /\ UNCHANGED <<mediator, calls>>
  BY DEF CrashInReceipt, Observation
<1> DEFINE o == Observation(r, i, p, way, at)
           v == vault[r] \cup {o}
<1>2. o.kind = "in" /\ o.way = way /\ o.author = r BY DEF Observation
<1>3. vault' = [vault EXCEPT ![r] = v] BY <1>1
<1>4. VaultTo(r, v) /\ JobsTo(r, {}) BY <1>1, <1>3, VaultGoes, JobsGo
<1>5. Observes(r, o) /\ Enters(r, v) /\ mediator' = mediator /\ calls' = calls BY <1>1, <1>4 DEF VaultTo
<1> HIDE DEF o
<1>6. Adds(r, v) /\ Observations(v) = Observations(vault[r]) \cup {o} BY <1>2, ObservationAdds
<1>7. /\ HomeInv' /\ AgreeInv' /\ WayInv' /\ EnteredInv'
      /\ \A s \in Replicas : Calm(s)
      /\ DOMAIN vault' = Replicas /\ DOMAIN entered' = Replicas
      /\ \A s \in Replicas : IsFiniteSet(vault'[s])
  BY <1>2, <1>4, <1>5, <1>6, ObserveKeeps
<1>8. JobsInv' /\ CallsInv' /\ OnceInv' BY <1>4, <1>5, <1>7, ChainsKeep
<1>9. ShapeInv' BY <1>4, <1>5, <1>7 DEF ShapeInv, JobsTo, Inv
<1> QED BY <1>5, <1>7, <1>8, <1>9, MediatorStays DEF Inv

(* An import brings events of others, so nothing a chain of this replica   *)
(* relies on.                                                              *)
LEMMA ImportStepKeeps ==
  ASSUME Inv, NEW r \in Replicas, Import(r)
  PROVE  Inv'
<1>1. PICK s \in Replicas : vault' = [vault EXCEPT ![r] = @ \cup vault[s]] BY DEF Import
<1>2. Enters(r, vault'[r]) /\ jobs' = jobs /\ mediator' = mediator /\ calls' = calls BY DEF Import
<1>3. vault' = [vault EXCEPT ![r] = vault[r] \cup vault[s]] BY <1>1
<1>4. VaultTo(r, vault[r] \cup vault[s]) /\ JobsTo(r, jobs[r]) BY <1>2, <1>3, VaultGoes, JobsStay
<1>5. /\ HomeInv' /\ AgreeInv' /\ WayInv'
      /\ \A t \in Replicas : IsFiniteSet(vault'[t]) /\ vault[t] \subseteq vault'[t]
  BY <1>4, ImportKeeps
<1>6. /\ DOMAIN entered' = Replicas
      /\ entered'[r] = IF entered[r] = {} THEN Observations(vault'[r]) ELSE entered[r]
      /\ \A t \in Replicas \ {r} : entered'[t] = entered[t]
  BY <1>2 DEF Enters, Inv, ShapeInv
<1>7. \A t \in Replicas : Calm(t) BY <1>2, <1>5, <1>6, MediatorStays DEF Calm
<1>8. \A t \in Replicas : Observations(vault[t]) \subseteq Observations(vault'[t]) BY <1>5, AdmittedGrows
<1>9. EnteredInv' BY <1>6, <1>8 DEF Inv, EnteredInv
<1>10. \A j, k \in jobs[r] : j.live /\ k.live => j = k BY DEF Inv, JobsInv
<1>11. JobsInv' /\ CallsInv' /\ OnceInv' BY <1>2, <1>4, <1>7, <1>10, ChainsKeep
<1>12. ShapeInv' BY <1>2, <1>4, <1>5, <1>6 DEF ShapeInv, VaultTo, JobsTo, Inv
<1> QED BY <1>2, <1>5, <1>9, <1>11, <1>12, MediatorStays DEF Inv

-----------------------------------------------------------------------------
(* The steps of a call chain.                                              *)

(* The invariant, when a chain of r ends or goes on as another.            *)
LEMMA MoveKeeps ==
  ASSUME Inv, NEW r \in Replicas, NEW w, NEW j \in jobs[r], NEW k,
         VaultTo(r, w), Adds(r, w), Unobserving(r, w),
         \/ JobsTo(r, jobs[r] \ {j})
         \/ JobsTo(r, (jobs[r] \ {j}) \cup {k}) /\ ChainInv(r, k)' /\ (j.live \/ ~k.live),
         entered' = entered, calls' = calls,
         MediatorInv', FirstsStay
  PROVE  Inv'
<1>1. CASE JobsTo(r, jobs[r] \ {j})
  <2>1. PICK J : J = jobs[r] \ {j} OBVIOUS
  <2>2. \A i, l \in J : i.live /\ l.live => i = l BY <2>1, MovesKeepOneLive
  <2>3. JobsTo(r, J) /\ \A i \in J : i \in jobs[r] BY <2>1, <1>1
  <2> QED BY <2>2, <2>3, Keeps
<1>2. CASE JobsTo(r, (jobs[r] \ {j}) \cup {k}) /\ ChainInv(r, k)' /\ (j.live \/ ~k.live)
  <2>1. PICK J : J = (jobs[r] \ {j}) \cup {k} OBVIOUS
  <2>2. \A i, l \in J : i.live /\ l.live => i = l BY <2>1, <1>2, MovesKeepOneLive
  <2>3. JobsTo(r, J) /\ \A i \in J : i \in jobs[r] \/ ChainInv(r, i)' BY <2>1, <1>2
  <2> QED BY <2>2, <2>3, Keeps
<1> QED BY <1>1, <1>2

(* A chain that only changes its stage.                                    *)
LEMMA ChainFacts ==
  ASSUME NEW r, NEW j \in Chains(r), NEW stage \in Stages, vault[r] \subseteq vault'[r],
         NEW k, k = [j EXCEPT !.stage = stage]
  PROVE  /\ k \in Chains(r)'
         /\ k.source = j.source
         /\ k.live = j.live
         /\ k.stage = stage
         /\ k.todo = j.todo
<1>1. Observations(vault[r]) \subseteq Observations(vault'[r]) /\ \A kind : Of(vault[r], kind) \subseteq Of(vault'[r], kind)
  BY AdmittedGrows
<1> QED BY <1>1 DEF Chains

(* A chain that is under way is sound.                                     *)
LEMMA JobFacts ==
  ASSUME Inv, NEW r \in Replicas, NEW j \in jobs[r]
  PROVE  ChainInv(r, j) /\ j \in Chains(r)
BY DEF Inv, JobsInv, ChainInv

(* A vault left alone has nothing added.                                   *)
LEMMA StayAdds ==
  ASSUME Inv, NEW r \in Replicas
  PROVE  Adds(r, vault[r]) /\ Unobserving(r, vault[r])
<1>1. IsFiniteSet(vault[r]) BY DEF Inv, ShapeInv
<1> QED BY <1>1, PlainAdds DEF Unobserving

(* A chain that goes on before it makes anything.                          *)
LEMMA StageKept ==
  ASSUME Inv, NEW r \in Replicas, NEW j \in jobs[r], NEW k, k \in Chains(r)',
         k.source = j.source, k.live = j.live, k.todo = j.todo,
         j.stage \notin {"decide", "call"}, k.stage # "call",
         k.stage # "owed" => j.live,
         k.stage \in Answering => Entitled(r, k)',
         entered' = entered, calls' = calls
  PROVE  ChainInv(r, k)'
<1>1. ChainInv(r, j) BY JobFacts
<1>2. k.todo = {} BY <1>1 DEF ChainInv
<1>3. j.live => Uncalled(r, "ack") /\ Uncalled(r, "reply") /\ Uncalled(r, "notify") BY <1>1 DEF ChainInv
<1>4. j.live => Uncalled(r, "ack")' /\ Uncalled(r, "reply")' /\ Uncalled(r, "notify")' BY <1>3 DEF Uncalled
<1>5. k.source.author = r /\ (k.live => entered'[r] = {k.source}) BY <1>1 DEF ChainInv
<1> QED BY <1>2, <1>4, <1>5 DEF ChainInv

(* The chain goes on from what is owed, through its address, to the        *)
(* question who answers.                                                   *)
LEMMA AfterReceiptKeeps ==
  ASSUME Inv, NEW r \in Replicas, AfterReceipt(r)
  PROVE  Inv'
<1>1. PICK j \in jobs[r] :
        /\ j.stage = "owed"
        /\ \/ vault' = [vault EXCEPT ![r] = RecordOwed(@, r)]
           \/ vault' = vault
        /\ IF j.live THEN Goes(r, j, [j EXCEPT !.stage = "address"]) ELSE Ends(r, j)
        /\ mediator' = mediator /\ calls' = calls /\ entered' = entered
  BY DEF AfterReceipt
<1>2. PICK w : VaultTo(r, w) /\ Adds(r, w) /\ Unobserving(r, w)
  <2>1. CASE vault' = [vault EXCEPT ![r] = RecordOwed(@, r)]
    <3>1. VaultTo(r, RecordOwed(vault[r], r)) BY <2>1, VaultGoes
    <3> QED BY <3>1, StayAdds, OwedAdds
  <2>2. CASE vault' = vault BY <2>2, VaultStays, StayAdds
  <2> QED BY <1>1, <2>1, <2>2
<1>3. vault[r] \subseteq vault'[r] BY <1>2 DEF VaultTo, Adds
<1>4. PICK k : k = [j EXCEPT !.stage = "address"] OBVIOUS
<1>5. /\ k \in Chains(r)' /\ k.source = j.source /\ k.live = j.live
      /\ k.stage = "address" /\ k.todo = j.todo
  BY <1>3, <1>4, JobFacts, ChainFacts DEF Stages
<1>6. CASE j.live
  <2>1. JobsTo(r, (jobs[r] \ {j}) \cup {k}) BY <1>1, <1>4, <1>6, JobsGo DEF Goes
  <2>2. ChainInv(r, k)' BY <1>1, <1>5, <1>6, StageKept DEF Answering
  <2> QED BY <1>1, <1>2, <1>6, <2>1, <2>2, MoveKeeps, MediatorStays
<1>7. CASE ~j.live
  <2>1. JobsTo(r, jobs[r] \ {j}) BY <1>1, <1>7, JobsGo DEF Ends
  <2> QED BY <1>1, <1>2, <2>1, MoveKeeps, MediatorStays
<1> QED BY <1>6, <1>7

LEMMA PrivateAddressKeeps ==
  ASSUME Inv, NEW r \in Replicas, PrivateAddress(r)
  PROVE  Inv'
<1> DEFINE d(j) == Decision(r, j.source)
<1>1. PICK j \in jobs[r] :
        /\ j.stage = "address"
        /\ \/ /\ vault' = [vault EXCEPT ![r] = @ \cup {d(j)}]
              /\ Goes(r, j, [j EXCEPT !.stage = "find", !.rotation = d(j)])
           \/ Goes(r, j, [j EXCEPT !.stage = "find"]) /\ vault' = vault
        /\ mediator' = mediator /\ calls' = calls /\ entered' = entered
  BY DEF PrivateAddress
<1>2. ChainInv(r, j) /\ j \in Chains(r) /\ j.live BY <1>1, JobFacts DEF ChainInv
<1>3. CASE /\ vault' = [vault EXCEPT ![r] = @ \cup {d(j)}]
           /\ Goes(r, j, [j EXCEPT !.stage = "find", !.rotation = d(j)])
  <2>0. PICK x : x = d(j) OBVIOUS
  <2>1. x.kind = "rotation" /\ x.author = r BY <2>0 DEF Decision
  <2>2. IsFiniteSet(vault[r] \cup {x}) BY FS_AddElement DEF Inv, ShapeInv
  <2>3. Adds(r, vault[r] \cup {x}) /\ Unobserving(r, vault[r] \cup {x})
    BY <2>1, <2>2, PlainAdds DEF Kinds, Authored, Unobserving
  <2>4. VaultTo(r, vault[r] \cup {x}) BY <1>3, <2>0, VaultGoes
  <2>5. PICK k : k = [j EXCEPT !.stage = "find", !.rotation = x] OBVIOUS
  <2>6. JobsTo(r, (jobs[r] \ {j}) \cup {k}) BY <1>3, <2>0, <2>5, JobsGo DEF Goes
  <2>7. /\ Observations(vault[r]) \subseteq Observations(vault'[r])
        /\ Of(vault[r], "out") \subseteq Of(vault'[r], "out")
        /\ x \in Of(vault'[r], "rotation")
    BY <2>1, <2>4, AdmittedGrows, OfFacts DEF VaultTo
  <2>8. /\ k \in Chains(r)' /\ k.source = j.source /\ k.live = j.live
        /\ k.stage = "find" /\ k.todo = j.todo
    BY <1>2, <2>5, <2>7 DEF Chains, Stages
  <2>9. ChainInv(r, k)' BY <1>1, <1>2, <2>8, StageKept DEF Answering
  <2> QED BY <1>1, <1>2, <2>3, <2>4, <2>6, <2>9, MoveKeeps, MediatorStays
<1>4. CASE Goes(r, j, [j EXCEPT !.stage = "find"]) /\ vault' = vault
  <2>1. VaultTo(r, vault[r]) /\ Adds(r, vault[r]) /\ Unobserving(r, vault[r]) BY <1>4, VaultStays, StayAdds
  <2>2. PICK k : k = [j EXCEPT !.stage = "find"] OBVIOUS
  <2>3. JobsTo(r, (jobs[r] \ {j}) \cup {k}) BY <1>4, <2>2, JobsGo DEF Goes
  <2>4. /\ k \in Chains(r)' /\ k.source = j.source /\ k.live = j.live
        /\ k.stage = "find" /\ k.todo = j.todo
    BY <1>4, <2>2, JobFacts, ChainFacts DEF Stages
  <2>5. ChainInv(r, k)' BY <1>1, <1>2, <2>4, StageKept DEF Answering
  <2> QED BY <1>1, <1>2, <2>1, <2>3, <2>5, MoveKeeps, MediatorStays
<1> QED BY <1>1, <1>3, <1>4

(* Only the first of a registration goes on to answer; an input posted to  *)
(* a replica is its own.                                                   *)
LEMMA FindResponderKeeps ==
  ASSUME Inv, NEW r \in Replicas, FindResponder(r)
  PROVE  Inv'
<1> DEFINE stage(j) == IF j.rotation = None THEN "decide" ELSE "notify"
           n == Len(answerers')
<1>1. PICK j \in jobs[r] :
        /\ j.stage = "find"
        /\ mediator' = mediator \/ (answerers' = Registered(r) /\ standing' = TRUE)
        /\ \/ Ends(r, j)
           \/ j.source.way = "posted" /\ Goes(r, j, [j EXCEPT !.stage = stage(j)])
           \/ /\ answerers' = Registered(r) /\ standing' = TRUE /\ answerers'[n] = r
              /\ Goes(r, j, [[j EXCEPT !.stage = stage(j)] EXCEPT !.under = n])
        /\ vault' = vault /\ calls' = calls /\ entered' = entered
  BY DEF FindResponder
<1>2. ChainInv(r, j) /\ j \in Chains(r) /\ j.live BY <1>1, JobFacts DEF ChainInv
<1>3. VaultTo(r, vault[r]) /\ Adds(r, vault[r]) /\ Unobserving(r, vault[r]) BY <1>1, VaultStays, StayAdds
<1>4. MediatorInv' /\ FirstsStay BY <1>1, MediatorStays, MediatorAnswers
<1>5. PICK next : next = [j EXCEPT !.stage = stage(j)] OBVIOUS
<1>6. /\ next \in Chains(r)' /\ next.source = j.source /\ next.live = j.live
      /\ next.stage = stage(j) /\ next.todo = j.todo
  <2>1. PICK x : x = stage(j) OBVIOUS
  <2>2. x \in Stages /\ vault[r] \subseteq vault'[r] BY <1>1, <2>1 DEF Stages
  <2> HIDE DEF stage
  <2>3. next = [j EXCEPT !.stage = x] BY <1>5, <2>1
  <2>4. /\ next \in Chains(r)' /\ next.source = j.source /\ next.live = j.live
        /\ next.stage = x /\ next.todo = j.todo
    <3>1. j \in Chains(r)' BY <1>1, <1>2 DEF Chains
    <3> QED BY <2>2, <2>3, <3>1 DEF Chains
  <2> QED BY <2>1, <2>4
<1>7. ASSUME NEW k, Goes(r, j, k), k \in Chains(r)', k.source = j.source, k.live = j.live,
             k.stage = stage(j), k.todo = j.todo, Entitled(r, k)'
      PROVE  Inv'
  <2>1. JobsTo(r, (jobs[r] \ {j}) \cup {k}) BY <1>7, JobsGo DEF Goes
  <2>2. ChainInv(r, k)' BY <1>1, <1>2, <1>7, StageKept
  <2> QED BY <1>1, <1>2, <1>3, <1>4, <2>1, <2>2, MoveKeeps
<1>8. CASE Ends(r, j)
  <2>1. JobsTo(r, jobs[r] \ {j}) BY <1>8, JobsGo DEF Ends
  <2> QED BY <1>1, <1>3, <1>4, <2>1, MoveKeeps
<1>9. CASE j.source.way = "posted" /\ Goes(r, j, next)
  <2>1. Entitled(r, next)' BY <1>6, <1>9 DEF Entitled
  <2> QED BY <1>6, <1>7, <1>9, <2>1
<1>10. CASE /\ answerers' = Registered(r) /\ standing' = TRUE /\ answerers'[n] = r
            /\ Goes(r, j, [next EXCEPT !.under = n])
  <2>1. PICK k : k = [next EXCEPT !.under = n] OBVIOUS
  <2>2. n \in DOMAIN answerers' /\ n \in Nat BY <1>10, MediatorAnswers
  <2> HIDE DEF n
  <2>3. /\ k \in Chains(r)' /\ k.source = j.source /\ k.live = j.live
        /\ k.stage = stage(j) /\ k.todo = j.todo /\ k.under = n
    BY <1>6, <2>1, <2>2 DEF Chains
  <2>4. Entitled(r, k)' BY <1>10, <2>2, <2>3 DEF Entitled
  <2> QED BY <1>7, <1>10, <2>1, <2>3, <2>4
<1> QED BY <1>1, <1>5, <1>8, <1>9, <1>10

(* What a vault that only took outputs of its own has made.                *)
LEMMA OutAdds ==
  ASSUME Inv, NEW r \in Replicas, NEW w, vault[r] \subseteq w, IsFiniteSet(w),
         \A x \in w \ vault[r] : x.kind \in {"out", "skip"} /\ x.author = r
  PROVE  /\ Adds(r, w) /\ Unobserving(r, w)
         /\ Made(vault[r], w) \subseteq Of(w, "out")
         /\ Made(vault[r], w) \subseteq w \ vault[r]
<1>1. Adds(r, w) BY PlainAdds DEF Kinds, Authored
<1>2. Unobserving(r, w) BY DEF Unobserving
<1>3. Made(vault[r], w) \subseteq Of(w, "out") BY OfFacts DEF Made
<1> QED BY <1>1, <1>2, <1>3 DEF Made

(* Vaults are finite.                                                      *)
LEMMA VaultFinite == ASSUME Inv, NEW r \in Replicas PROVE IsFiniteSet(vault[r])
BY DEF Inv, ShapeInv

(* A notification is made before any effect is decided, by the live chain  *)
(* that answers.                                                           *)
LEMMA NotifyKeeps ==
  ASSUME Inv, NEW r \in Replicas, Notify(r)
  PROVE  Inv'
<1>1. PICK j \in jobs[r] : \E v \in {vault[r], Notified(vault[r], r, j.rotation)} :
        /\ j.stage = "notify"
        /\ vault' = [vault EXCEPT ![r] = v]
        /\ Goes(r, j, [j EXCEPT !.stage = "decide", !.todo = Made(vault[r], v)])
        /\ mediator' = mediator /\ calls' = calls /\ entered' = entered
  BY DEF Notify
<1>2. PICK w \in {vault[r], Notified(vault[r], r, j.rotation)} :
        /\ vault' = [vault EXCEPT ![r] = w]
        /\ Goes(r, j, [j EXCEPT !.stage = "decide", !.todo = Made(vault[r], w)])
  BY <1>1
<1>3. ChainInv(r, j) /\ j \in Chains(r) /\ j.live /\ j.stage = "notify" BY <1>1, JobFacts DEF ChainInv
<1>4. /\ vault[r] \subseteq w /\ IsFiniteSet(w)
      /\ \A x \in w \ vault[r] : /\ x.kind = "out" /\ x.author = r /\ x.op = "notify"
                                 /\ \A y \in w \ vault[r] : y = x
  BY VaultFinite, NotifiedFacts
<1>5. /\ Adds(r, w) /\ Unobserving(r, w)
      /\ Made(vault[r], w) \subseteq Of(w, "out") /\ Made(vault[r], w) \subseteq w \ vault[r]
  BY <1>4, OutAdds
<1>6. VaultTo(r, w) /\ vault'[r] = w BY <1>2, VaultGoes DEF VaultTo
<1>7. PICK todo : todo = Made(vault[r], w) OBVIOUS
<1>8. PICK k : k = [j EXCEPT !.stage = "decide", !.todo = todo] OBVIOUS
<1>9. JobsTo(r, (jobs[r] \ {j}) \cup {k}) BY <1>2, <1>7, <1>8, JobsGo DEF Goes
<1>10. /\ k \in Chains(r)' /\ k.source = j.source /\ k.live = j.live
       /\ k.stage = "decide" /\ k.todo = todo
  <2>1. "decide" \in Stages BY DEF Stages
  <2>2. todo \in SUBSET Of(vault'[r], "out") BY <1>5, <1>6, <1>7
  <2>3. j \in Chains(r) BY JobFacts
  <2>4. vault[r] \subseteq vault'[r] BY <1>4, <1>6
  <2>5. Observations(vault[r]) \subseteq Observations(vault'[r]) /\ Of(vault[r], "rotation") \subseteq Of(vault'[r], "rotation")
    BY <2>4, AdmittedGrows
  <2> QED BY <1>8, <2>1, <2>2, <2>3, <2>5 DEF Chains
<1>11. ChainInv(r, k)'
  <2>1. \A x \in todo : x.op = "notify" /\ \A y \in todo : y = x BY <1>4, <1>5, <1>7
  <2>2. Uncalled(r, "ack") /\ Uncalled(r, "reply") /\ Uncalled(r, "notify") BY <1>3 DEF ChainInv
  <2>3. Uncalled(r, "ack")' /\ Uncalled(r, "reply")' /\ Uncalled(r, "notify")' BY <1>1, <2>2 DEF Uncalled
  <2>4. \A x \in todo : Uncalled(r, x.op)' BY <2>1, <2>3
  <2>5. k.source.author = r /\ entered'[r] = {k.source}
    BY <1>1, <1>3, <1>10 DEF ChainInv
  <2>6. Entitled(r, k)'
    <3>1. Entitled(r, j) /\ k.under = j.under BY <1>3, <1>8, <1>10 DEF ChainInv, Answering, Chains
    <3> QED BY <1>1, <1>10, <3>1, MediatorStays DEF Entitled, FirstsStay
  <2> QED BY <1>3, <1>10, <2>1, <2>3, <2>4, <2>5, <2>6 DEF ChainInv
<1> QED BY <1>1, <1>3, <1>5, <1>6, <1>9, <1>11, MoveKeeps, MediatorStays

(* The effects decided: at most one result of each, for none that stood.   *)
LEMMA DecidedFacts ==
  ASSUME NEW v, IsFiniteSet(v), NEW r, NEW given
  PROVE  /\ v \subseteq Decided(v, r, given) /\ IsFiniteSet(Decided(v, r, given))
         /\ \A x \in Decided(v, r, given) \ v :
              /\ x.kind \in {"out", "skip"} /\ x.author = r /\ x.op \in Effect
              /\ ~Settled(v, x.op)
              /\ x.kind = "out" => x.rotation = None
              /\ \A y \in Decided(v, r, given) \ v : y.op = x.op => y = x
<1> DEFINE u == Recorded(v, r, "ack", given.ack)
           w == Recorded(u, r, "reply", given.reply)
<1>1. /\ v \subseteq u /\ IsFiniteSet(u)
      /\ \A x \in u \ v : /\ x.kind \in {"out", "skip"} /\ x.author = r /\ x.op = "ack" /\ ~Settled(v, "ack")
                          /\ x.kind = "out" => x.rotation = None
                          /\ \A y \in u \ v : y = x
  BY RecordedFacts
<1> HIDE DEF u
<1>2. /\ u \subseteq w /\ IsFiniteSet(w)
      /\ \A x \in w \ u : /\ x.kind \in {"out", "skip"} /\ x.author = r /\ x.op = "reply" /\ ~Settled(u, "reply")
                          /\ x.kind = "out" => x.rotation = None
                          /\ \A y \in w \ u : y = x
  BY <1>1, RecordedFacts
<1>3. ~Settled(u, "reply") => ~Settled(v, "reply") BY <1>1 DEF Settled, Results, Of
<1>4. Decided(v, r, given) = w BY DEF Decided, u
<1> HIDE DEF w
<1>5. \A x \in w \ v : x \in u \ v \/ x \in w \ u OBVIOUS
<1>6. \A x \in w \ v : /\ x.kind \in {"out", "skip"} /\ x.author = r /\ x.op \in Effect
                       /\ ~Settled(v, x.op)
                       /\ x.kind = "out" => x.rotation = None
  BY <1>1, <1>2, <1>3, <1>5 DEF Effect
<1>7. \A x, y \in w \ v : y.op = x.op => y = x BY <1>1, <1>2, <1>5
<1> QED BY <1>1, <1>2, <1>4, <1>6, <1>7

(* The effects decided are those nothing was recorded for, so nobody       *)
(* called them.                                                            *)
LEMMA DecideEffectsKeeps ==
  ASSUME Inv, NEW r \in Replicas, DecideEffects(r)
  PROVE  Inv'
<1>1. PICK j \in jobs[r] : \E given : \E v \in {vault[r], Decided(vault[r], r, given)} :
        /\ j.stage = "decide" /\ j.todo = {}
        /\ vault' = [vault EXCEPT ![r] = v]
        /\ IF Made(vault[r], v) = {} THEN Ends(r, j)
           ELSE Goes(r, j, [j EXCEPT !.stage = "call", !.todo = Made(vault[r], v)])
        /\ mediator' = mediator /\ calls' = calls /\ entered' = entered
  BY DEF DecideEffects
<1>0. PICK given : \E v \in {vault[r], Decided(vault[r], r, given)} :
        /\ vault' = [vault EXCEPT ![r] = v]
        /\ IF Made(vault[r], v) = {} THEN Ends(r, j)
           ELSE Goes(r, j, [j EXCEPT !.stage = "call", !.todo = Made(vault[r], v)])
  BY <1>1
<1>2. PICK w \in {vault[r], Decided(vault[r], r, given)} :
        /\ vault' = [vault EXCEPT ![r] = w]
        /\ IF Made(vault[r], w) = {} THEN Ends(r, j)
           ELSE Goes(r, j, [j EXCEPT !.stage = "call", !.todo = Made(vault[r], w)])
  BY <1>0
<1>3. ChainInv(r, j) /\ j \in Chains(r) /\ j.live /\ j.stage = "decide" BY <1>1, JobFacts DEF ChainInv
<1>4. /\ vault[r] \subseteq w /\ IsFiniteSet(w)
      /\ \A x \in w \ vault[r] : /\ x.kind \in {"out", "skip"} /\ x.author = r /\ x.op \in Effect
                                 /\ \A y \in w \ vault[r] : y.op = x.op => y = x
  BY VaultFinite, DecidedFacts
<1>5. /\ Adds(r, w) /\ Unobserving(r, w)
      /\ Made(vault[r], w) \subseteq Of(w, "out") /\ Made(vault[r], w) \subseteq w \ vault[r]
  BY <1>4, OutAdds
<1>6. VaultTo(r, w) /\ vault'[r] = w BY <1>2, VaultGoes DEF VaultTo
<1>7. PICK todo : todo = Made(vault[r], w) OBVIOUS
<1>8. PICK k : k = [j EXCEPT !.stage = "call", !.todo = todo] OBVIOUS
<1>9. CASE Ends(r, j)
  <2>1. JobsTo(r, jobs[r] \ {j}) BY <1>9, JobsGo DEF Ends
  <2> QED BY <1>1, <1>5, <1>6, <2>1, MoveKeeps, MediatorStays
<1>10. CASE Goes(r, j, k)
  <2>1. JobsTo(r, (jobs[r] \ {j}) \cup {k}) BY <1>10, JobsGo DEF Goes
  <2>2. /\ k \in Chains(r)' /\ k.source = j.source /\ k.live = j.live
        /\ k.stage = "call" /\ k.todo = todo
    <3>1. "call" \in Stages BY DEF Stages
    <3>2. todo \in SUBSET Of(vault'[r], "out") BY <1>5, <1>6, <1>7
    <3>3. j \in Chains(r) BY JobFacts
    <3>4. vault[r] \subseteq vault'[r] BY <1>4, <1>6
    <3>5. Observations(vault[r]) \subseteq Observations(vault'[r]) /\ Of(vault[r], "rotation") \subseteq Of(vault'[r], "rotation")
      BY <3>4, AdmittedGrows
    <3> QED BY <1>8, <3>1, <3>2, <3>3, <3>5 DEF Chains
  <2>3. \A x \in todo : x.op \in Effect /\ \A y \in todo : y.op = x.op => y = x BY <1>4, <1>5, <1>7
  <2>4. Uncalled(r, "ack") /\ Uncalled(r, "reply") BY <1>3 DEF ChainInv
  <2>5. Uncalled(r, "ack")' /\ Uncalled(r, "reply")' BY <1>1, <2>4 DEF Uncalled
  <2>6. \A x \in todo : Uncalled(r, x.op)' BY <2>3, <2>5 DEF Effect
  <2>7. k.source.author = r /\ entered'[r] = {k.source}
    BY <1>1, <1>3, <2>2 DEF ChainInv
  <2>9. Entitled(r, k)'
    <3>1. Entitled(r, j) /\ k.under = j.under BY <1>3, <1>8, <2>2 DEF ChainInv, Answering, Chains
    <3> QED BY <1>1, <2>2, <3>1, MediatorStays DEF Entitled, FirstsStay
  <2>8. ChainInv(r, k)' BY <1>3, <2>2, <2>3, <2>6, <2>7, <2>9 DEF ChainInv
  <2> QED BY <1>1, <1>3, <1>5, <1>6, <2>1, <2>8, MoveKeeps, MediatorStays
<1> QED BY <1>2, <1>7, <1>8, <1>9, <1>10

(* A call is the first of its operation, as the one live chain had it      *)
(* still to call.                                                          *)
LEMMA CallEffectKeeps ==
  ASSUME Inv, NEW r \in Replicas, CallEffect(r)
  PROVE  Inv'
<1>1. PICK j \in jobs[r] : \E x \in j.todo :
        /\ calls' = calls \cup {[by |-> r, op |-> x.op, source |-> j.source, under |-> j.under, n |-> Cardinality({c \in calls : c.by = r /\ c.op = x.op})]}
        /\ IF j.stage = "call" /\ j.todo = {x} THEN Ends(r, j) ELSE Goes(r, j, [j EXCEPT !.todo = @ \ {x}])
        /\ vault' = vault /\ mediator' = mediator /\ entered' = entered
  BY DEF CallEffect
<1>2. PICK x \in j.todo :
        /\ calls' = calls \cup {[by |-> r, op |-> x.op, source |-> j.source, under |-> j.under, n |-> Cardinality({c \in calls : c.by = r /\ c.op = x.op})]}
        /\ IF j.stage = "call" /\ j.todo = {x} THEN Ends(r, j) ELSE Goes(r, j, [j EXCEPT !.todo = @ \ {x}])
  BY <1>1
<1>3. PICK c : c = [by |-> r, op |-> x.op, source |-> j.source, under |-> j.under, n |-> Cardinality({d \in calls : d.by = r /\ d.op = x.op})]
  OBVIOUS
<1>4. calls' = calls \cup {c} /\ c.by = r /\ c.op = x.op /\ c.source = j.source /\ c.under = j.under BY <1>2, <1>3
<1>5. ChainInv(r, j) /\ j \in Chains(r) BY JobFacts
<1>6. /\ j.stage \in {"decide", "call"} /\ j.live /\ Uncalled(r, x.op)
      /\ Entitled(r, j)
      /\ entered[r] = {j.source} /\ j.source.author = r /\ j.source \in Observations(vault[r])
  BY <1>5 DEF ChainInv, Answering, Chains
<1>7. VaultTo(r, vault[r]) /\ HomeInv' /\ WayInv' /\ AgreeInv' /\ EnteredInv'
  BY <1>1, VaultStays DEF Inv, HomeInv, WayInv, AgreeInv, EnteredInv, Own
<1>0. MediatorInv' /\ FirstsStay BY <1>1, MediatorStays
<1>8. CallsInv'
  <2>1. \A d : Entitled(d.by, d) => Entitled(d.by, d)' BY <1>0 DEF FirstsStay, Entitled
  <2>2. Entitled(c.by, c) BY <1>4, <1>6 DEF Entitled
  <2>3. \A d \in calls' : Entitled(d.by, d)' BY <1>4, <2>1, <2>2 DEF Inv, CallsInv
  <2> QED BY <1>1, <1>4, <1>6, <2>3 DEF Inv, CallsInv
<1>9. OnceInv'
  <2>1. \A d \in calls : d.by = r => d.op # x.op BY <1>6 DEF Uncalled
  <2> QED BY <1>4, <2>1 DEF Inv, OnceInv
<1>10. PICK k : k = [j EXCEPT !.todo = @ \ {x}] OBVIOUS
<1>11. /\ k \in Chains(r) /\ k.source = j.source /\ k.live = j.live /\ k.stage = j.stage /\ k.todo = j.todo \ {x}
  BY <1>5, <1>10 DEF Chains
<1>12. ChainInv(r, k)'
  <2>1. k \in Chains(r)' BY <1>1, <1>11 DEF Chains
  <2>2. \A y \in k.todo : y.op # x.op BY <1>5, <1>11 DEF ChainInv
  <2>3. \A op : op # x.op /\ Uncalled(r, op) => \A d \in calls' : d.by = r => d.op # op BY <1>4 DEF Uncalled
  <2>4. \A y \in k.todo : Uncalled(r, y.op)
    BY <1>5, <1>11 DEF ChainInv
  <2>5. \A y \in k.todo : Uncalled(r, y.op)' BY <2>2, <2>3, <2>4 DEF Uncalled
  <2>6. k.stage # "call" => Uncalled(r, "ack")' /\ Uncalled(r, "reply")'
    <3> SUFFICES ASSUME k.stage # "call" PROVE Uncalled(r, "ack")' /\ Uncalled(r, "reply")'
      OBVIOUS
    <3>1. x.op = "notify" /\ Uncalled(r, "ack") /\ Uncalled(r, "reply") BY <1>5, <1>6, <1>11 DEF ChainInv
    <3> QED BY <3>1, <2>3 DEF Uncalled
  <2>7. k.source.author = r /\ entered'[r] = {k.source}
    BY <1>1, <1>6, <1>11
  <2>10. Entitled(r, k)'
    <3>1. Entitled(r, j) /\ k.under = j.under BY <1>5, <1>6, <1>10 DEF Chains
    <3> QED BY <1>0, <1>11, <3>1 DEF Entitled, FirstsStay
  <2>8. \A y \in k.todo : y.op \in IF k.stage = "decide" THEN {"notify"} ELSE Effect
    BY <1>5, <1>11 DEF ChainInv
  <2>9. \A y, z \in k.todo : y.op = z.op => y = z BY <1>5, <1>11 DEF ChainInv
  <2> QED BY <1>6, <1>11, <2>1, <2>5, <2>6, <2>7, <2>8, <2>9, <2>10 DEF ChainInv
<1>13. \/ JobsTo(r, jobs[r] \ {j})
       \/ JobsTo(r, (jobs[r] \ {j}) \cup {k})
  BY <1>2, <1>10, JobsGo DEF Ends, Goes
<1>14. \A i \in jobs'[r] : i \in jobs[r] \ {j} \/ i = k BY <1>13 DEF JobsTo
<1>15. ASSUME NEW i \in jobs[r] \ {j} PROVE ChainInv(r, i)'
  <2>1. ChainInv(r, i) /\ i \in Chains(r) BY JobFacts
  <2>2. ~i.live BY <1>6, MovesKeepOneLive DEF Inv, JobsInv
  <2>3. i.stage = "owed" /\ i.todo = {} BY <2>1, <2>2 DEF ChainInv
  <2>4. i \in Chains(r)' BY <1>1, <2>1 DEF Chains
  <2> QED BY <2>1, <2>2, <2>3, <2>4 DEF ChainInv, Answering
<1>16. ASSUME NEW s \in Replicas \ {r}, NEW i \in jobs[s] PROVE ChainInv(s, i)'
  <2>1. ChainInv(s, i) BY JobFacts
  <2>2. Calm(s) BY <1>0, <1>1 DEF Calm
  <2>3. \A d \in calls' : d.by = s => d \in calls BY <1>4
  <2> QED BY <2>1, <2>2, <2>3, ChainKept
<1>17. JobsInv'
  <2>1. SUFFICES ASSUME NEW s \in Replicas
                 PROVE  /\ \A i \in jobs'[s] : ChainInv(s, i)'
                        /\ \A i, l \in jobs'[s] : i.live /\ l.live => i = l
    BY DEF JobsInv
  <2>2. CASE s = r
    <3>1. \A i \in jobs'[r] : ChainInv(r, i)' BY <1>12, <1>14, <1>15
    <3>2. \A i \in jobs[r] \ {j} : ~i.live BY <1>6 DEF Inv, JobsInv
    <3> QED BY <1>14, <2>2, <3>1, <3>2
  <2>3. CASE s # r
    <3>1. jobs'[s] = jobs[s] BY <1>13, <2>3 DEF JobsTo
    <3> QED BY <1>16, <2>3, <3>1 DEF Inv, JobsInv
  <2> QED BY <2>2, <2>3
<1>18. ShapeInv' BY <1>1, <1>13 DEF Inv, ShapeInv, JobsTo
<1> QED BY <1>0, <1>7, <1>8, <1>9, <1>17, <1>18 DEF Inv

-----------------------------------------------------------------------------
(* The steps that move no chain on: a crash, a completion by hand, and     *)
(* what else changes a vault.                                              *)
LEMMA VaultOnlyKeeps ==
  ASSUME Inv, NEW r \in Replicas, NEW w, VaultTo(r, w), Adds(r, w), Unobserving(r, w),
         jobs' = jobs \/ JobsTo(r, {}), mediator' = mediator, calls' = calls, entered' = entered
  PROVE  Inv'
<1>1. CASE jobs' = jobs
  <2>1. PICK J : J = jobs[r] OBVIOUS
  <2>2. JobsTo(r, J) BY <1>1, <2>1, JobsStay
  <2>3. \A j, k \in J : j.live /\ k.live => j = k BY <2>1 DEF Inv, JobsInv
  <2> QED BY <2>1, <2>2, <2>3, Keeps, MediatorStays
<1>2. CASE JobsTo(r, {}) BY <1>2, Keeps, MediatorStays
<1> QED BY <1>1, <1>2

(* The steps that record without calling: a crash between decision and     *)
(* call, and completions by hand.                                          *)
LEMMA CrashInEffectsKeeps ==
  ASSUME Inv, NEW r \in Replicas, CrashInEffects(r)
  PROVE  Inv'
<1>0. PICK ack : \E w \in {vault[r], Recorded(vault[r], r, "ack", ack)} : vault' = [vault EXCEPT ![r] = w]
  BY DEF CrashInEffects
<1>1. PICK w \in {vault[r], Recorded(vault[r], r, "ack", ack)} : vault' = [vault EXCEPT ![r] = w]
  BY <1>0
<1>2. JobsTo(r, {}) /\ mediator' = mediator /\ calls' = calls /\ entered' = entered
  BY JobsGo DEF CrashInEffects
<1>3. /\ vault[r] \subseteq w /\ IsFiniteSet(w)
      /\ \A x \in w \ vault[r] : x.kind \in {"out", "skip"} /\ x.author = r
  BY VaultFinite, RecordedFacts
<1>4. Adds(r, w) /\ Unobserving(r, w) BY <1>3, OutAdds
<1>5. VaultTo(r, w) BY <1>1, VaultGoes
<1> QED BY <1>2, <1>4, <1>5, VaultOnlyKeeps

LEMMA CompleteResponseKeeps ==
  ASSUME Inv, NEW r \in Replicas, CompleteResponse(r)
  PROVE  Inv'
<1>1. PICK op, answer : op \in Effect /\ vault' = [vault EXCEPT ![r] = Recorded(vault[r], r, op, answer)]
  BY DEF CompleteResponse
<1>2. jobs' = jobs /\ mediator' = mediator /\ calls' = calls /\ entered' = entered BY DEF CompleteResponse
<1>3. PICK w : w = Recorded(vault[r], r, op, answer) OBVIOUS
<1>4. /\ vault[r] \subseteq w /\ IsFiniteSet(w)
      /\ \A x \in w \ vault[r] : x.kind \in {"out", "skip"} /\ x.author = r
  BY <1>3, VaultFinite, RecordedFacts
<1>5. Adds(r, w) /\ Unobserving(r, w) BY <1>4, OutAdds
<1>6. VaultTo(r, w) BY <1>1, <1>3, VaultGoes
<1> QED BY <1>2, <1>5, <1>6, VaultOnlyKeeps

LEMMA CompleteNotificationKeeps ==
  ASSUME Inv, NEW r \in Replicas, CompleteNotification(r)
  PROVE  Inv'
<1>1. PICK d : vault' = [vault EXCEPT ![r] = Notified(vault[r], r, d)]
  BY DEF CompleteNotification
<1>2. jobs' = jobs /\ mediator' = mediator /\ calls' = calls /\ entered' = entered BY DEF CompleteNotification
<1>3. PICK w : w = Notified(vault[r], r, d) OBVIOUS
<1>4. /\ vault[r] \subseteq w /\ IsFiniteSet(w)
      /\ \A x \in w \ vault[r] : x.kind \in {"out", "skip"} /\ x.author = r
  BY <1>3, VaultFinite, NotifiedFacts
<1>5. Adds(r, w) /\ Unobserving(r, w) BY <1>4, OutAdds
<1>6. VaultTo(r, w) BY <1>1, <1>3, VaultGoes
<1> QED BY <1>2, <1>5, <1>6, VaultOnlyKeeps

(* A rotation by hand: its decision, and perhaps its notification.         *)
LEMMA RotateFacts ==
  ASSUME Inv, NEW r \in Replicas, Rotate(r)
  PROVE  \E d, w : /\ d = Decision(r, None) /\ vault' = [vault EXCEPT ![r] = w]
                   /\ vault[r] \subseteq w /\ IsFiniteSet(w)
                   /\ \A x \in w \ vault[r] :
                        \/ x = d
                        \/ /\ x.kind = "out" /\ x.author = r /\ x.rotation = d /\ x.source = None
                           /\ Naming(vault[r], d) = {}
<1>1. PICK d : d = Decision(r, None) OBVIOUS
<1>2. PICK v : v = vault[r] \cup {d} OBVIOUS
<1>3. PICK w \in {v, Notified(v, r, d)} : vault' = [vault EXCEPT ![r] = w] BY <1>1, <1>2 DEF Rotate
<1>4. IsFiniteSet(v) /\ vault[r] \subseteq v BY <1>2, VaultFinite, FS_AddElement
<1>5. d.source = None /\ d.kind = "rotation" /\ d.author = r BY <1>1 DEF Decision
<1>6. /\ v \subseteq w /\ IsFiniteSet(w)
      /\ \A x \in w \ v : /\ x.kind = "out" /\ x.author = r /\ x.rotation = d /\ x.source = None
                          /\ Naming(v, d) = {}
  BY <1>3, <1>4, <1>5, NotifiedFacts
<1>7. Naming(v, d) = {} => Naming(vault[r], d) = {} BY <1>4 DEF Naming, Of
<1>8. \A x \in w \ vault[r] : x = d \/ x \in w \ v BY <1>2
<1>9. \A x \in w \ vault[r] :
        \/ x = d
        \/ /\ x.kind = "out" /\ x.author = r /\ x.rotation = d /\ x.source = None
           /\ Naming(vault[r], d) = {}
  BY <1>6, <1>7, <1>8
<1>10. vault[r] \subseteq w BY <1>4, <1>6
<1> QED BY <1>1, <1>3, <1>6, <1>9, <1>10

(* The steps that give evidence and decisions.                             *)
LEMMA RotateKeeps ==
  ASSUME Inv, NEW r \in Replicas, Rotate(r)
  PROVE  Inv'
<1>1. PICK d, w : /\ d = Decision(r, None) /\ vault' = [vault EXCEPT ![r] = w]
                  /\ vault[r] \subseteq w /\ IsFiniteSet(w)
                  /\ \A x \in w \ vault[r] : x = d \/ (x.kind = "out" /\ x.author = r)
  BY RotateFacts
<1>2. jobs' = jobs /\ mediator' = mediator /\ calls' = calls /\ entered' = entered BY DEF Rotate
<1>3. d.kind = "rotation" /\ d.author = r BY <1>1 DEF Decision
<1>4. Adds(r, w) BY <1>1, <1>3, PlainAdds DEF Kinds, Authored
<1>5. Unobserving(r, w) BY <1>1, <1>3 DEF Unobserving
<1>6. VaultTo(r, w) BY <1>1, VaultGoes
<1> QED BY <1>2, <1>4, <1>5, <1>6, VaultOnlyKeeps

LEMMA ReconcileKeeps ==
  ASSUME Inv, NEW r \in Replicas, Reconcile(r)
  PROVE  Inv'
<1>1. VaultTo(r, RecordOwed(vault[r], r)) BY VaultGoes DEF Reconcile
<1>2. Adds(r, RecordOwed(vault[r], r)) /\ Unobserving(r, RecordOwed(vault[r], r)) BY StayAdds, OwedAdds
<1>3. jobs' = jobs /\ mediator' = mediator /\ calls' = calls /\ entered' = entered BY DEF Reconcile
<1> QED BY <1>1, <1>2, <1>3, VaultOnlyKeeps

(* Evidence and a denial are nobody's.                                     *)
LEMMA UnauthoredAdds ==
  ASSUME Inv, NEW r \in Replicas, NEW x, x.kind \in {"evidence", "denied"}
  PROVE  Adds(r, vault[r] \cup {x}) /\ Unobserving(r, vault[r] \cup {x})
<1>1. IsFiniteSet(vault[r] \cup {x}) BY VaultFinite, FS_AddElement
<1> QED BY <1>1, PlainAdds DEF Kinds, Authored, Unobserving

LEMMA BringEvidenceKeeps ==
  ASSUME Inv, NEW r \in Replicas, BringEvidence(r)
  PROVE  Inv'
<1>1. PICK v : v = vault[r] \cup {Evidence} OBVIOUS
<1>2. VaultTo(r, RecordOwed(v, r)) BY <1>1, VaultGoes DEF BringEvidence
<1>6. Evidence.kind = "evidence" BY DEF Evidence
<1>3. Adds(r, v) /\ Unobserving(r, v) BY <1>1, <1>6, UnauthoredAdds
<1>4. Adds(r, RecordOwed(v, r)) /\ Unobserving(r, RecordOwed(v, r)) BY <1>3, OwedAdds
<1>5. jobs' = jobs /\ mediator' = mediator /\ calls' = calls /\ entered' = entered BY DEF BringEvidence
<1> QED BY <1>2, <1>4, <1>5, VaultOnlyKeeps

LEMMA DenyKeeps ==
  ASSUME Inv, NEW r \in Replicas, Deny(r)
  PROVE  Inv'
<1>1. VaultTo(r, vault[r] \cup {Denial}) BY VaultGoes DEF Deny
<1>4. Denial.kind = "denied" BY DEF Denial
<1>2. Adds(r, vault[r] \cup {Denial}) /\ Unobserving(r, vault[r] \cup {Denial}) BY <1>4, UnauthoredAdds
<1>3. jobs' = jobs /\ mediator' = mediator /\ calls' = calls /\ entered' = entered BY DEF Deny
<1> QED BY <1>1, <1>2, <1>3, VaultOnlyKeeps

(* A crash loses the chains.                                               *)
LEMMA CrashKeeps ==
  ASSUME Inv, NEW r \in Replicas, Crash(r)
  PROVE  Inv'
<1>1. VaultTo(r, vault[r]) BY VaultStays DEF Crash
<1>2. Adds(r, vault[r]) /\ Unobserving(r, vault[r]) BY StayAdds
<1>3. JobsTo(r, {}) /\ mediator' = mediator /\ calls' = calls /\ entered' = entered BY JobsGo DEF Crash
<1> QED BY <1>1, <1>2, <1>3, VaultOnlyKeeps

(* A purge takes no answer back.                                           *)
LEMMA PurgeKeeps ==
  ASSUME Inv, PurgeExecutions
  PROVE  Inv'
<1>1. MediatorInv' BY DEF PurgeExecutions, Inv, MediatorInv
<1>2. UNCHANGED <<vault, jobs, answerers, calls, entered>> BY DEF PurgeExecutions
<1>3. ShapeInv' /\ HomeInv' /\ WayInv' /\ EnteredInv' /\ AgreeInv'
  BY <1>2 DEF Inv, ShapeInv, HomeInv, WayInv, EnteredInv, AgreeInv, Own
<1>4. JobsInv' /\ CallsInv' /\ OnceInv'
  BY <1>2 DEF Inv, JobsInv, ChainInv, Chains, Uncalled, CallsInv, OnceInv, Entitled
<1> QED BY <1>1, <1>3, <1>4 DEF Inv

-----------------------------------------------------------------------------
(* The invariant holds at the start and is kept by every step.             *)
LEMMA InitInv == Init => Inv
<1> SUFFICES ASSUME Init PROVE Inv
  OBVIOUS
<1>1. \A r \in Replicas : vault[r] = {} /\ jobs[r] = {} /\ entered[r] = {} BY DEF Init
<1>2. \A r \in Replicas : Observations(vault[r]) = {} /\ \A kind : Of(vault[r], kind) = {} BY <1>1 DEF Observations, Of
<1>3. ShapeInv BY <1>1, FS_EmptySet DEF Init, ShapeInv
<1>4. HomeInv /\ WayInv /\ EnteredInv BY <1>1, <1>2 DEF HomeInv, WayInv, EnteredInv
<1>5. JobsInv BY <1>1 DEF JobsInv
<1>6. CallsInv /\ OnceInv BY DEF Init, CallsInv, OnceInv
<1>8. MediatorInv
  <2>1. answerers = <<>> /\ standing = FALSE BY DEF Init
  <2>2. answerers \in Seq(Replicas) BY <2>1
  <2> QED BY <2>1, <2>2 DEF MediatorInv
<1>7. AgreeInv BY <1>2 DEF AgreeInv, Own
<1> QED BY <1>3, <1>4, <1>5, <1>6, <1>7, <1>8 DEF Inv

(* Every step keeps the invariant.                                         *)
LEMMA NextInv == Inv /\ [Next]_vars => Inv'
<1> SUFFICES ASSUME Inv, [Next]_vars PROVE Inv'
  OBVIOUS
<1>1. CASE Next /\ ~PurgeExecutions
  <2>1. PICK r \in Replicas :
          \/ Receive(r) \/ CrashInReceipt(r) \/ AfterReceipt(r) \/ PrivateAddress(r) \/ FindResponder(r)
          \/ Notify(r) \/ DecideEffects(r) \/ CrashInEffects(r) \/ CallEffect(r)
          \/ CompleteResponse(r) \/ CompleteNotification(r) \/ Rotate(r)
          \/ Reconcile(r) \/ BringEvidence(r) \/ Deny(r) \/ Import(r) \/ Crash(r)
    BY <1>1 DEF Next
  <2> QED
    BY <2>1, ReceiveKeeps, CrashInReceiptKeeps, AfterReceiptKeeps, PrivateAddressKeeps,
       FindResponderKeeps,
       NotifyKeeps, DecideEffectsKeeps, CrashInEffectsKeeps, CallEffectKeeps,
       CompleteResponseKeeps, CompleteNotificationKeeps, RotateKeeps,
       ReconcileKeeps, BringEvidenceKeeps, DenyKeeps, ImportStepKeeps, CrashKeeps
<1>2. CASE UNCHANGED vars
  BY <1>2 DEF vars, mediator, Inv, MediatorInv, ShapeInv, HomeInv, WayInv, EnteredInv, JobsInv,
     ChainInv, Chains, Uncalled, CallsInv, OnceInv, AgreeInv, Own, Entitled
<1> QED BY <1>1, <1>2, PurgeKeeps

(* The invariant holds in every state of the call chains.                  *)
THEOREM EffectsInvariant == Spec => []Inv
<1>1. Init => Inv BY InitInv
<1>2. Inv /\ [Next]_vars => Inv' BY NextInv
<1> QED BY <1>1, <1>2, PTL DEF Spec

(* A call chain is one of a recorded observation and has only outputs of   *)
(* the vault still to call (receipt.ts, effects.ts).                       *)
THEOREM EffectsTypeCorrect == Spec => []TypeOK
<1>1. Inv => TypeOK
  <2> SUFFICES ASSUME Inv PROVE TypeOK
    OBVIOUS
  <2>1. answerers \in Seq(Replicas) /\ standing \in BOOLEAN BY DEF Inv, MediatorInv
  <2>2. ASSUME NEW r \in Replicas, NEW j \in jobs[r] PROVE j.source \in vault[r] /\ j.todo \subseteq vault[r]
    <3>1. j \in Chains(r) BY JobFacts
    <3>2. Observations(vault[r]) \subseteq vault[r] /\ Of(vault[r], "out") \subseteq vault[r] BY OfFacts DEF Observations
    <3> QED BY <3>1, <3>2 DEF Chains
  <2> QED BY <2>1, <2>2 DEF TypeOK
<1> QED BY <1>1, EffectsInvariant, PTL

(* An input is answered once: each operation is called at most once by a   *)
(* replica, by one that observed the input first in its vault, and at most *)
(* once by all that asked under one registration, and no replica           *)
(* contradicts itself in what it admits and acknowledges, whatever         *)
(* crashes, purges, imports and completions by hand come between           *)
(* (receipt.ts settle, effects.ts, responder.ts, admission/model.ts        *)
(* eligibilityOf).                                                         *)
THEOREM AnsweredOnce == Spec => []EarnedOnce
<1>1. Inv => EarnedOnce
  <2> SUFFICES ASSUME Inv PROVE EarnedOnce
    OBVIOUS
  <2>1. CallsEarned
    <3>1. ASSUME NEW c \in calls, NEW d \in calls, c.under = d.under PROVE c.by = d.by
      <4>1. /\ c.by \in Replicas /\ c.source \in Observations(vault[c.by]) /\ c.source.author = c.by
            /\ d.by \in Replicas /\ d.source \in Observations(vault[d.by]) /\ d.source.author = d.by
            /\ Entitled(c.by, c) /\ Entitled(d.by, d)
        BY DEF Inv, CallsInv
      <4>2. c.source.way = d.source.way /\ (c.source.way = "posted" => c.by = d.by)
        BY <4>1 DEF Inv, WayInv
      <4> QED BY <3>1, <4>1, <4>2 DEF Entitled
    <3> QED BY <3>1 DEF Inv, CallsInv, OnceInv, CallsEarned
  <2>2. OwnRecordsAgree
    <3> SUFFICES ASSUME NEW r \in Replicas
                 PROVE  /\ Cardinality({a.source.intent : a \in {b \in Of(vault[r], "admitted") : b.author = r}}) <= 1
                        /\ Number(vault[r], r, "acknowledged") <= 1
      BY DEF OwnRecordsAgree
    <3>1. \A a, b \in Own(r, "admitted") : a.source.intent = b.source.intent BY DEF Inv, AgreeInv
    <3>2. \A a, b \in Own(r, "acknowledged") : a = b BY DEF Inv, AgreeInv
    <3>3. ASSUME NEW S, \A x, y \in S : x = y PROVE Cardinality(S) <= 1
      <4>1. CASE S = {} BY <4>1, FS_EmptySet
      <4>2. CASE S # {}
        <5>1. PICK x \in S : TRUE BY <4>2
        <5>2. S = {x} BY <3>3, <5>1
        <5> QED BY <5>2, FS_Singleton
      <4> QED BY <4>1, <4>2
    <3>4. Cardinality({a.source.intent : a \in Own(r, "admitted")}) <= 1 BY <3>1, <3>3
    <3>5. Cardinality(Own(r, "acknowledged")) <= 1 BY <3>2, <3>3
    <3> QED BY <3>4, <3>5 DEF Own, Number
  <2> QED BY <2>1, <2>2 DEF EarnedOnce
<1> QED BY <1>1, EffectsInvariant, PTL

-----------------------------------------------------------------------------
(* What a step records for an operation.                                   *)
Recording(r) == {x \in vault'[r] \ vault[r] : x.kind \in {"out", "skip"} /\ x.author = r}
Stands(r) ==
  /\ \A op \in Operation : Results(Recording(r), op) # {} => Results(vault[r], op) = {} /\ Cardinality(Results(Recording(r), op)) = 1
  /\ \A x \in Of(Recording(r), "out") : x.rotation # None => Naming(vault[r], x.rotation) = {}

(* A step of r leaves the results of the others as they are.               *)
LEMMA StandsWhen ==
  ASSUME NEW s,
         \A x \in Recording(s) :
           /\ x.source # None => Results(vault[s], x.op) = {} /\ \A y \in Recording(s) : y.op = x.op => y = x
           /\ x.kind = "out" /\ x.rotation # None => Naming(vault[s], x.rotation) = {}
  PROVE  Stands(s)
<1>0. PICK N : N = Recording(s) OBVIOUS
<1>1. ASSUME NEW op \in Operation, Results(N, op) # {}
      PROVE  Results(vault[s], op) = {} /\ Cardinality(Results(N, op)) = 1
  <2>1. \A x : x \in Results(N, op) => x \in N /\ x.op = op /\ x.source # None BY DEF Results, Of
  <2>2. PICK x : x \in Results(N, op) BY <1>1
  <2>3. Results(N, op) = {x} BY <1>0, <2>1, <2>2
  <2> QED BY <1>0, <2>1, <2>2, <2>3, FS_Singleton
<1>2. \A x \in Of(N, "out") : x.rotation # None => Naming(vault[s], x.rotation) = {} BY <1>0, OfFacts
<1> QED BY <1>0, <1>1, <1>2 DEF Stands

(* A step that records no output and no skip of a replica's leaves that    *)
(* replica's results.                                                      *)
LEMMA NothingRecorded ==
  ASSUME NEW s, \A x \in vault'[s] \ vault[s] : x.kind \in {"out", "skip"} => x.author # s
  PROVE  Stands(s)
<1>1. Recording(s) = {} BY DEF Recording
<1> QED BY <1>1, StandsWhen

(* For a step of r alone, only r's own results matter.                     *)
LEMMA OthersStand ==
  ASSUME NEW r \in Replicas, NEW w, VaultTo(r, w), Stands(r)
  PROVE  \A s \in Replicas : Stands(s)
<1> SUFFICES ASSUME NEW s \in Replicas, s # r PROVE Stands(s)
  OBVIOUS
<1>1. vault'[s] = vault[s] BY DEF VaultTo
<1> QED BY <1>1, NothingRecorded

(* A step that adds what is neither output nor skip.                       *)
LEMMA QuietStands ==
  ASSUME NEW r \in Replicas, NEW w, VaultTo(r, w),
         \A x \in w \ vault[r] : x.kind \notin {"out", "skip"}
  PROVE  \A s \in Replicas : Stands(s)
<1>1. Stands(r) BY NothingRecorded DEF VaultTo
<1> QED BY <1>1, OthersStand

(* What is owed is admissions and acknowledgements, no output.             *)
LEMMA OwedQuiet ==
  ASSUME NEW v, IsFiniteSet(v), NEW r
  PROVE  \A x \in RecordOwed(v, r) \ v : x.kind \in {"admitted", "acknowledged"}
<1> DEFINE u == AdmitReceipts(v, r)
<1>1. IsFiniteSet(u) /\ \A x \in u \ v : x.kind = "admitted" BY AdmitFacts
<1> HIDE DEF u
<1>2. \A x \in Acknowledge(u, r) \ u : x.kind = "acknowledged" BY <1>1, AcknowledgeFacts
<1>3. RecordOwed(v, r) = Acknowledge(u, r) BY DEF RecordOwed, u
<1> QED BY <1>1, <1>2, <1>3

(* The results stand under each step: receipts, the steps of a chain, what *)
(* is decided and notified, rotations and imports.                         *)
LEMMA ReceiveStands ==
  ASSUME Inv, NEW r \in Replicas, Receive(r) \/ CrashInReceipt(r)
  PROVE  \A s \in Replicas : Stands(s)
<1>1. CASE Receive(r)
  <2>1. PICK o : /\ o.kind = "in"
                 /\ vault' = [vault EXCEPT ![r] = AdmitReceipts(vault[r] \cup {o}, r)]
    BY <1>1 DEF Receive
  <2>2. PICK v : v = vault[r] \cup {o} OBVIOUS
  <2>3. IsFiniteSet(v) BY <2>2, VaultFinite, FS_AddElement
  <2>4. \A x \in AdmitReceipts(v, r) \ v : x.kind = "admitted" BY <2>3, AdmitFacts
  <2>5. VaultTo(r, AdmitReceipts(v, r)) BY <2>1, <2>2, VaultGoes
  <2>6. \A x \in AdmitReceipts(v, r) \ vault[r] : x.kind \notin {"out", "skip"} BY <2>1, <2>2, <2>4
  <2> QED BY <2>5, <2>6, QuietStands
<1>2. CASE CrashInReceipt(r)
  <2>1. PICK o : /\ o.kind = "in"
                 /\ vault' = [vault EXCEPT ![r] = vault[r] \cup {o}]
    BY <1>2 DEF CrashInReceipt
  <2>2. VaultTo(r, vault[r] \cup {o}) BY <2>1, VaultGoes
  <2> QED BY <2>1, <2>2, QuietStands
<1> QED BY <1>1, <1>2

LEMMA QuietStepsStand ==
  ASSUME Inv, NEW r \in Replicas,
         \/ AfterReceipt(r) \/ PrivateAddress(r) \/ FindResponder(r) \/ CallEffect(r)
         \/ Reconcile(r) \/ BringEvidence(r) \/ Deny(r) \/ Crash(r)
  PROVE  \A s \in Replicas : Stands(s)
<1>1. CASE vault' = vault
  <2>1. VaultTo(r, vault[r]) BY <1>1, VaultStays
  <2> QED BY <2>1, QuietStands
<1>2. CASE vault' = [vault EXCEPT ![r] = RecordOwed(vault[r], r)]
  <2>1. VaultTo(r, RecordOwed(vault[r], r)) BY <1>2, VaultGoes
  <2>2. \A x \in RecordOwed(vault[r], r) \ vault[r] : x.kind \in {"admitted", "acknowledged"} BY VaultFinite, OwedQuiet
  <2> QED BY <2>1, <2>2, QuietStands
<1>3. CASE PrivateAddress(r) /\ vault' # vault
  <2>1. PICK j : vault' = [vault EXCEPT ![r] = @ \cup {Decision(r, j.source)}] BY <1>3 DEF PrivateAddress
  <2>2. PICK d : d = Decision(r, j.source) OBVIOUS
  <2>3. VaultTo(r, vault[r] \cup {d}) BY <2>1, <2>2, VaultGoes
  <2>4. d.kind = "rotation" BY <2>2 DEF Decision
  <2> QED BY <2>3, <2>4, QuietStands
<1>4. CASE BringEvidence(r)
  <2>1. PICK v : v = vault[r] \cup {Evidence} OBVIOUS
  <2>2. VaultTo(r, RecordOwed(v, r)) BY <1>4, <2>1, VaultGoes DEF BringEvidence
  <2>3. Evidence.kind = "evidence" BY DEF Evidence
  <2>4. IsFiniteSet(v) BY <2>1, VaultFinite, FS_AddElement
  <2>5. \A x \in RecordOwed(v, r) \ v : x.kind \in {"admitted", "acknowledged"} BY <2>4, OwedQuiet
  <2>6. \A x \in RecordOwed(v, r) \ vault[r] : x.kind \notin {"out", "skip"} BY <2>1, <2>3, <2>5
  <2> QED BY <2>2, <2>6, QuietStands
<1>5. CASE Deny(r)
  <2>1. VaultTo(r, vault[r] \cup {Denial}) BY <1>5, VaultGoes DEF Deny
  <2>2. Denial.kind = "denied" BY DEF Denial
  <2> QED BY <2>1, <2>2, QuietStands
<1>6. AfterReceipt(r) => vault' = [vault EXCEPT ![r] = RecordOwed(vault[r], r)] \/ vault' = vault
  BY DEF AfterReceipt
<1>7. FindResponder(r) \/ CallEffect(r) \/ Crash(r) => vault' = vault
  BY DEF FindResponder, CallEffect, Crash
<1>8. Reconcile(r) => vault' = [vault EXCEPT ![r] = RecordOwed(vault[r], r)] BY DEF Reconcile
<1> QED BY <1>1, <1>2, <1>3, <1>4, <1>5, <1>6, <1>7, <1>8

(* One result, or one of each effect, for operations without any.          *)
LEMMA ResultsRecorded ==
  ASSUME Inv, NEW r \in Replicas, NEW w, VaultTo(r, w),
         \A x \in w \ vault[r] :
           /\ ~Settled(vault[r], x.op)
           /\ x.kind = "out" => x.rotation = None
           /\ \A y \in w \ vault[r] : y.op = x.op => y = x
  PROVE  \A s \in Replicas : Stands(s)
<1>1. Recording(r) \subseteq w \ vault[r] BY DEF Recording, VaultTo
<1>2. Stands(r) BY <1>1, StandsWhen DEF Settled
<1> QED BY <1>2, OthersStand

LEMMA EffectsStand ==
  ASSUME Inv, NEW r \in Replicas, DecideEffects(r) \/ CrashInEffects(r) \/ CompleteResponse(r)
  PROVE  \A s \in Replicas : Stands(s)
<1>1. CASE DecideEffects(r)
  <2>1. PICK given : \E v \in {vault[r], Decided(vault[r], r, given)} : vault' = [vault EXCEPT ![r] = v]
    BY <1>1 DEF DecideEffects
  <2>2. PICK w \in {vault[r], Decided(vault[r], r, given)} : vault' = [vault EXCEPT ![r] = w] BY <2>1
  <2>3. VaultTo(r, w) BY <2>2, VaultGoes
  <2>4. \A x \in w \ vault[r] : /\ ~Settled(vault[r], x.op)
                                /\ x.kind = "out" => x.rotation = None
                                /\ \A y \in w \ vault[r] : y.op = x.op => y = x
    BY VaultFinite, DecidedFacts
  <2> QED BY <2>3, <2>4, ResultsRecorded
<1>2. CASE CrashInEffects(r)
  <2>1. PICK ack : \E v \in {vault[r], Recorded(vault[r], r, "ack", ack)} : vault' = [vault EXCEPT ![r] = v]
    BY <1>2 DEF CrashInEffects
  <2>2. PICK w \in {vault[r], Recorded(vault[r], r, "ack", ack)} : vault' = [vault EXCEPT ![r] = w] BY <2>1
  <2>3. VaultTo(r, w) BY <2>2, VaultGoes
  <2>4. \A x \in w \ vault[r] : /\ ~Settled(vault[r], x.op)
                                /\ x.kind = "out" => x.rotation = None
                                /\ \A y \in w \ vault[r] : y.op = x.op => y = x
    BY VaultFinite, RecordedFacts
  <2> QED BY <2>3, <2>4, ResultsRecorded
<1>3. CASE CompleteResponse(r)
  <2>1. PICK op, answer : vault' = [vault EXCEPT ![r] = Recorded(vault[r], r, op, answer)]
    BY <1>3 DEF CompleteResponse
  <2>2. PICK w : w = Recorded(vault[r], r, op, answer) OBVIOUS
  <2>3. VaultTo(r, w) BY <2>1, <2>2, VaultGoes
  <2>4. \A x \in w \ vault[r] : /\ ~Settled(vault[r], x.op)
                                /\ x.kind = "out" => x.rotation = None
                                /\ \A y \in w \ vault[r] : y.op = x.op => y = x
    BY <2>2, VaultFinite, RecordedFacts
  <2> QED BY <2>3, <2>4, ResultsRecorded
<1> QED BY <1>1, <1>2, <1>3

LEMMA NotificationsStand ==
  ASSUME Inv, NEW r \in Replicas, Notify(r) \/ CompleteNotification(r)
  PROVE  \A s \in Replicas : Stands(s)
<1>1. PICK d : \E v \in {vault[r], Notified(vault[r], r, d)} : vault' = [vault EXCEPT ![r] = v]
  BY DEF Notify, CompleteNotification
<1>2. PICK w \in {vault[r], Notified(vault[r], r, d)} : vault' = [vault EXCEPT ![r] = w] BY <1>1
<1>3. VaultTo(r, w) BY <1>2, VaultGoes
<1>4. \A x \in w \ vault[r] : /\ x.op = "notify" /\ x.rotation = d /\ x.source = d.source
                              /\ Naming(vault[r], d) = {}
                              /\ d.source # None => ~Settled(vault[r], "notify")
                              /\ \A y \in w \ vault[r] : y = x
  BY VaultFinite, NotifiedFacts
<1>5. Recording(r) \subseteq w \ vault[r] BY <1>3 DEF Recording, VaultTo
<1>6. Stands(r) BY <1>4, <1>5, StandsWhen DEF Settled
<1> QED BY <1>3, <1>6, OthersStand

LEMMA RotateStands ==
  ASSUME Inv, NEW r \in Replicas, Rotate(r)
  PROVE  \A s \in Replicas : Stands(s)
<1>1. PICK d, w : /\ d = Decision(r, None) /\ vault' = [vault EXCEPT ![r] = w]
                  /\ \A x \in w \ vault[r] :
                       \/ x = d
                       \/ x.rotation = d /\ x.source = None /\ Naming(vault[r], d) = {}
  BY RotateFacts
<1>2. d.kind = "rotation" BY <1>1 DEF Decision
<1>3. VaultTo(r, w) BY <1>1, VaultGoes
<1>4. \A x \in Recording(r) : x.rotation = d /\ x.source = None /\ Naming(vault[r], d) = {}
  BY <1>1, <1>2, <1>3 DEF Recording, VaultTo
<1>5. Stands(r) BY <1>4, StandsWhen
<1> QED BY <1>3, <1>5, OthersStand

LEMMA ImportStands ==
  ASSUME Inv, NEW r \in Replicas, Import(r)
  PROVE  \A s \in Replicas : Stands(s)
<1>1. PICK t \in Replicas : vault' = [vault EXCEPT ![r] = vault[r] \cup vault[t]] BY DEF Import
<1>2. PICK w : w = vault[r] \cup vault[t] OBVIOUS
<1>3. VaultTo(r, vault[r] \cup vault[t]) BY <1>1, VaultGoes
<1>4. \A x \in vault'[r] : x.kind \in Authored /\ x.author = r => x \in vault[r] BY <1>3, ImportKeeps
<1>5. Stands(r) BY <1>4, NothingRecorded DEF Authored
<1>6. VaultTo(r, w) BY <1>2, <1>3
<1> QED BY <1>5, <1>6, OthersStand

(* Every step lets results stand.                                          *)
LEMMA NextStands ==
  ASSUME Inv, [Next]_vars
  PROVE  \A s \in Replicas : Stands(s)
<1>1. CASE Next /\ ~PurgeExecutions
  <2>1. PICK r \in Replicas :
          \/ Receive(r) \/ CrashInReceipt(r) \/ AfterReceipt(r) \/ PrivateAddress(r) \/ FindResponder(r)
          \/ Notify(r) \/ DecideEffects(r) \/ CrashInEffects(r) \/ CallEffect(r)
          \/ CompleteResponse(r) \/ CompleteNotification(r) \/ Rotate(r)
          \/ Reconcile(r) \/ BringEvidence(r) \/ Deny(r) \/ Import(r) \/ Crash(r)
    BY <1>1 DEF Next
  <2> QED BY <2>1, ReceiveStands, QuietStepsStand, EffectsStand, NotificationsStand,
     RotateStands, ImportStands
<1>2. CASE UNCHANGED vars
  <2>1. vault' = vault BY <1>2 DEF vars
  <2> QED BY <2>1, NothingRecorded
<1>3. CASE PurgeExecutions
  <2>1. vault' = vault BY <1>3 DEF PurgeExecutions
  <2> QED BY <2>1, NothingRecorded
<1> QED BY <1>1, <1>2, <1>3

(* A result stands: no step of a replica records an output or a skip for   *)
(* an operation its vault already has a result for, nor two at once, nor a *)
(* second notification of a decision (effects.ts settle, rotate.ts         *)
(* settleNotification, send.ts automaticDraft).                            *)
THEOREM ResultsStandForever == Spec => ResultsStand
<1>1. ASSUME Inv, [Next]_vars
      PROVE  \A r \in Replicas : LET own == {x \in vault'[r] \ vault[r] : x.kind \in {"out", "skip"} /\ x.author = r} IN
               /\ \A op \in Operation : Results(own, op) # {} => Results(vault[r], op) = {} /\ Cardinality(Results(own, op)) = 1
               /\ \A x \in Of(own, "out") : x.rotation # None => Naming(vault[r], x.rotation) = {}
  <2>1. \A s \in Replicas : Stands(s) BY <1>1, NextStands
  <2> QED BY <2>1 DEF Stands, Recording
<1> QED BY <1>1, EffectsInvariant, PTL DEF Spec, ResultsStand
=============================================================================
