----------------------- MODULE InboundReceiverProofs -----------------------
(***************************************************************************)
(* Proofs about InboundReceiver, for every number of deliveries, tellers   *)
(* and faults and every limit: nothing addressed to the vault is dropped,  *)
(* no wait is left on a fold that has changed, and what the receiver keeps *)
(* is accounted for.                                                       *)
(***************************************************************************)
EXTENDS InboundReceiver, FiniteSums

Runs(a) == actor[a].pc \in Running

\* A delivery has one turn: attempts at it are serial.
Turns ==
    /\ \A a \in Actors : Runs(a) => actor[a].key \in Deliveries
    /\ \A a, b \in Actors : Runs(a) /\ Runs(b) /\ actor[a].key = actor[b].key => a = b
    /\ Runs("pickup") => actor["pickup"].key \in Pickups

\* What the mediator was or will be told of, ended.
Traced ==
    /\ NothingDropped
    /\ acking \subseteq recorded \cup discarded
    /\ Range(ended) \subseteq recorded \cup discarded
    /\ \A a \in Actors : actor[a].pc = "ack" => actor[a].key \in recorded \cup discarded

\* What is kept of a delivery while an attempt at it is under way: not both
\* an end and a wait, and nothing by a receiver that was closed.
Exclusive ==
    /\ \A a \in Actors : Runs(a) /\ actor[a].shut => actor[a].key \notin DOMAIN waits /\ actor[a].todo = {}
    /\ \A a \in Actors : actor[a].shut => Runs(a)
    /\ \A a \in Actors : actor[a].pc = "ack" => actor[a].key \notin DOMAIN waits
    /\ \A a \in Actors :
          Runs(a) /\ ~actor[a].shut /\ actor[a].pc # "ack" => actor[a].key \notin Range(ended)
    /\ \A t \in Tellers : actor[t].todo \subseteq DOMAIN waits

\* Each ended delivery is remembered once, and what waits can be counted.
Countable ==
    /\ IsFiniteSet(DOMAIN waits)
    /\ \A i, j \in 1..Len(ended) : ended[i] = ended[j] => i = j

\* The fold an attempt judged by is the vault's, or a change of it is still
\* to be told of or was told of meanwhile.
FoldsFresh ==
    \A a \in Actors :
        actor[a].pc \in {"ring", "key", "receipt", "defer"} =>
            /\ actor[a].fold \in [Recipients -> Standing]
            /\ \/ actor[a].stirred
               \/ untold
               \/ actor[a].fold[RecipientOf[actor[a].key]] = standing[RecipientOf[actor[a].key]]

\* Teller t will see a change there has been of the fold d waits on.
Will(t, d) ==
    /\ d \in actor[t].todo
    /\ actor[t].read = None \/ actor[t].read[RecipientOf[d]] = standing[RecipientOf[d]]

\* Every wait on a fold that has changed has someone to wake it.
Wakes ==
    \A d \in DOMAIN waits :
        \/ waits[d].retry
        \/ waits[d].seen = standing[RecipientOf[d]]
        \/ untold
        \/ ~TurnFree(d)
        \/ \E t \in Tellers : Will(t, d)

ReceiverInv ==
    TypeOK /\ Turns /\ Traced /\ Exclusive /\ Countable /\ KeptAccounted /\ FoldsFresh /\ Wakes

-----------------------------------------------------------------------------
(* What an actor does on leaving its delivery.                             *)
LEMMA StandingSet == Standing = {"unknown", "waiting", "eligible", "unrouted", "conflict"}
<1>1. DOMAIN Standings = 1..5
  BY DEF Standings
<1>2. 1..5 = {1, 2, 3, 4, 5}
  OBVIOUS
<1> QED
  BY <1>1, <1>2 DEF Standing, Standings, Range

LEMMA ActorFacts ==
    ASSUME TypeOK, NEW a \in Actors
    PROVE  /\ actor[a] \in ActorType
           /\ DOMAIN actor[a] = {"pc", "key", "fold", "stirred", "shut", "todo", "read"}
           /\ DOMAIN actor = Actors
           /\ Idle \in ActorType
BY DEF TypeOK, ActorType, Idle

\* a is done with its delivery, and the waits in D are gone or replaced.
Left(a, D) ==
    /\ actor' \in [Actors -> ActorType]
    /\ \A b \in Actors \ {a} : actor'[b] = [actor[b] EXCEPT !.todo = @ \ D]
    /\ actor'[a] = IF a \in Tellers /\ ~actor[a].shut
                   THEN [Idle EXCEPT !.pc = "compare", !.todo = actor[a].todo \ D, !.read = actor[a].read]
                   ELSE Idle

LEMMA UnseenFacts ==
    ASSUME TypeOK, NEW d
    PROVE  /\ Unseen(d) \in [Actors -> ActorType]
           /\ \A b \in Actors : Unseen(d)[b] = [actor[b] EXCEPT !.todo = @ \ {d}]
BY ActorFacts DEF Unseen, TypeOK, ActorType

LEMMA DoneFacts ==
    ASSUME TypeOK, NEW a \in Actors
    PROVE  /\ actor' = Done(actor, a) => Left(a, {})
           /\ \A d : actor' = Done(Unseen(d), a) => Left(a, {d})
<1>t. a \in Tellers /\ ~actor[a].shut =>
        \A D : [Idle EXCEPT !.pc = "compare", !.todo = actor[a].todo \ D, !.read = actor[a].read] \in ActorType
  BY ActorFacts DEF ActorType, Idle
<1>1. ASSUME actor' = Done(actor, a) PROVE Left(a, {})
  <2>1. \A b \in Actors : [actor[b] EXCEPT !.todo = @ \ {}] = actor[b]
    BY ActorFacts DEF ActorType
  <2>2. actor[a].todo \ {} = actor[a].todo
    OBVIOUS
  <2>3. actor \in [Actors -> ActorType]
    BY DEF TypeOK
  <2> QED
    BY <1>1, <1>t, <2>1, <2>2, <2>3, ActorFacts DEF Done, Left
<1>2. ASSUME NEW d, actor' = Done(Unseen(d), a) PROVE Left(a, {d})
  <2>1. Unseen(d) \in [Actors -> ActorType]
        /\ \A b \in Actors : Unseen(d)[b] = [actor[b] EXCEPT !.todo = @ \ {d}]
    BY UnseenFacts
  <2>2. Unseen(d)[a].todo = actor[a].todo \ {d} /\ Unseen(d)[a].shut = actor[a].shut
        /\ Unseen(d)[a].read = actor[a].read
    BY <2>1, ActorFacts
  <2> QED
    BY <1>2, <1>t, <2>1, <2>2, ActorFacts DEF Done, Left
<1> QED
  BY <1>1, <1>2

\* a has ended its delivery and goes on to tell the mediator.
Acks(a, d) ==
    /\ a \in Tellers /\ d \in Pickups
    /\ actor' \in [Actors -> ActorType]
    /\ \A b \in Actors \ {a} : actor'[b] = [actor[b] EXCEPT !.todo = @ \ {d}]
    /\ actor'[a] = [actor[a] EXCEPT !.pc = "ack", !.todo = @ \ {d}]

\* The two ways an attempt ends: under a receiver that was closed, or not.
EndedShut(a) == actor[a].shut /\ Left(a, {}) /\ UNCHANGED <<kept, ended, acking>>

EndedOpen(a, d) ==
    /\ ~actor[a].shut
    /\ LetGo(d)
    /\ Remember(d)
    /\ acking' = IF a = "pickup" THEN acking \cup {d} ELSE acking
    /\ Left(a, {d}) \/ Acks(a, d)

LEMMA EndFacts ==
    ASSUME TypeOK, NEW a \in Actors, End(a)
    PROVE  EndedShut(a) \/ EndedOpen(a, actor[a].key)
<1>1. CASE actor[a].shut
  BY <1>1, DoneFacts DEF End, EndedShut
<1>2. CASE ~actor[a].shut
  <2> DEFINE d == actor[a].key
  <2>1. CASE a \in Tellers /\ d \in Pickups
    <3>1. actor' = [Unseen(d) EXCEPT ![a].pc = "ack"]
      BY <1>2, <2>1 DEF End
    <3>2. Unseen(d) \in [Actors -> ActorType]
          /\ \A b \in Actors : Unseen(d)[b] = [actor[b] EXCEPT !.todo = @ \ {d}]
      BY UnseenFacts
    <3>3. "ack" \in Running
      BY DEF Running
    <3>4. Acks(a, d)
      <4>1. actor'[a] = [Unseen(d)[a] EXCEPT !.pc = "ack"]
        BY <3>1, <3>2
      <4>2. \A b \in Actors \ {a} : actor'[b] = Unseen(d)[b]
        BY <3>1, <3>2
      <4>3. actor'[a] = [actor[a] EXCEPT !.pc = "ack", !.todo = @ \ {d}]
        BY <4>1, <3>2, ActorFacts
      <4>4. actor'[a] \in ActorType
        BY <4>1, <3>2, <3>3 DEF ActorType
      <4>5. actor' \in [Actors -> ActorType]
        BY <3>1, <3>2, <4>2, <4>4
      <4> QED
        BY <2>1, <3>2, <4>2, <4>3, <4>5 DEF Acks
    <3> QED
      BY <1>2, <3>4 DEF End, EndedOpen
  <2>2. CASE ~(a \in Tellers /\ d \in Pickups)
    BY <1>2, <2>2, DoneFacts DEF End, EndedOpen
  <2> QED
    BY <2>1, <2>2
<1> QED
  BY <1>1, <1>2

\* The two ways an attempt leaves its delivery to come again.
LeftShut(a) == actor[a].shut /\ Left(a, {}) /\ UNCHANGED kept

LeftOpen(a, d) == ~actor[a].shut /\ LetGo(d) /\ Left(a, {d})

LEMMA LeaveFacts ==
    ASSUME TypeOK, NEW a \in Actors, Leave(a)
    PROVE  LeftShut(a) \/ LeftOpen(a, actor[a].key)
BY DoneFacts DEF Leave, LeftShut, LeftOpen

-----------------------------------------------------------------------------
(* The memory of ended deliveries.                                         *)
LEMMA SeqRange ==
    ASSUME NEW S, NEW q \in Seq(S)
    PROVE  Len(q) \in Nat /\ Range(q) = {q[i] : i \in 1..Len(q)}
<1>1. DOMAIN q = 1..Len(q)
  OBVIOUS
<1>2. Len(q) \in Nat
  OBVIOUS
<1>3. Range(q) = {q[i] : i \in DOMAIN q}
  BY Zenon DEF Range
<1>4. Range(q) = {q[i] : i \in 1..Len(q)}
  BY <1>1, <1>3, Zenon
<1> QED
  BY <1>2, <1>4

\* r is a list of n different things, s, with the kth left out.
Differ(s, n) == \A i, j \in 1..n : s[i] = s[j] => i = j

Listed(s, n) == {s[i] : i \in 1..n}

SkipsOver(r, s, n, k) == \A i \in 1..n - 1 : r[i] = IF i < k THEN s[i] ELSE s[i + 1]

LEMMA LeftOut ==
    ASSUME NEW n \in Nat, NEW s, NEW r, NEW k \in 1..n, Differ(s, n), SkipsOver(r, s, n, k)
    PROVE  Differ(r, n - 1) /\ Listed(r, n - 1) = Listed(s, n) \ {s[k]}
<1> USE DEF Differ, Listed, SkipsOver
<1>1. \A i, j \in 1..n - 1 : r[i] = r[j] => i = j
  OBVIOUS
<1>2. \A i \in 1..n - 1 : r[i] \in {s[j] : j \in 1..n} \ {s[k]}
  OBVIOUS
<1>3. ASSUME NEW j \in 1..n, s[j] # s[k] PROVE \E i \in 1..n - 1 : r[i] = s[j]
  <2>1. CASE j < k
    <3>1. j \in 1..n - 1 /\ r[j] = s[j]
      BY <2>1
    <3> QED
      BY <3>1
  <2>2. CASE k < j
    <3>1. j - 1 \in 1..n - 1 /\ r[j - 1] = s[(j - 1) + 1] /\ (j - 1) + 1 = j
      BY <2>2
    <3> QED
      BY <3>1
  <2> QED
    BY <1>3, <2>1, <2>2
<1> QED
  BY <1>1, <1>2, <1>3

LEMMA RemoveFirstFacts ==
    ASSUME NEW S, NEW s \in Seq(S), NEW e
    PROVE  /\ RemoveFirst(s, e) \in Seq(S)
           /\ e \notin Range(s) => RemoveFirst(s, e) = s
           /\ e \in Range(s) =>
                \E k \in 1..Len(s) :
                   /\ s[k] = e
                   /\ Len(RemoveFirst(s, e)) = Len(s) - 1
                   /\ \A i \in 1..Len(s) - 1 :
                         RemoveFirst(s, e)[i] = IF i < k THEN s[i] ELSE s[i + 1]
<1> DEFINE I == {i \in 1..Len(s) : s[i] = e}
<1>0. Range(s) = {s[i] : i \in 1..Len(s)} /\ Len(s) \in Nat
  BY SeqRange
<1>1. CASE I = {}
  <2>1. ~\E i \in 1..Len(s) : s[i] = e
    BY <1>1
  <2>2. RemoveFirst(s, e) = s
    BY <2>1 DEF RemoveFirst
  <2> QED
    BY <1>0, <2>1, <2>2
<1>2. CASE I # {}
  <2> DEFINE k == CHOOSE x \in I : \A y \in I : x <= y
  <2>1. k \in I
    <3>1. I \in SUBSET Nat
      OBVIOUS
    <3>2. \E m \in I : \A y \in I : m <= y
      <4> HIDE DEF I
      <4> QED
        BY <1>2, <3>1, LeastNatural
    <3> HIDE DEF I
    <3> QED
      BY <3>2
  <2>2. RemoveFirst(s, e) = SubSeq(s, 1, k - 1) \o SubSeq(s, k + 1, Len(s))
    BY <1>2 DEF RemoveFirst, RemoveAt, SelectInSeq, Min
  <2> HIDE DEF k
  <2>3. k \in 1..Len(s) /\ s[k] = e
    BY <2>1
  <2> DEFINE u == SubSeq(s, 1, k - 1)
             v == SubSeq(s, k + 1, Len(s))
  <2>4. u \in Seq(S) /\ Len(u) = k - 1 /\ \A i \in 1..k - 1 : u[i] = s[i]
    BY <1>0, <2>3
  <2>5. v \in Seq(S) /\ Len(v) = Len(s) - k /\ \A i \in 1..Len(s) - k : v[i] = s[i + k]
    <3>1. k \in Nat /\ 1 <= k /\ k <= Len(s)
      BY <1>0, <2>3
    <3>2. \A i \in (k + 1)..Len(s) : s[i] \in S
      BY <1>0, <3>1
    <3>3. v = [i \in 1..Len(s) - k |-> s[i + k]]
      BY <1>0, <3>1
    <3>4. \A i \in 1..Len(s) - k : i + k \in 1..Len(s)
      BY <1>0, <3>1
    <3> HIDE DEF v
    <3>5. v \in [1..Len(s) - k -> S]
      BY <3>3, <3>4, <1>0
    <3>6. Len(s) - k \in Nat
      BY <1>0, <3>1
    <3> QED
      BY <3>3, <3>5, <3>6
  <2> HIDE DEF u, v
  <2>k. Len(s) \in Nat /\ k \in Nat /\ 1 <= k /\ k <= Len(s)
    BY <1>0, <2>3
  <2>6. u \o v \in Seq(S) /\ Len(u \o v) = Len(s) - 1
    <3>0. u \in Seq(S) /\ v \in Seq(S)
      BY <2>4, <2>5
    <3>1. u \o v \in Seq(S)
      BY <3>0
    <3>2. Len(u \o v) = Len(u) + Len(v)
      BY <3>0
    <3> QED
      BY <2>k, <2>4, <2>5, <3>1, <3>2
  <2>7. ASSUME NEW i \in 1..Len(s) - 1 PROVE (u \o v)[i] = IF i < k THEN s[i] ELSE s[i + 1]
    <3>1. CASE i < k
      <4>1. i \in 1..Len(u)
        BY <2>k, <2>4, <3>1
      <4> QED
        BY <2>4, <2>5, <3>1, <4>1
    <3>2. CASE ~(i < k)
      <4>1. i \in (Len(u) + 1)..(Len(u) + Len(v)) /\ i - Len(u) \in 1..Len(s) - k /\ (i - Len(u)) + k = i + 1
        BY <2>k, <2>4, <2>5, <3>2
      <4>2. (u \o v)[i] = v[i - Len(u)]
        BY <2>4, <2>5, <4>1
      <4> QED
        BY <2>5, <3>2, <4>1, <4>2
    <3> QED
      BY <3>1, <3>2
  <2>8. RemoveFirst(s, e) = u \o v
    BY <2>2 DEF u, v
  <2> QED
    BY <1>0, <2>3, <2>6, <2>7, <2>8
<1> QED
  BY <1>1, <1>2

Distinct(s) == \A i, j \in 1..Len(s) : s[i] = s[j] => i = j

LEMMA ForgottenFacts ==
    ASSUME NEW S, NEW s \in Seq(S), NEW e, Distinct(s)
    PROVE  LET r == RemoveFirst(s, e)
           IN  /\ r \in Seq(S) /\ Distinct(r) /\ Len(r) <= Len(s)
               /\ Range(r) = Range(s) \ {e}
<1> DEFINE r == RemoveFirst(s, e)
<1>0. Range(s) = {s[i] : i \in 1..Len(s)} /\ Len(s) \in Nat /\ r \in Seq(S)
  BY RemoveFirstFacts, SeqRange
<1>1. CASE e \notin Range(s)
  BY <1>1, <1>0, RemoveFirstFacts
<1>2. CASE e \in Range(s)
  <2>1. PICK k \in 1..Len(s) : /\ s[k] = e
                              /\ Len(r) = Len(s) - 1
                              /\ \A i \in 1..Len(s) - 1 : r[i] = IF i < k THEN s[i] ELSE s[i + 1]
    BY <1>2, RemoveFirstFacts
  <2>2. Len(s) \in Nat /\ \A i, j \in 1..Len(s) : s[i] = s[j] => i = j
    BY <1>0 DEF Distinct
  <2> HIDE DEF r
  <2>3. /\ \A i, j \in 1..Len(s) - 1 : r[i] = r[j] => i = j
        /\ {r[i] : i \in 1..Len(s) - 1} = {s[i] : i \in 1..Len(s)} \ {s[k]}
    <3>1. Len(s) \in Nat /\ k \in 1..Len(s) /\ Differ(s, Len(s)) /\ SkipsOver(r, s, Len(s), k)
      BY <2>1, <2>2 DEF Differ, SkipsOver
    <3>2. Differ(r, Len(s) - 1) /\ Listed(r, Len(s) - 1) = Listed(s, Len(s)) \ {s[k]}
      BY <3>1, LeftOut
    <3> QED
      BY <3>2 DEF Differ, Listed
  <2>4. Distinct(r)
    BY <2>1, <2>3 DEF Distinct
  <2>5. Range(r) = {r[i] : i \in 1..Len(r)}
    BY <1>0, SeqRange
  <2>6. Range(r) = Range(s) \ {e}
    BY <1>0, <2>1, <2>3, <2>5, Zenon
  <2> QED
    BY <1>0, <2>1, <2>2, <2>4, <2>6 DEF r
<1> QED
  BY <1>1, <1>2

LEMMA RememberFacts ==
    ASSUME TypeOK, Countable, Len(ended) <= EndedKept, NEW d \in Deliveries, Remember(d)
    PROVE  /\ ended' \in Seq(Deliveries)
           /\ Distinct(ended')
           /\ Len(ended') <= EndedKept
           /\ Range(ended') \subseteq Range(ended) \cup {d}
<1> DEFINE r == RemoveFirst(ended, d)
           s == Append(r, d)
<1>1. r \in Seq(Deliveries) /\ Distinct(r) /\ Len(r) <= Len(ended) /\ Range(r) = Range(ended) \ {d}
  BY ForgottenFacts DEF TypeOK, Countable, Distinct
<1>e. EndedKept \in Nat /\ Len(ended) \in Nat
  BY ReceiverAssumption DEF TypeOK
<1> HIDE DEF r
<1>2. s \in Seq(Deliveries) /\ Len(s) = Len(r) + 1 /\ Len(r) \in Nat
      /\ \A i \in 1..Len(s) : s[i] = IF i = Len(s) THEN d ELSE r[i]
  BY <1>1
<1>3. Range(s) = {s[i] : i \in 1..Len(s)} /\ Range(r) = {r[i] : i \in 1..Len(r)}
  BY <1>1, <1>2 DEF Range
<1> HIDE DEF s
<1>4. Distinct(s)
  <2>1. \A i \in 1..Len(r) : r[i] # d
    BY <1>1, <1>3
  <2> QED
    BY <1>1, <1>2, <2>1 DEF Distinct
<1>5. Range(s) \subseteq Range(ended) \cup {d}
  <2>1. \A i \in 1..Len(s) : s[i] \in Range(ended) \cup {d}
    BY <1>1, <1>2, <1>3
  <2> QED
    BY <1>3, <2>1
<1>6. CASE ended' = s /\ Len(s) <= EndedKept
  BY <1>2, <1>4, <1>5, <1>6
<1>7. CASE ended' = Tail(s)
  <2>1. Tail(s) \in Seq(Deliveries) /\ Len(Tail(s)) = Len(s) - 1
        /\ \A i \in 1..Len(s) - 1 : Tail(s)[i] = s[i + 1]
    BY <1>2
  <2>2. Distinct(Tail(s))
    BY <1>2, <1>4, <2>1 DEF Distinct
  <2>3. Range(Tail(s)) \subseteq Range(s)
    <3> DEFINE u == Tail(s)
    <3> HIDE DEF u
    <3>1. Range(u) = {u[i] : i \in 1..Len(u)}
      BY <2>1, SeqRange DEF u
    <3>2. \A i \in 1..Len(u) : u[i] \in Range(s)
      BY <1>2, <1>3, <2>1 DEF u
    <3>3. Range(u) \subseteq Range(s)
      BY <3>1, <3>2
    <3> QED
      BY <3>3 DEF u
  <2> QED
    BY <1>1, <1>2, <1>5, <1>7, <1>e, <2>1, <2>2, <2>3
<1> QED
  BY <1>2, <1>6, <1>7, <1>e DEF Remember, s, r

-----------------------------------------------------------------------------
(* Types.                                                                  *)
LEMMA KeptType ==
    ASSUME TypeOK, Exclusive, Countable, KeptAccounted, NEW d \in Deliveries
    PROVE  /\ LetGo(d) \/ UNCHANGED kept
                => /\ DOMAIN waits' \subseteq Deliveries
                   /\ \A k \in DOMAIN waits' : waits'[k] \in [seen : Standing, retry : BOOLEAN]
                   /\ held' \subseteq Deliveries
                   /\ heldBytes' \in Nat
           /\ Hold(d) => held' \subseteq Deliveries /\ heldBytes' \in Nat
<1>1. SizeOf[d] \in Nat /\ heldBytes \in Nat
  BY ReceiverAssumption DEF TypeOK
<1>2. d \in held => heldBytes - SizeOf[d] \in Nat
  <2>1. IsFiniteSet(held)
    BY FS_Subset DEF Countable, KeptAccounted
  <2>2. \A x \in held : SizeOf[x] \in Nat
    BY ReceiverAssumption DEF TypeOK
  <2>3. d \in held => heldBytes = SizeOf[d] + SumFunctionOnSet(SizeOf, held \ {d})
    BY <2>1, <2>2, SumRemove DEF KeptAccounted
  <2>4. SumFunctionOnSet(SizeOf, held \ {d}) \in Nat
    BY <2>1, <2>2, SumType, FS_Subset
  <2> QED
    BY <1>1, <2>3, <2>4
<1>3. CASE LetGo(d)
  BY <1>1, <1>2, <1>3 DEF LetGo, Restrict, TypeOK, Hold
<1>4. CASE UNCHANGED kept
  BY <1>4 DEF kept, TypeOK, Hold
<1>5. Hold(d) => held' \subseteq Deliveries /\ heldBytes' \in Nat
  BY <1>1 DEF Hold, TypeOK
<1> QED
  BY <1>3, <1>4, <1>5

LEMMA ReceiverTypeStep == ReceiverInv /\ Next => TypeOK'
<1> SUFFICES ASSUME ReceiverInv, Next PROVE TypeOK'
  OBVIOUS
<1>i. TypeOK /\ Turns /\ Exclusive /\ Countable /\ KeptAccounted /\ FoldsFresh
  BY DEF ReceiverInv
<1>r. \A d \in Deliveries : RecipientOf[d] \in Recipients /\ (d \in Pickups \/ d \in Posts)
  BY ReceiverAssumption DEF Deliveries
<1>v. \A f \in [Recipients -> Standing] : Verified(f) \subseteq Recipients
  BY DEF Verified
<1>f. faults \in Nat /\ MaxFaults \in Nat /\ (faults < MaxFaults => faults + 1 \in 0..MaxFaults)
  <2>1. MaxFaults \in Nat
    BY ReceiverAssumption
  <2>2. faults \in 0..MaxFaults
    BY <1>i DEF TypeOK
  <2> QED
    BY <2>1, <2>2
<1>a. \A a \in Actors : actor[a] \in ActorType
  BY <1>i, ActorFacts
<1>e. \A d : RemoveFirst(ended, d) \in Seq(Deliveries)
  BY <1>i, RemoveFirstFacts DEF TypeOK
<1>c. Len(ended) <= EndedKept
  BY <1>i DEF KeptAccounted
<1>n. \A a \in Actors : \A D :
         Left(a, D) \/ Acks(a, D) => actor' \in [Actors -> ActorType]
  BY DEF Left, Acks
<1>g. \A a \in Actors, pc \in Running : Goes(a, pc) => actor' \in [Actors -> ActorType]
  BY <1>i, <1>a DEF Goes, TypeOK, ActorType
<1>u. \A d : Unseen(d) \in [Actors -> ActorType]
  BY <1>i, UnseenFacts
<1>s. \A d \in Deliveries, a \in Actors :
         actor' = [actor EXCEPT ![a] = [Idle EXCEPT !.pc = "scan", !.key = d]] => actor' \in [Actors -> ActorType]
  <2>1. \A d \in Deliveries : [Idle EXCEPT !.pc = "scan", !.key = d] \in ActorType
    BY DEF ActorType, Idle, Running
  <2> QED
    BY <1>i, <2>1 DEF TypeOK
\* What every case below has to show, and what an end or a leaving of an
\* attempt gives of it.
<1> DEFINE K == /\ DOMAIN waits' \subseteq Deliveries
                /\ \A d \in DOMAIN waits' : waits'[d] \in [seen : Standing, retry : BOOLEAN]
                /\ held' \subseteq Deliveries
                /\ heldBytes' \in Nat
<1>k. UNCHANGED kept => K
  BY <1>i DEF kept, TypeOK
<1>l. \A d \in Deliveries : LetGo(d) => K
  BY <1>i, KeptType
<1>x. \A a \in Actors : End(a) /\ Runs(a) =>
         /\ actor' \in [Actors -> ActorType] /\ K
         /\ acking' \subseteq Pickups /\ ended' \in Seq(Deliveries)
  <2> SUFFICES ASSUME NEW a \in Actors, End(a), Runs(a)
               PROVE  /\ actor' \in [Actors -> ActorType] /\ K
                      /\ acking' \subseteq Pickups /\ ended' \in Seq(Deliveries)
    OBVIOUS
  <2>1. CASE EndedShut(a)
    BY <1>i, <1>k, <1>n, <2>1 DEF EndedShut, TypeOK
  <2>2. CASE EndedOpen(a, actor[a].key)
    <3>1. actor[a].key \in Deliveries /\ (a = "pickup" => actor[a].key \in Pickups)
      BY <1>i DEF Turns
    <3>2. ended' \in Seq(Deliveries)
      BY <1>c, <1>i, <2>2, <3>1, RememberFacts DEF EndedOpen
    <3>3. acking' \subseteq Pickups
      BY <1>i, <2>2, <3>1 DEF EndedOpen, TypeOK
    <3> QED
      BY <1>l, <1>n, <2>2, <3>1, <3>2, <3>3 DEF EndedOpen
  <2> QED
    BY <1>i, <2>1, <2>2, EndFacts
<1>y. \A a \in Actors : Leave(a) /\ Runs(a) => actor' \in [Actors -> ActorType] /\ K
  <2> SUFFICES ASSUME NEW a \in Actors, Leave(a), Runs(a) PROVE actor' \in [Actors -> ActorType] /\ K
    OBVIOUS
  <2>1. actor[a].key \in Deliveries
    BY <1>i DEF Turns
  <2> QED
    BY <1>i, <1>k, <1>l, <1>n, <2>1, LeaveFacts DEF LeftShut, LeftOpen
<1> USE DEF mediator, vault
<1>1. ASSUME NEW a \in Actors, ShutOut(a) PROVE TypeOK'
  BY <1>1, <1>i, <1>k, <1>n, DoneFacts DEF ShutOut, TypeOK
<1>2. ASSUME NEW a \in Actors, Scan(a) PROVE TypeOK'
  <2>r. Runs(a)
    BY <1>2 DEF Scan, At, Runs, Running
  <2>1. CASE End(a) /\ discarded' = discarded \cup {actor[a].key}
    <3>1. actor[a].key \in Deliveries
      BY <1>i, <2>r DEF Turns
    <3> QED
      BY <1>2, <1>i, <1>x, <2>1, <2>r, <3>1 DEF Scan, TypeOK
  <2>2. ASSUME NEW pc \in Running, actor' = [actor EXCEPT ![a].fold = standing, ![a].pc = pc],
               UNCHANGED <<acking, kept, ended, discarded>>
        PROVE  TypeOK'
    <3>1. actor' \in [Actors -> ActorType]
      <4>1. [actor[a] EXCEPT !.fold = standing, !.pc = pc] \in ActorType
        BY <1>i, <1>a DEF TypeOK, ActorType
      <4> QED
        BY <1>i, <2>2, <4>1 DEF TypeOK
    <3> QED
      BY <1>2, <1>i, <1>k, <2>2, <3>1 DEF Scan, TypeOK
  <2> QED
    BY <1>2, <2>1, <2>2 DEF Scan, Running
<1>3. ASSUME NEW a \in Actors, ScanFails(a) PROVE TypeOK'
  <2>1. Runs(a)
    BY <1>3 DEF ScanFails, At, Runs, Running
  <2> QED
    BY <1>3, <1>f, <1>i, <1>y, <2>1 DEF ScanFails, Fault, TypeOK
<1>4. ASSUME NEW a \in Actors, Reload(a) PROVE TypeOK'
  <2>1. actor[a].fold \in [Recipients -> Standing]
    BY <1>4, <1>i, <1>a DEF Reload, At, FoldsFresh, ActorType
  <2> QED
    BY <1>4, <1>g, <1>i, <1>k, <1>v, <2>1 DEF Reload, Running, TypeOK
<1>5. ASSUME NEW a \in Actors, Opens(a) PROVE TypeOK'
  <2>r. Runs(a)
    BY <1>5 DEF Opens, At, Runs, Running
  <2>1. CASE End(a) /\ discarded' = discarded \cup {actor[a].key}
    <3>1. actor[a].key \in Deliveries
      BY <1>i, <2>r DEF Turns
    <3> QED
      BY <1>5, <1>i, <1>x, <2>1, <2>r, <3>1 DEF Opens, TypeOK
  <2>2. CASE (Goes(a, "defer") \/ Goes(a, "receipt")) /\ UNCHANGED <<acking, kept, ended, discarded>>
    BY <1>5, <1>g, <1>i, <1>k, <2>2 DEF Opens, Running, TypeOK
  <2> QED
    BY <1>5, <2>1, <2>2 DEF Opens
<1>6. ASSUME NEW a \in Actors, Receipt(a) PROVE TypeOK'
  <2>r. Runs(a)
    BY <1>6 DEF Receipt, Runs, Running
  <2>d. actor[a].key \in Deliveries
    BY <1>i, <2>r DEF Turns
  <2>1. CASE End(a) /\ UNCHANGED discarded /\ recorded' = recorded \cup {actor[a].key}
    BY <1>6, <1>i, <1>x, <2>1, <2>r, <2>d DEF Receipt, TypeOK
  <2>2. CASE End(a) /\ UNCHANGED recorded /\ discarded' = discarded \cup {actor[a].key}
    BY <1>6, <1>i, <1>x, <2>2, <2>r, <2>d DEF Receipt, TypeOK
  <2>3. CASE Goes(a, "defer") /\ UNCHANGED <<acking, recorded, discarded, kept, ended>>
    BY <1>6, <1>g, <1>i, <1>k, <2>3 DEF Receipt, Running, TypeOK
  <2> QED
    BY <1>6, <2>1, <2>2, <2>3 DEF Receipt
<1>7. ASSUME NEW a \in Actors, ReceiptFails(a) PROVE TypeOK'
  <2>1. Runs(a)
    BY <1>7 DEF ReceiptFails, Runs, Running
  <2> QED
    BY <1>7, <1>f, <1>i, <1>y, <2>1 DEF ReceiptFails, Fault, TypeOK
<1>8. ASSUME NEW a \in Actors, DeferLooks(a) PROVE TypeOK'
  <2>r. Runs(a)
    BY <1>8 DEF DeferLooks, At, Runs, Running
  <2>1. CASE Fault /\ Leave(a)
    BY <1>8, <1>f, <1>i, <1>y, <2>1, <2>r DEF DeferLooks, Fault, TypeOK
  <2>2. ASSUME NEW pc \in Running, actor' = [actor EXCEPT ![a].stirred = FALSE, ![a].pc = pc],
               UNCHANGED <<kept, faults>>
        PROVE  TypeOK'
    <3>1. actor' \in [Actors -> ActorType]
      <4>1. [actor[a] EXCEPT !.stirred = FALSE, !.pc = pc] \in ActorType
        BY <1>a DEF ActorType
      <4> QED
        BY <1>i, <2>2, <4>1 DEF TypeOK
    <3> QED
      BY <1>8, <1>i, <1>k, <2>2, <3>1 DEF DeferLooks, TypeOK
  <2> QED
    BY <1>8, <2>1, <2>2, <2>r DEF DeferLooks, Runs, Running
<1>9. ASSUME NEW a \in Actors, Defer(a) PROVE TypeOK'
  <2> DEFINE d == actor[a].key
  <2>r. Runs(a)
    BY <1>9 DEF Defer, At, Runs, Running
  <2>d. d \in Deliveries /\ RecipientOf[d] \in Recipients
    BY <1>i, <1>r, <2>r DEF Turns
  <2>f. actor[a].fold \in [Recipients -> Standing]
    BY <1>9, <1>i, <1>a DEF Defer, At, FoldsFresh, ActorType
  <2>1. CASE Leave(a)
    BY <1>9, <1>i, <1>y, <2>1, <2>r DEF Defer, TypeOK
  <2>2. CASE /\ waits' = [k \in DOMAIN waits \cup {d} |->
                            IF k = d THEN [seen |-> actor[a].fold[RecipientOf[d]], retry |-> FALSE]
                            ELSE waits[k]]
             /\ Hold(d) /\ actor' = Done(Unseen(d), a)
    <3>1. K
      BY <1>i, <2>2, <2>d, <2>f, KeptType DEF TypeOK
    <3>2. actor' \in [Actors -> ActorType]
      BY <1>i, <1>n, <2>2, DoneFacts
    <3> QED
      BY <1>9, <1>i, <3>1, <3>2 DEF Defer, TypeOK
  <2> QED
    BY <1>9, <2>1, <2>2 DEF Defer
<1>10. ASSUME NEW a \in Actors, DeferShut(a) PROVE TypeOK'
  <2>1. Runs(a)
    BY <1>10 DEF DeferShut, Runs, Running
  <2> QED
    BY <1>10, <1>i, <1>y, <2>1 DEF DeferShut, TypeOK
<1>11. ASSUME NEW a \in {"pickup", "post"}, NEW d \in Deliveries, ToldAgain(a, d) PROVE TypeOK'
  <2>1. a = "pickup" => d \in Pickups
    BY <1>11, <1>i DEF ToldAgain, Comes, TypeOK
  <2> QED
    BY <1>11, <1>i, <1>k, <2>1 DEF ToldAgain, Comes, TypeOK
<1>12. ASSUME NEW a \in {"pickup", "post"}, NEW d \in Deliveries, StillWaits(a, d) PROVE TypeOK'
  <2>1. K
    BY <1>12, <1>i, KeptType DEF StillWaits, TypeOK
  <2> QED
    BY <1>12, <1>i, <2>1 DEF StillWaits, Comes, TypeOK
<1>13. ASSUME NEW a \in {"pickup", "post"}, NEW d \in Deliveries, Enter(a, d) PROVE TypeOK'
  <2>1. actor' \in [Actors -> ActorType]
    BY <1>13, <1>s DEF Enter, Actors
  <2> QED
    BY <1>13, <1>i, <1>k, <2>1 DEF Enter, Comes, TypeOK
<1>14. ASSUME NEW t \in Tellers, Tell(t) PROVE TypeOK'
  <2>1. actor' \in [Actors -> ActorType]
    <3>1. [Idle EXCEPT !.pc = "reading", !.todo = DOMAIN waits] \in ActorType
      BY <1>i DEF Idle, ActorType, TypeOK
    <3> QED
      BY <1>14, <1>a, <3>1 DEF Tell, ActorType
  <2> QED
    BY <1>14, <1>i, <1>k, <2>1 DEF Tell, TypeOK
<1>15. ASSUME NEW t \in Tellers, TellReads(t) PROVE TypeOK'
  <2>0. t \in Actors
    BY DEF Actors
  <2>1. actor' \in [Actors -> ActorType]
    <3>1. /\ [actor[t] EXCEPT !.pc = "compare", !.read = standing] \in ActorType
          /\ [actor[t] EXCEPT !.pc = "compare"] \in ActorType
      BY <1>a, <1>i, <2>0 DEF TypeOK, ActorType
    <3> QED
      BY <1>15, <1>i, <3>1 DEF TellReads, Goes, TypeOK
  <2> QED
    BY <1>15, <1>f, <1>i, <1>k, <2>1 DEF TellReads, Fault, TypeOK
<1>16. ASSUME NEW t \in Tellers, NEW d \in Deliveries, Unchanged(t, d) PROVE TypeOK'
  <2>0. t \in Actors
    BY DEF Actors
  <2>1. actor' \in [Actors -> ActorType]
    <3>1. [actor[t] EXCEPT !.todo = @ \ {d}] \in ActorType
      BY <1>a, <2>0 DEF ActorType
    <3> QED
      BY <1>16, <1>i, <3>1 DEF Unchanged, Tried, TypeOK
  <2> QED
    BY <1>16, <1>i, <1>k, <2>1 DEF Unchanged, TypeOK
<1>17. ASSUME NEW t \in Tellers, NEW d \in Deliveries, Retry(t, d) PROVE TypeOK'
  <2>0. t \in Actors /\ d \in DOMAIN waits
    BY <1>17, <1>i DEF Retry, Compares, Exclusive, Actors
  <2>1. Tried(t, d) \in [Actors -> ActorType]
    <3>1. [actor[t] EXCEPT !.todo = @ \ {d}] \in ActorType
      BY <1>a, <2>0 DEF ActorType
    <3> QED
      BY <1>i, <3>1 DEF Tried, TypeOK
  <2>2. actor' \in [Actors -> ActorType]
    <3>1. [Tried(t, d)[t] EXCEPT !.pc = "scan", !.key = d] \in ActorType
      BY <2>0, <2>1 DEF ActorType, Running
    <3> QED
      BY <1>17, <2>1, <3>1 DEF Retry
  <2>3. K
    <3>1. [waits[d] EXCEPT !.retry = TRUE] \in [seen : Standing, retry : BOOLEAN]
      BY <1>i, <2>0 DEF TypeOK
    <3>2. DOMAIN waits' = DOMAIN waits /\ UNCHANGED <<held, heldBytes>>
      BY <1>17 DEF Retry
    <3>3. \A k \in DOMAIN waits : waits'[k] = waits[k] \/ waits'[k] = [waits[k] EXCEPT !.retry = TRUE]
      BY <1>17 DEF Retry
    <3> QED
      BY <1>i, <3>1, <3>2, <3>3 DEF TypeOK
  <2> QED
    BY <1>17, <1>i, <2>2, <2>3 DEF Retry, TypeOK
<1>18. ASSUME NEW t \in Tellers, NEW d \in Deliveries, LetGoUnread(t, d) PROVE TypeOK'
  BY <1>18, <1>i, <1>l, <1>u DEF LetGoUnread, TypeOK
<1>19. ASSUME NEW t \in Tellers, Told(t) PROVE TypeOK'
  BY <1>19, <1>i, <1>k, ActorFacts DEF Told, TypeOK
<1>20. ASSUME NEW t \in Tellers, RetryAcknowledges(t) PROVE TypeOK'
  <2>1. actor' \in [Actors -> ActorType]
    BY <1>20, <1>i, <1>n, DoneFacts DEF RetryAcknowledges, Actors
  <2> QED
    BY <1>20, <1>e, <1>f, <1>i, <1>k, <2>1 DEF RetryAcknowledges, Fault, TypeOK
<1>21. ASSUME NEW d \in Pickups, Push(d) PROVE TypeOK'
  BY <1>21, <1>i, <1>k DEF Push, TypeOK
<1>22. ASSUME NEW d \in Pickups, Unreadable(d) PROVE TypeOK'
  <2>1. ended' \in Seq(Deliveries)
    BY <1>22, <1>c, <1>i, RememberFacts DEF Unreadable, Deliveries
  <2>2. d \in Deliveries
    BY DEF Deliveries
  <2> QED
    BY <1>22, <1>i, <1>l, <1>u, <2>1, <2>2 DEF Unreadable, Comes, TypeOK
<1>23. ASSUME NEW d \in Pickups, Acknowledge(d) PROVE TypeOK'
  BY <1>23, <1>e, <1>f, <1>i, <1>k DEF Acknowledge, Fault, TypeOK
<1>24. ASSUME NEW r \in Recipients, Change(r) PROVE TypeOK'
  BY <1>24, <1>i, <1>k DEF Change, TypeOK
<1>25. CASE Close \/ Crash
  <2>1. actor' \in [Actors -> ActorType] /\ ring' \subseteq Recipients /\ faults' \in 0..MaxFaults
    <3>1. Idle \in ActorType /\ \A a \in Actors : [actor[a] EXCEPT !.shut = TRUE, !.todo = {}] \in ActorType
      BY <1>a DEF ActorType, Idle
    <3>2. actor' \in [Actors -> ActorType]
      BY <1>25, <3>1 DEF Close, Crash
    <3> QED
      BY <1>25, <1>f, <1>i, <3>2 DEF Close, Crash, Fault, TypeOK
  <2>2. Forgets
    BY <1>25 DEF Close, Crash
  <2>3. DOMAIN waits' = {} /\ held' = {} /\ heldBytes' = 0 /\ ended' = <<>>
    BY <2>2 DEF Forgets
  <2>4. queued' \subseteq Pickups /\ pushed' = {} /\ acking' = {} /\ open' = FALSE /\ UNCHANGED <<vault, discarded>>
    BY <1>i, <2>2 DEF Forgets, TypeOK
  <2>5. ended' \in Seq(Deliveries) /\ held' \subseteq Deliveries /\ heldBytes' \in Nat /\ DOMAIN waits' \subseteq Deliveries
    BY <2>3
  <2> QED
    BY <1>i, <2>1, <2>3, <2>4, <2>5 DEF TypeOK
<1>26. CASE Open
  BY <1>26, <1>i, <1>k, <1>v DEF Open, TypeOK
<1> QED
  BY <1>1, <1>2, <1>3, <1>4, <1>5, <1>6, <1>7, <1>8, <1>9, <1>10, <1>11, <1>12, <1>13, <1>14,
     <1>15,
     <1>16, <1>17, <1>18, <1>19, <1>20, <1>21, <1>22, <1>23, <1>24, <1>25, <1>26
  DEF Next, Attempt, Telling

-----------------------------------------------------------------------------
(* What is kept, as deliveries come to wait and stop waiting.              *)
LEMMA HeldSummed ==
    ASSUME TypeOK, Countable, KeptAccounted
    PROVE  /\ IsFiniteSet(held) /\ IsFiniteSet(DOMAIN waits)
           /\ \A d \in Deliveries : SizeOf[d] \in Nat
           /\ \A d \in held : SizeOf[d] \in Nat
           /\ SumFunctionOnSet(SizeOf, held) \in Nat
           /\ MaxHeldBytes \in Nat /\ MaxWaiting \in Nat
<1>1. IsFiniteSet(held) /\ IsFiniteSet(DOMAIN waits)
  BY FS_Subset DEF Countable, KeptAccounted
<1>2. \A d \in Deliveries : SizeOf[d] \in Nat
  BY ReceiverAssumption
<1>3. \A d \in held : SizeOf[d] \in Nat
  BY <1>2 DEF TypeOK
<1>4. MaxHeldBytes \in Nat /\ MaxWaiting \in Nat
  BY ReceiverAssumption
<1> QED
  BY <1>1, <1>2, <1>3, <1>4, SumType

LEMMA LetGoFacts ==
    ASSUME TypeOK, Countable, KeptAccounted, NEW d, LetGo(d)
    PROVE  /\ DOMAIN waits' = DOMAIN waits \ {d}
           /\ \A k \in DOMAIN waits \ {d} : waits'[k] = waits[k]
           /\ held' \subseteq DOMAIN waits'
           /\ IsFiniteSet(DOMAIN waits') /\ Cardinality(DOMAIN waits') <= MaxWaiting
           /\ heldBytes' = SumFunctionOnSet(SizeOf, held') /\ heldBytes' <= MaxHeldBytes
<1>1. DOMAIN waits' = DOMAIN waits \ {d} /\ \A k \in DOMAIN waits \ {d} : waits'[k] = waits[k]
  BY DEF LetGo, Restrict
<1>2. held' \subseteq DOMAIN waits'
  BY <1>1 DEF LetGo, KeptAccounted
<1>3. IsFiniteSet(DOMAIN waits') /\ Cardinality(DOMAIN waits') <= MaxWaiting
  <2>1. IsFiniteSet(DOMAIN waits \ {d}) /\ Cardinality(DOMAIN waits \ {d}) <= Cardinality(DOMAIN waits)
    BY HeldSummed, FS_Subset
  <2>2. Cardinality(DOMAIN waits \ {d}) \in Nat /\ Cardinality(DOMAIN waits) \in Nat
    BY HeldSummed, <2>1, FS_CardinalityType
  <2> QED
    BY <1>1, <2>1, <2>2, HeldSummed DEF KeptAccounted
<1>4. CASE d \in held
  <2>1. SumFunctionOnSet(SizeOf, held) = SizeOf[d] + SumFunctionOnSet(SizeOf, held \ {d})
    BY <1>4, HeldSummed, SumRemove
  <2>2. SumFunctionOnSet(SizeOf, held \ {d}) \in Nat
    BY HeldSummed, SumType, FS_Subset
  <2>3. heldBytes' = SumFunctionOnSet(SizeOf, held')
    BY <1>4, <2>1, <2>2, HeldSummed DEF LetGo, KeptAccounted
  <2>4. heldBytes' <= MaxHeldBytes
    BY <1>4, <2>1, <2>2, <2>3, HeldSummed DEF LetGo, KeptAccounted
  <2> QED
    BY <1>1, <1>2, <1>3, <2>3, <2>4
<1>5. CASE d \notin held
  <2>1. held' = held /\ heldBytes' = heldBytes
    BY <1>5 DEF LetGo
  <2> QED
    BY <1>1, <1>2, <1>3, <2>1 DEF KeptAccounted
<1> QED
  BY <1>4, <1>5

LEMMA HoldFacts ==
    ASSUME TypeOK, Countable, KeptAccounted, NEW d \in Deliveries, Hold(d)
    PROVE  /\ held' \subseteq held \cup {d}
           /\ heldBytes' = SumFunctionOnSet(SizeOf, held') /\ heldBytes' <= MaxHeldBytes
<1>1. CASE d \notin held /\ heldBytes + SizeOf[d] <= MaxHeldBytes
  <2>1. SumFunctionOnSet(SizeOf, held \cup {d}) = SizeOf[d] + SumFunctionOnSet(SizeOf, held)
    BY <1>1, HeldSummed, SumAdd
  <2> QED
    BY <1>1, <2>1, HeldSummed DEF Hold, KeptAccounted
<1>2. CASE ~(d \notin held /\ heldBytes + SizeOf[d] <= MaxHeldBytes)
  BY <1>2 DEF Hold, KeptAccounted
<1> QED
  BY <1>1, <1>2

-----------------------------------------------------------------------------
(* The steps an attempt is made of.                                        *)

\* All but the types.
Rest == Turns /\ Traced /\ Exclusive /\ Countable /\ KeptAccounted /\ FoldsFresh /\ Wakes

\* The actors but a, which lose the waits in D.
Others(a, D) ==
    \A b \in Actors \ {a} :
        /\ actor'[b].pc = actor[b].pc /\ actor'[b].key = actor[b].key
        /\ actor'[b].fold = actor[b].fold /\ actor'[b].stirred = actor[b].stirred
        /\ actor'[b].shut = actor[b].shut /\ actor'[b].read = actor[b].read
        /\ actor'[b].todo = actor[b].todo \ D

\* a no longer runs, and a teller goes on with the waits it has left.
Stops(a, D) ==
    /\ actor'[a].pc \in {"idle", "compare"}
    /\ ~actor'[a].shut
    /\ IF a \in Tellers /\ ~actor[a].shut
       THEN actor'[a].todo = actor[a].todo \ D /\ actor'[a].read = actor[a].read
       ELSE actor'[a].todo = {}

LEMMA LeftMoves ==
    ASSUME TypeOK, NEW a \in Actors, NEW D, Left(a, D)
    PROVE  Others(a, D) /\ Stops(a, D)
<1>1. Others(a, D)
  BY ActorFacts DEF Left, Others, ActorType
<1>2. Stops(a, D)
  BY DEF Left, Stops, Idle
<1> QED
  BY <1>1, <1>2

LEMMA AcksMoves ==
    ASSUME TypeOK, NEW a \in Actors, NEW d, Acks(a, d)
    PROVE  /\ Others(a, {d})
           /\ actor'[a].pc = "ack" /\ actor'[a].key = actor[a].key /\ actor'[a].shut = actor[a].shut
           /\ actor'[a].todo = actor[a].todo \ {d} /\ actor'[a].read = actor[a].read
<1>1. Others(a, {d})
  BY ActorFacts DEF Acks, Others, ActorType
<1>2. /\ actor'[a].pc = "ack" /\ actor'[a].key = actor[a].key /\ actor'[a].shut = actor[a].shut
      /\ actor'[a].todo = actor[a].todo \ {d} /\ actor'[a].read = actor[a].read
  BY ActorFacts DEF Acks, ActorType
<1> QED
  BY <1>1, <1>2

(* An attempt ends, with the vault told or the delivery found terminal.    *)
LEMMA EndKeeps ==
    ASSUME ReceiverInv, NEW a \in Actors, Runs(a), actor[a].pc # "ack", End(a),
           recorded \subseteq recorded', discarded \subseteq discarded',
           actor[a].key \in recorded' \cup discarded',
           UNCHANGED <<queued, standing, untold>>
    PROVE  Rest'
<1> DEFINE d == actor[a].key
<1>i. TypeOK /\ Turns /\ Traced /\ Exclusive /\ Countable /\ KeptAccounted /\ FoldsFresh /\ Wakes
  BY DEF ReceiverInv
<1>d. d \in Deliveries /\ \A b \in Actors : Runs(b) /\ actor[b].key = d => b = a
  BY <1>i DEF Turns
<1>c. "ack" \in Running /\ "idle" \notin Running /\ "compare" \notin Running /\ Tellers \subseteq Actors
      /\ "pickup" \in Actors
  BY DEF Running, Actors
<1>1. CASE EndedShut(a)
  <2>m. Others(a, {}) /\ Stops(a, {}) /\ UNCHANGED <<waits, held, heldBytes, ended, acking>> /\ actor[a].shut
    BY <1>1, <1>i, LeftMoves DEF EndedShut, kept
  <2>w. d \notin DOMAIN waits /\ actor[a].todo = {}
    BY <1>i, <2>m DEF Exclusive
  <2>r. \A b \in Actors : Runs(b)' <=> Runs(b) /\ b # a
    BY <1>c, <2>m DEF Runs, Others, Stops
  <2>1. Turns'
    BY <1>i, <1>c, <2>m, <2>r DEF Turns, Others
  <2>2. Traced'
    BY <1>i, <1>c, <2>m, <2>r DEF Traced, NothingDropped, Others, Stops
  <2>3. Exclusive'
    BY <1>i, <1>c, <2>m, <2>r DEF Exclusive, Others, Stops
  <2>4. Countable' /\ KeptAccounted'
    BY <1>i, <2>m DEF Countable, KeptAccounted
  <2>5. FoldsFresh'
    BY <1>i, <2>m DEF FoldsFresh, Others, Stops
  <2>6. Wakes'
    <3>1. \A k \in DOMAIN waits : ~TurnFree(k) => ~TurnFree(k)'
      BY <1>d, <2>m, <2>r, <2>w DEF TurnFree, Others, Runs
    <3>2. \A t \in Tellers, k \in DOMAIN waits : Will(t, k) => Will(t, k)'
      BY <1>c, <2>m, <2>w DEF Will, Others
    <3> QED
      BY <1>i, <2>m, <3>1, <3>2 DEF Wakes
  <2> QED
    BY <2>1, <2>2, <2>3, <2>4, <2>5, <2>6 DEF Rest
<1>2. CASE EndedOpen(a, d)
  <2>k. /\ DOMAIN waits' = DOMAIN waits \ {d}
        /\ \A k \in DOMAIN waits \ {d} : waits'[k] = waits[k]
        /\ held' \subseteq DOMAIN waits'
        /\ IsFiniteSet(DOMAIN waits') /\ Cardinality(DOMAIN waits') <= MaxWaiting
        /\ heldBytes' = SumFunctionOnSet(SizeOf, held') /\ heldBytes' <= MaxHeldBytes
    BY <1>2, <1>i, LetGoFacts DEF EndedOpen
  <2>e. ended' \in Seq(Deliveries) /\ Distinct(ended') /\ Len(ended') <= EndedKept
        /\ Range(ended') \subseteq Range(ended) \cup {d}
    <3>1. Len(ended) <= EndedKept
      BY <1>i DEF KeptAccounted
    <3> QED
      BY <1>2, <1>i, <1>d, <3>1, RememberFacts DEF EndedOpen
  <2>m. /\ Others(a, {d})
        /\ actor[a].shut = FALSE
        /\ \/ Stops(a, {d})
           \/ /\ actor'[a].pc = "ack" /\ actor'[a].key = d /\ actor'[a].shut = FALSE
              /\ actor'[a].todo = actor[a].todo \ {d} /\ actor'[a].read = actor[a].read
    <3>1. actor[a].shut = FALSE
      BY <1>2, <1>i, ActorFacts DEF EndedOpen, ActorType
    <3> QED
      BY <1>2, <1>i, <3>1, LeftMoves, AcksMoves DEF EndedOpen
  <2>r. \A b \in Actors : Runs(b)' => Runs(b) /\ actor'[b].key = actor[b].key /\ (b = a => actor'[b].pc = "ack")
    BY <1>c, <2>m DEF Runs, Others, Stops
  <2>1. Turns'
    BY <1>i, <1>c, <2>r DEF Turns
  <2>2. Traced'
    <3>1. acking' \subseteq acking \cup {d}
      BY <1>2 DEF EndedOpen
    <3>2. \A b \in Actors : actor'[b].pc = "ack" => actor'[b].key \in recorded' \cup discarded'
      BY <1>i, <1>c, <2>m DEF Traced, Others, Stops
    <3> QED
      BY <1>i, <2>e, <3>1, <3>2 DEF Traced, NothingDropped
  <2>3. Exclusive'
    <3>1. \A b \in Actors \ {a} : Runs(b) => actor[b].key # d
      BY <1>d
    <3>2. \A b \in Actors : actor'[b].shut => Runs(b)'
      BY <1>i, <2>m DEF Exclusive, Others, Stops, Runs
    <3>3. \A b \in Actors : Runs(b)' /\ actor'[b].shut => actor'[b].key \notin DOMAIN waits' /\ actor'[b].todo = {}
      BY <1>i, <1>c, <2>k, <2>m, <2>r DEF Exclusive, Others, Stops, Runs
    <3>4. \A b \in Actors : actor'[b].pc = "ack" => actor'[b].key \notin DOMAIN waits'
      BY <1>i, <2>k, <2>m DEF Exclusive, Others, Stops
    <3>5. \A b \in Actors :
            Runs(b)' /\ ~actor'[b].shut /\ actor'[b].pc # "ack" => actor'[b].key \notin Range(ended')
      BY <1>i, <2>e, <2>m, <2>r, <3>1 DEF Exclusive, Others, Runs
    <3>6. \A t \in Tellers : actor'[t].todo \subseteq DOMAIN waits'
      BY <1>i, <1>c, <2>k, <2>m DEF Exclusive, Others, Stops
    <3> QED
      BY <3>2, <3>3, <3>4, <3>5, <3>6 DEF Exclusive, Runs
  <2>4. Countable'
    BY <2>e, <2>k DEF Countable, Distinct
  <2>5. KeptAccounted'
    BY <1>i, <2>e, <2>k DEF KeptAccounted
  <2>6. FoldsFresh'
    BY <1>i, <2>m DEF FoldsFresh, Others, Stops
  <2>7. Wakes'
    <3>1. \A k \in DOMAIN waits' : ~TurnFree(k) => ~TurnFree(k)'
      BY <1>d, <2>k, <2>m DEF TurnFree, Others
    <3>2. \A t \in Tellers, k \in DOMAIN waits' : Will(t, k) => Will(t, k)'
      BY <1>c, <2>k, <2>m DEF Will, Others, Stops
    <3> QED
      BY <1>i, <2>k, <3>1, <3>2 DEF Wakes
  <2> QED
    BY <2>1, <2>2, <2>3, <2>4, <2>5, <2>6, <2>7 DEF Rest
<1> QED
  BY <1>i, <1>1, <1>2, EndFacts

(* An attempt under a receiver that was closed, or one that had only to    *)
(* tell the mediator, stops.                                               *)
LEMMA StopKeeps ==
    ASSUME ReceiverInv, NEW a \in Actors, Runs(a), actor[a].shut \/ actor[a].pc = "ack", Left(a, {}),
           Pickups \ queued' \subseteq recorded \cup discarded,
           ended' = ended \/ ended' = RemoveFirst(ended, actor[a].key),
           UNCHANGED <<acking, vault, discarded, kept>>
    PROVE  Rest'
<1> DEFINE d == actor[a].key
<1>i. TypeOK /\ Turns /\ Traced /\ Exclusive /\ Countable /\ KeptAccounted /\ FoldsFresh /\ Wakes
  BY DEF ReceiverInv
<1>d. d \in Deliveries /\ \A b \in Actors : Runs(b) /\ actor[b].key = d => b = a
  BY <1>i DEF Turns
<1>c. "ack" \in Running /\ "idle" \notin Running /\ "compare" \notin Running /\ Tellers \subseteq Actors
      /\ "pickup" \in Actors
  BY DEF Running, Actors
<1>m. Others(a, {}) /\ Stops(a, {}) /\ UNCHANGED <<waits, held, heldBytes, acking, standing, untold, recorded, discarded>>
  BY <1>i, LeftMoves DEF kept, vault
<1>w. d \notin DOMAIN waits /\ (actor[a].shut => actor[a].todo = {})
  BY <1>i DEF Exclusive
<1>e. ended' \in Seq(Deliveries) /\ Distinct(ended') /\ Len(ended') <= EndedKept /\ Range(ended') \subseteq Range(ended)
  <2>1. ended \in Seq(Deliveries) /\ Distinct(ended) /\ Len(ended) <= EndedKept
    BY <1>i DEF TypeOK, Countable, Distinct, KeptAccounted
  <2>2. CASE ended' = RemoveFirst(ended, d)
    <3>1. /\ ended' \in Seq(Deliveries) /\ Distinct(ended') /\ Len(ended') <= Len(ended)
          /\ Range(ended') = Range(ended) \ {d}
      BY <2>1, <2>2, ForgottenFacts
    <3>2. Len(ended) \in Nat /\ Len(ended') \in Nat /\ EndedKept \in Nat
      BY <2>1, <3>1, ReceiverAssumption
    <3> QED
      BY <2>1, <3>1, <3>2
  <2> QED
    BY <2>1, <2>2
<1>r. \A b \in Actors : Runs(b)' <=> Runs(b) /\ b # a
  BY <1>c, <1>m DEF Runs, Others, Stops
<1>1. Turns'
  BY <1>i, <1>c, <1>m, <1>r DEF Turns, Others
<1>2. Traced'
  BY <1>i, <1>c, <1>e, <1>m, <1>r DEF Traced, NothingDropped, Others, Stops
<1>3. Exclusive'
  <2>1. \A b \in Actors : Runs(b)' /\ ~actor'[b].shut /\ actor'[b].pc # "ack" => actor'[b].key \notin Range(ended')
    BY <1>i, <1>e, <1>m, <1>r DEF Exclusive, Others, Runs
  <2>2. /\ \A b \in Actors : Runs(b)' /\ actor'[b].shut => actor'[b].key \notin DOMAIN waits' /\ actor'[b].todo = {}
        /\ \A b \in Actors : actor'[b].shut => Runs(b)'
        /\ \A b \in Actors : actor'[b].pc = "ack" => actor'[b].key \notin DOMAIN waits'
        /\ \A t \in Tellers : actor'[t].todo \subseteq DOMAIN waits'
    BY <1>i, <1>c, <1>m, <1>r DEF Exclusive, Others, Stops
  <2> QED
    BY <2>1, <2>2 DEF Exclusive, Runs
<1>4. Countable' /\ KeptAccounted'
  BY <1>i, <1>e, <1>m DEF Countable, Distinct, KeptAccounted
<1>5. FoldsFresh'
  BY <1>i, <1>m DEF FoldsFresh, Others, Stops
<1>6. Wakes'
  <2>1. \A k \in DOMAIN waits : ~TurnFree(k) => ~TurnFree(k)'
    BY <1>d, <1>m, <1>r, <1>w DEF TurnFree, Others, Runs
  <2>2. \A t \in Tellers, k \in DOMAIN waits : Will(t, k) => Will(t, k)'
    BY <1>c, <1>m, <1>w DEF Will, Others, Stops
  <2> QED
    BY <1>i, <1>m, <2>1, <2>2 DEF Wakes
<1> QED
  BY <1>1, <1>2, <1>3, <1>4, <1>5, <1>6 DEF Rest

(* An attempt leaves its delivery to come again.                           *)
LEMMA LeaveKeeps ==
    ASSUME ReceiverInv, NEW a \in Actors, Runs(a), Leave(a),
           UNCHANGED <<mediator, vault, discarded, ended>>
    PROVE  Rest'
<1> DEFINE d == actor[a].key
<1>i. TypeOK /\ Turns /\ Traced /\ Exclusive /\ Countable /\ KeptAccounted /\ FoldsFresh /\ Wakes
  BY DEF ReceiverInv
<1>d. d \in Deliveries /\ \A b \in Actors : Runs(b) /\ actor[b].key = d => b = a
  BY <1>i DEF Turns
<1>c. "ack" \in Running /\ "idle" \notin Running /\ "compare" \notin Running /\ Tellers \subseteq Actors
      /\ "pickup" \in Actors
  BY DEF Running, Actors
<1>1. CASE LeftShut(a)
  <2>1. actor[a].shut /\ Left(a, {}) /\ UNCHANGED <<acking, vault, discarded, kept, ended>>
    BY <1>1 DEF LeftShut, mediator
  <2>2. Pickups \ queued' \subseteq recorded \cup discarded
    BY <1>i DEF Traced, NothingDropped, mediator
  <2> QED
    BY <2>1, <2>2, StopKeeps
<1>2. CASE LeftOpen(a, d)
  <2>k. /\ DOMAIN waits' = DOMAIN waits \ {d}
        /\ \A k \in DOMAIN waits \ {d} : waits'[k] = waits[k]
        /\ held' \subseteq DOMAIN waits'
        /\ IsFiniteSet(DOMAIN waits') /\ Cardinality(DOMAIN waits') <= MaxWaiting
        /\ heldBytes' = SumFunctionOnSet(SizeOf, held') /\ heldBytes' <= MaxHeldBytes
    BY <1>2, <1>i, LetGoFacts DEF LeftOpen
  <2>m. /\ Others(a, {d}) /\ Stops(a, {d})
        /\ UNCHANGED <<queued, acking, standing, untold, recorded, discarded, ended>>
    BY <1>2, <1>i, LeftMoves DEF LeftOpen, mediator, vault
  <2>r. \A b \in Actors : Runs(b)' <=> Runs(b) /\ b # a
    BY <1>c, <2>m DEF Runs, Others, Stops
  <2>1. Turns'
    BY <1>i, <1>c, <2>m, <2>r DEF Turns, Others
  <2>2. Traced'
    BY <1>i, <1>c, <2>m, <2>r DEF Traced, NothingDropped, Others, Stops
  <2>3. Exclusive'
    <3>1. \A b \in Actors : Runs(b)' /\ actor'[b].shut => actor'[b].key \notin DOMAIN waits' /\ actor'[b].todo = {}
      BY <1>i, <2>k, <2>m, <2>r DEF Exclusive, Others
    <3>2. \A b \in Actors : actor'[b].shut => Runs(b)'
      BY <1>i, <2>m, <2>r DEF Exclusive, Others, Stops
    <3>3. \A b \in Actors : actor'[b].pc = "ack" => actor'[b].key \notin DOMAIN waits'
      BY <1>i, <2>k, <2>m DEF Exclusive, Others, Stops
    <3>4. \A b \in Actors : Runs(b)' /\ ~actor'[b].shut /\ actor'[b].pc # "ack" => actor'[b].key \notin Range(ended')
      BY <1>i, <2>m, <2>r DEF Exclusive, Others
    <3>5. \A t \in Tellers : actor'[t].todo \subseteq DOMAIN waits'
      BY <1>i, <1>c, <2>k, <2>m DEF Exclusive, Others, Stops
    <3> QED
      BY <3>1, <3>2, <3>3, <3>4, <3>5 DEF Exclusive, Runs
  <2>4. Countable' /\ KeptAccounted'
    BY <1>i, <2>k, <2>m DEF Countable, KeptAccounted
  <2>5. FoldsFresh'
    BY <1>i, <2>m DEF FoldsFresh, Others, Stops
  <2>6. Wakes'
    <3>1. \A k \in DOMAIN waits' : ~TurnFree(k) => ~TurnFree(k)'
      BY <1>d, <2>k, <2>m DEF TurnFree, Others
    <3>2. \A t \in Tellers, k \in DOMAIN waits' : Will(t, k) => Will(t, k)'
      BY <1>c, <2>k, <2>m, <1>2 DEF Will, Others, Stops, LeftOpen
    <3> QED
      BY <1>i, <2>k, <2>m, <3>1, <3>2 DEF Wakes
  <2> QED
    BY <2>1, <2>2, <2>3, <2>4, <2>5, <2>6 DEF Rest
<1> QED
  BY <1>i, <1>1, <1>2, LeaveFacts

\* a goes on with its delivery, with a fold it may judge by.
GoesOn(a) ==
    /\ actor'[a].pc \in Running \ {"ack"} /\ actor'[a].key = actor[a].key
    /\ actor'[a].shut = actor[a].shut /\ actor'[a].todo = actor[a].todo /\ actor'[a].read = actor[a].read
    /\ actor'[a].pc # "scan" =>
          /\ actor'[a].fold \in [Recipients -> Standing]
          /\ \/ actor'[a].stirred
             \/ untold
             \/ actor'[a].fold[RecipientOf[actor[a].key]] = standing[RecipientOf[actor[a].key]]

(* An attempt goes on.                                                     *)
LEMMA GoOnKeeps ==
    ASSUME ReceiverInv, NEW a \in Actors, Runs(a), actor[a].pc # "ack", Others(a, {}), GoesOn(a),
           UNCHANGED <<queued, acking, vault, discarded, kept, ended>>
    PROVE  Rest'
<1>i. TypeOK /\ Turns /\ Traced /\ Exclusive /\ Countable /\ KeptAccounted /\ FoldsFresh /\ Wakes
  BY DEF ReceiverInv
<1>c. "pickup" \in Actors /\ "ack" \in Running /\ Tellers \subseteq Actors
  BY DEF Actors, Running
<1>u. UNCHANGED <<waits, held, heldBytes, standing, untold, recorded, discarded, queued, acking, ended>>
  BY DEF kept, vault
<1>r. \A b \in Actors : Runs(b)' <=> Runs(b)
  BY DEF Runs, Others, GoesOn
<1>k. \A b \in Actors : /\ actor'[b].key = actor[b].key /\ actor'[b].shut = actor[b].shut
                        /\ actor'[b].todo = actor[b].todo /\ actor'[b].read = actor[b].read
                        /\ (actor'[b].pc = "ack") <=> (actor[b].pc = "ack")
  BY DEF Others, GoesOn
<1>1. Turns'
  BY <1>i, <1>c, <1>k, <1>r DEF Turns
<1>2. Traced'
  BY <1>i, <1>k, <1>u DEF Traced, NothingDropped
<1>3. Exclusive'
  <2>1. /\ \A b \in Actors : Runs(b)' /\ actor'[b].shut => actor'[b].key \notin DOMAIN waits' /\ actor'[b].todo = {}
        /\ \A b \in Actors : actor'[b].shut => Runs(b)'
        /\ \A b \in Actors : actor'[b].pc = "ack" => actor'[b].key \notin DOMAIN waits'
        /\ \A b \in Actors : Runs(b)' /\ ~actor'[b].shut /\ actor'[b].pc # "ack" => actor'[b].key \notin Range(ended')
        /\ \A t \in Tellers : actor'[t].todo \subseteq DOMAIN waits'
    BY <1>i, <1>c, <1>k, <1>r, <1>u DEF Exclusive
  <2> QED
    BY <2>1 DEF Exclusive, Runs
<1>4. Countable' /\ KeptAccounted'
  BY <1>i, <1>u DEF Countable, KeptAccounted
<1>5. FoldsFresh'
  BY <1>i, <1>u DEF FoldsFresh, Others, GoesOn
<1>6. Wakes'
  <2>1. \A k \in DOMAIN waits : TurnFree(k)' => TurnFree(k)
    BY <1>k, <1>r DEF TurnFree, Runs
  <2>2. \A t \in Tellers, k \in DOMAIN waits : Will(t, k) => Will(t, k)'
    BY <1>c, <1>k, <1>u DEF Will
  <2> QED
    BY <1>i, <1>u, <2>1, <2>2 DEF Wakes
<1> QED
  BY <1>1, <1>2, <1>3, <1>4, <1>5, <1>6 DEF Rest

\* a takes up d, of the waits it had to compare or not.
TakesUp(a, d) ==
    /\ actor'[a].pc = "scan" /\ actor'[a].key = d /\ ~actor'[a].shut
    /\ IF a \in Tellers
       THEN actor'[a].todo = actor[a].todo \ {d} /\ actor'[a].read = actor[a].read
       ELSE actor'[a].todo = {}

(* An attempt begins, in the delivery's turn.                              *)
LEMMA TakeUpKeeps ==
    ASSUME ReceiverInv, NEW a \in Actors, NEW d \in Deliveries, ~Runs(a), TurnFree(d), d \notin Range(ended),
           a = "pickup" => d \in Pickups, Others(a, {}), TakesUp(a, d),
           UNCHANGED <<queued, acking, vault, discarded, kept, ended>>
    PROVE  Rest'
<1>i. TypeOK /\ Turns /\ Traced /\ Exclusive /\ Countable /\ KeptAccounted /\ FoldsFresh /\ Wakes
  BY DEF ReceiverInv
<1>c. "pickup" \in Actors /\ "ack" \in Running /\ "scan" \in Running /\ Tellers \subseteq Actors
  BY DEF Actors, Running
<1>u. UNCHANGED <<waits, held, heldBytes, standing, untold, recorded, discarded, queued, acking, ended>>
  BY DEF kept, vault
<1>r. \A b \in Actors : Runs(b)' <=> Runs(b) \/ b = a
  BY <1>c DEF Runs, Others, TakesUp
<1>f. \A b \in Actors : Runs(b) => actor[b].key # d
  BY DEF TurnFree, Runs
<1>1. Turns'
  BY <1>i, <1>c, <1>f, <1>r DEF Turns, Others, TakesUp
<1>2. Traced'
  BY <1>i, <1>u DEF Traced, NothingDropped, Others, TakesUp
<1>3. Exclusive'
  <2>1. \A b \in Actors : Runs(b)' /\ actor'[b].shut => actor'[b].key \notin DOMAIN waits' /\ actor'[b].todo = {}
    BY <1>i, <1>r, <1>u DEF Exclusive, Others, TakesUp
  <2>2. \A b \in Actors : actor'[b].shut => Runs(b)'
    BY <1>i, <1>r, <1>u DEF Exclusive, Others, TakesUp
  <2>3. \A b \in Actors : actor'[b].pc = "ack" => actor'[b].key \notin DOMAIN waits'
    BY <1>i, <1>r, <1>u DEF Exclusive, Others, TakesUp
  <2>4. \A b \in Actors : Runs(b)' /\ ~actor'[b].shut /\ actor'[b].pc # "ack" => actor'[b].key \notin Range(ended')
    BY <1>i, <1>r, <1>u DEF Exclusive, Others, TakesUp
  <2>5. \A t \in Tellers : actor'[t].todo \subseteq DOMAIN waits'
    BY <1>i, <1>c, <1>u DEF Exclusive, Others, TakesUp
  <2> QED
    BY <2>1, <2>2, <2>3, <2>4, <2>5 DEF Exclusive, Runs
<1>4. Countable' /\ KeptAccounted'
  BY <1>i, <1>u DEF Countable, KeptAccounted
<1>5. FoldsFresh'
  BY <1>i, <1>u DEF FoldsFresh, Others, TakesUp
<1>6. Wakes'
  <2>1. ~TurnFree(d)'
    BY <1>c DEF TurnFree, TakesUp
  <2>2. \A k \in DOMAIN waits : ~TurnFree(k) => ~TurnFree(k)'
    <3>1. \A b \in Actors : Runs(b) => b # a /\ actor'[b].key = actor[b].key
      BY DEF Others
    <3> QED
      BY <1>r, <3>1 DEF TurnFree, Runs
  <2>3. \A t \in Tellers, k \in DOMAIN waits \ {d} : Will(t, k) => Will(t, k)'
    BY <1>c, <1>u DEF Will, Others, TakesUp
  <2> QED
    BY <1>i, <1>u, <2>1, <2>2, <2>3 DEF Wakes
<1> QED
  BY <1>1, <1>2, <1>3, <1>4, <1>5, <1>6 DEF Rest

(* A delivery no attempt is at is let go of.                               *)
LEMMA DropKeeps ==
    ASSUME ReceiverInv, NEW d \in Deliveries, TurnFree(d), LetGo(d), actor' = Unseen(d),
           UNCHANGED <<queued, vault>>,
           \/ UNCHANGED <<acking, ended, discarded>>
           \/ Remember(d) /\ acking' = acking \cup {d} /\ discarded' = discarded \cup {d}
    PROVE  Rest'
<1>i. TypeOK /\ Turns /\ Traced /\ Exclusive /\ Countable /\ KeptAccounted /\ FoldsFresh /\ Wakes
  BY DEF ReceiverInv
<1>c. "pickup" \in Actors /\ "ack" \in Running /\ Tellers \subseteq Actors
  BY DEF Actors, Running
<1>u. UNCHANGED <<queued, standing, untold, recorded>> /\ discarded \subseteq discarded'
  BY DEF vault
<1>k. /\ DOMAIN waits' = DOMAIN waits \ {d}
      /\ \A k \in DOMAIN waits \ {d} : waits'[k] = waits[k]
      /\ held' \subseteq DOMAIN waits'
      /\ IsFiniteSet(DOMAIN waits') /\ Cardinality(DOMAIN waits') <= MaxWaiting
      /\ heldBytes' = SumFunctionOnSet(SizeOf, held') /\ heldBytes' <= MaxHeldBytes
  BY <1>i, LetGoFacts
<1>f. \A b \in Actors : Runs(b) => actor[b].key # d
  BY DEF TurnFree, Runs
<1>m. \A b \in Actors :
        /\ actor'[b].pc = actor[b].pc /\ actor'[b].key = actor[b].key
        /\ actor'[b].fold = actor[b].fold /\ actor'[b].stirred = actor[b].stirred
        /\ actor'[b].shut = actor[b].shut /\ actor'[b].read = actor[b].read
        /\ actor'[b].todo = actor[b].todo \ {d}
  <2>1. \A b \in Actors : actor'[b] = [actor[b] EXCEPT !.todo = @ \ {d}]
    BY <1>i, UnseenFacts
  <2> QED
    BY <1>i, <2>1, ActorFacts
<1>r. \A b \in Actors : Runs(b)' <=> Runs(b)
  BY <1>m DEF Runs
<1>e. /\ ended' \in Seq(Deliveries) /\ Distinct(ended') /\ Len(ended') <= EndedKept
      /\ Range(ended') \subseteq Range(ended) \cup {d}
      /\ Range(ended') \cup acking' \subseteq recorded' \cup discarded'
  <2>1. ended \in Seq(Deliveries) /\ Distinct(ended) /\ Len(ended) <= EndedKept
        /\ Range(ended) \cup acking \subseteq recorded \cup discarded
    BY <1>i DEF TypeOK, Countable, Distinct, KeptAccounted, Traced
  <2>2. CASE UNCHANGED <<acking, ended, discarded>>
    BY <2>1, <2>2, <1>u
  <2>3. CASE Remember(d) /\ acking' = acking \cup {d} /\ discarded' = discarded \cup {d}
    <3>1. /\ ended' \in Seq(Deliveries) /\ Distinct(ended') /\ Len(ended') <= EndedKept
          /\ Range(ended') \subseteq Range(ended) \cup {d}
      BY <1>i, <2>1, <2>3, RememberFacts
    <3> QED
      BY <1>u, <2>1, <2>3, <3>1
  <2> QED
    BY <2>2, <2>3
<1>1. Turns'
  BY <1>i, <1>c, <1>m, <1>r DEF Turns
<1>2. Traced'
  BY <1>i, <1>e, <1>m, <1>u DEF Traced, NothingDropped
<1>3. Exclusive'
  <2>1. \A b \in Actors : Runs(b)' /\ actor'[b].shut => actor'[b].key \notin DOMAIN waits' /\ actor'[b].todo = {}
    BY <1>i, <1>k, <1>m, <1>r DEF Exclusive
  <2>2. \A b \in Actors : actor'[b].shut => Runs(b)'
    BY <1>i, <1>m, <1>r DEF Exclusive
  <2>3. \A b \in Actors : actor'[b].pc = "ack" => actor'[b].key \notin DOMAIN waits'
    BY <1>i, <1>k, <1>m DEF Exclusive
  <2>4. \A b \in Actors : Runs(b)' /\ ~actor'[b].shut /\ actor'[b].pc # "ack" => actor'[b].key \notin Range(ended')
    BY <1>i, <1>e, <1>f, <1>m, <1>r DEF Exclusive
  <2>5. \A t \in Tellers : actor'[t].todo \subseteq DOMAIN waits'
    BY <1>i, <1>c, <1>k, <1>m DEF Exclusive
  <2> QED
    BY <2>1, <2>2, <2>3, <2>4, <2>5 DEF Exclusive, Runs
<1>4. Countable' /\ KeptAccounted'
  BY <1>i, <1>e, <1>k DEF Countable, Distinct, KeptAccounted
<1>5. FoldsFresh'
  BY <1>i, <1>m, <1>u DEF FoldsFresh
<1>6. Wakes'
  <2>1. \A k \in DOMAIN waits' : ~TurnFree(k) => ~TurnFree(k)'
    BY <1>k, <1>m, <1>r DEF TurnFree, Runs
  <2>2. \A t \in Tellers, k \in DOMAIN waits' : Will(t, k) => Will(t, k)'
    BY <1>c, <1>k, <1>m, <1>u DEF Will
  <2> QED
    BY <1>i, <1>k, <1>u, <2>1, <2>2 DEF Wakes
<1> QED
  BY <1>1, <1>2, <1>3, <1>4, <1>5, <1>6 DEF Rest

(* The mediator is told, or answers, with no attempt and no wait touched.  *)
LEMMA AnswerKeeps ==
    ASSUME ReceiverInv, NEW e, ended' = ended \/ ended' = RemoveFirst(ended, e),
           Pickups \ queued' \subseteq recorded \cup discarded,
           acking' \subseteq recorded \cup discarded,
           UNCHANGED <<actor, vault, discarded, kept>>
    PROVE  Rest'
<1>i. TypeOK /\ Turns /\ Traced /\ Exclusive /\ Countable /\ KeptAccounted /\ FoldsFresh /\ Wakes
  BY DEF ReceiverInv
<1>u. UNCHANGED <<standing, untold, recorded, discarded, waits, held, heldBytes, actor>>
  BY DEF vault, kept
<1>e. ended' \in Seq(Deliveries) /\ Distinct(ended') /\ Len(ended') <= EndedKept /\ Range(ended') \subseteq Range(ended)
  <2>1. ended \in Seq(Deliveries) /\ Distinct(ended) /\ Len(ended) <= EndedKept
    BY <1>i DEF TypeOK, Countable, Distinct, KeptAccounted
  <2>2. CASE ended' = RemoveFirst(ended, e)
    <3>1. /\ ended' \in Seq(Deliveries) /\ Distinct(ended') /\ Len(ended') <= Len(ended)
          /\ Range(ended') = Range(ended) \ {e}
      BY <2>1, <2>2, ForgottenFacts
    <3>2. Len(ended) \in Nat /\ Len(ended') \in Nat /\ EndedKept \in Nat
      BY <2>1, <3>1, ReceiverAssumption
    <3> QED
      BY <2>1, <3>1, <3>2
  <2> QED
    BY <2>1, <2>2
<1>1. Turns' /\ FoldsFresh'
  BY <1>i, <1>u DEF Turns, Runs, FoldsFresh
<1>2. Traced'
  BY <1>i, <1>e, <1>u DEF Traced, NothingDropped
<1>3. Exclusive'
  BY <1>i, <1>e, <1>u DEF Exclusive, Runs
<1>4. Countable' /\ KeptAccounted'
  BY <1>i, <1>e, <1>u DEF Countable, Distinct, KeptAccounted
<1>5. Wakes'
  BY <1>i, <1>u DEF Wakes, TurnFree, Will
<1> QED
  BY <1>1, <1>2, <1>3, <1>4, <1>5 DEF Rest

(* A delivery goes on waiting, and its bytes are held where they fit.      *)
LEMMA WaitsOnKeeps ==
    ASSUME ReceiverInv, NEW d \in DOMAIN waits, Hold(d),
           UNCHANGED <<queued, acking, vault, discarded, waits, ended, actor>>
    PROVE  Rest'
<1>i. TypeOK /\ Turns /\ Traced /\ Exclusive /\ Countable /\ KeptAccounted /\ FoldsFresh /\ Wakes
  BY DEF ReceiverInv
<1>u. UNCHANGED <<standing, untold, recorded, discarded, waits, actor, queued, acking, ended>>
  BY DEF vault
<1>h. /\ held' \subseteq held \cup {d}
      /\ heldBytes' = SumFunctionOnSet(SizeOf, held') /\ heldBytes' <= MaxHeldBytes
  <2>1. d \in Deliveries
    BY <1>i DEF TypeOK
  <2> QED
    BY <1>i, <2>1, HoldFacts
<1>1. Turns' /\ FoldsFresh' /\ Traced' /\ Exclusive' /\ Countable'
  BY <1>i, <1>u DEF Turns, Runs, FoldsFresh, Traced, NothingDropped, Exclusive, Countable
<1>2. KeptAccounted'
  BY <1>i, <1>h, <1>u DEF KeptAccounted
<1>3. Wakes'
  BY <1>i, <1>u DEF Wakes, TurnFree, Will
<1> QED
  BY <1>1, <1>2, <1>3 DEF Rest

(* An attempt defers its delivery, with no change told of it missed.       *)
LEMMA DeferKeeps ==
    ASSUME ReceiverInv, NEW a \in Actors, Defer(a)
    PROVE  Rest'
<1> DEFINE d == actor[a].key
           W == [k \in DOMAIN waits \cup {d} |->
                    IF k = d THEN [seen |-> actor[a].fold[RecipientOf[d]], retry |-> FALSE]
                    ELSE waits[k]]
<1>i. TypeOK /\ Turns /\ Traced /\ Exclusive /\ Countable /\ KeptAccounted /\ FoldsFresh /\ Wakes
  BY DEF ReceiverInv
<1>c. "ack" \in Running /\ "idle" \notin Running /\ "compare" \notin Running /\ "defer" \in Running
      /\ Tellers \subseteq Actors /\ "pickup" \in Actors
  BY DEF Running, Actors
<1>p. actor[a].pc = "defer" /\ ~actor[a].shut /\ ~actor[a].stirred /\ Runs(a)
  BY <1>c DEF Defer, At, Runs
<1>d. d \in Deliveries /\ \A b \in Actors : Runs(b) /\ actor[b].key = d => b = a
  BY <1>i, <1>p DEF Turns
<1>u. UNCHANGED <<mediator, vault, discarded, ended>>
  BY DEF Defer
<1>1. CASE Leave(a)
  BY <1>1, <1>p, <1>u, LeaveKeeps
<1>2. CASE /\ d \in DOMAIN waits \/ Cardinality(DOMAIN waits) < MaxWaiting
           /\ waits' = W
           /\ Hold(d)
           /\ actor' = Done(Unseen(d), a)
  <2>k. /\ DOMAIN waits' = DOMAIN waits \cup {d}
        /\ \A k \in DOMAIN waits \ {d} : waits'[k] = waits[k]
        /\ waits'[d].seen = actor[a].fold[RecipientOf[d]]
    BY <1>2
  <2>h. /\ held' \subseteq held \cup {d}
        /\ heldBytes' = SumFunctionOnSet(SizeOf, held') /\ heldBytes' <= MaxHeldBytes
    BY <1>2, <1>d, <1>i, HoldFacts
  <2>n. IsFiniteSet(DOMAIN waits') /\ Cardinality(DOMAIN waits') <= MaxWaiting
    <3>1. /\ IsFiniteSet(DOMAIN waits \cup {d})
          /\ Cardinality(DOMAIN waits \cup {d}) = IF d \in DOMAIN waits THEN Cardinality(DOMAIN waits)
                                                  ELSE Cardinality(DOMAIN waits) + 1
      BY <1>i, FS_AddElement DEF Countable
    <3>2. Cardinality(DOMAIN waits) \in Nat /\ MaxWaiting \in Nat /\ Cardinality(DOMAIN waits) <= MaxWaiting
      BY <1>i, HeldSummed, FS_CardinalityType DEF KeptAccounted
    <3>3. d \in DOMAIN waits \/ Cardinality(DOMAIN waits) < MaxWaiting
      BY <1>2
    <3>4. Cardinality(DOMAIN waits \cup {d}) <= MaxWaiting
      BY <3>1, <3>2, <3>3
    <3> QED
      BY <2>k, <3>1, <3>4
  <2>m. /\ Others(a, {d}) /\ Stops(a, {d})
        /\ UNCHANGED <<queued, acking, standing, untold, recorded, discarded, ended>>
    BY <1>2, <1>i, <1>u, DoneFacts, LeftMoves DEF mediator, vault
  <2>r. \A b \in Actors : Runs(b)' <=> Runs(b) /\ b # a
    BY <1>c, <2>m DEF Runs, Others, Stops
  <2>f. \A b \in Actors : Runs(b)' => actor'[b].key # d /\ actor'[b].key = actor[b].key
    BY <1>d, <2>m, <2>r DEF Others
  <2>1. Turns'
    BY <1>i, <1>c, <2>m, <2>r DEF Turns, Others
  <2>2. Traced'
    BY <1>i, <1>c, <2>m, <2>r DEF Traced, NothingDropped, Others, Stops
  <2>3. Exclusive'
    <3>1. \A b \in Actors : Runs(b)' /\ actor'[b].shut => actor'[b].key \notin DOMAIN waits' /\ actor'[b].todo = {}
      BY <1>i, <2>f, <2>k, <2>m, <2>r DEF Exclusive, Others
    <3>2. \A b \in Actors : actor'[b].shut => Runs(b)'
      BY <1>i, <2>m, <2>r DEF Exclusive, Others, Stops
    <3>3. \A b \in Actors : actor'[b].pc = "ack" => Runs(b)' /\ b # a
      BY <1>c, <2>m DEF Runs, Stops
    <3>4. \A b \in Actors : actor'[b].pc = "ack" => actor'[b].key \notin DOMAIN waits'
      BY <1>i, <2>f, <2>k, <2>m, <3>3 DEF Exclusive, Others
    <3>5. \A b \in Actors : Runs(b)' /\ ~actor'[b].shut /\ actor'[b].pc # "ack" => actor'[b].key \notin Range(ended')
      BY <1>i, <2>m, <2>r DEF Exclusive, Others
    <3>6. \A t \in Tellers : actor'[t].todo \subseteq DOMAIN waits'
      BY <1>i, <1>c, <2>k, <2>m DEF Exclusive, Others, Stops
    <3> QED
      BY <3>1, <3>2, <3>4, <3>5, <3>6 DEF Exclusive, Runs
  <2>4. Countable'
    BY <1>i, <2>m, <2>n DEF Countable
  <2>5. KeptAccounted'
    <3>1. d \notin Range(ended)
      BY <1>i, <1>p DEF Exclusive
    <3>2. held' \subseteq DOMAIN waits'
      BY <1>i, <2>h, <2>k DEF KeptAccounted
    <3> QED
      BY <1>i, <2>h, <2>k, <2>m, <2>n, <3>1, <3>2 DEF KeptAccounted
  <2>6. FoldsFresh'
    BY <1>i, <2>m DEF FoldsFresh, Others, Stops
  <2>7. Wakes'
    <3>1. \A k \in DOMAIN waits \ {d} : ~TurnFree(k) => ~TurnFree(k)'
      BY <1>d, <2>m DEF TurnFree, Others
    <3>2. \A t \in Tellers, k \in DOMAIN waits \ {d} : Will(t, k) => Will(t, k)'
      BY <1>c, <1>p, <2>m DEF Will, Others, Stops
    <3>3. untold \/ waits'[d].seen = standing[RecipientOf[d]]
      BY <1>i, <1>p, <2>k DEF FoldsFresh
    <3> QED
      BY <1>i, <2>k, <2>m, <3>1, <3>2, <3>3 DEF Wakes
  <2> QED
    BY <2>1, <2>2, <2>3, <2>4, <2>5, <2>6, <2>7 DEF Rest
<1> QED
  BY <1>1, <1>2 DEF Defer

-----------------------------------------------------------------------------
(* The vault changes and the receiver is told.                             *)
LEMMA ChangeKeeps ==
    ASSUME ReceiverInv, NEW r \in Recipients, Change(r)
    PROVE  Rest'
<1>i. TypeOK /\ Turns /\ Traced /\ Exclusive /\ Countable /\ KeptAccounted /\ FoldsFresh /\ Wakes
  BY DEF ReceiverInv
<1>u. UNCHANGED <<recorded, discarded, waits, held, heldBytes, actor, queued, acking, ended>> /\ untold' = TRUE
  BY DEF Change, mediator, kept
<1>1. Turns' /\ Traced' /\ Exclusive' /\ Countable' /\ KeptAccounted'
  BY <1>i, <1>u DEF Turns, Runs, Traced, NothingDropped, Exclusive, Countable, KeptAccounted
<1>2. FoldsFresh' /\ Wakes'
  BY <1>i, <1>u DEF FoldsFresh, Wakes
<1> QED
  BY <1>1, <1>2 DEF Rest

(* Every attempt is stirred, and a teller takes on every wait there is.    *)
LEMMA TellKeeps ==
    ASSUME ReceiverInv, NEW t \in Tellers, Tell(t)
    PROVE  Rest'
<1>i. TypeOK /\ Turns /\ Traced /\ Exclusive /\ Countable /\ KeptAccounted /\ FoldsFresh /\ Wakes
  BY DEF ReceiverInv
<1>c. t \in Actors /\ "pickup" \in Actors /\ Tellers \subseteq Actors /\ t # "pickup" /\ "ack" \in Running
      /\ {"ring", "key", "receipt", "defer"} \subseteq Running
      /\ "idle" \notin Running /\ "reading" \notin Running
  BY ReceiverAssumption DEF Actors, Running
<1>u. UNCHANGED <<recorded, discarded, waits, held, heldBytes, queued, acking, ended, standing>> /\ actor[t].pc = "idle"
  BY DEF Tell, mediator, kept
<1>m. \A b \in Actors :
        /\ actor'[b].read = actor[b].read \/ b = t
        /\ actor'[b].shut = actor[b].shut
        /\ actor'[b].todo = actor[b].todo \/ b = t
        /\ Runs(b)' <=> Runs(b)
        /\ actor'[b].pc = "ack" <=> actor[b].pc = "ack"
        /\ Runs(b) => /\ actor'[b].pc = actor[b].pc /\ actor'[b].key = actor[b].key
                      /\ actor'[b].fold = actor[b].fold /\ actor'[b].stirred
  <2>1. ASSUME NEW b \in Actors, b # t \/ waits = <<>>
        PROVE  actor'[b] = [actor[b] EXCEPT !.stirred = @ \/ actor[b].pc \in Running]
    BY <2>1 DEF Tell
  <2>2. waits # <<>> => actor'[t] = [Idle EXCEPT !.pc = "reading", !.todo = DOMAIN waits]
    BY <1>c DEF Tell
  <2>3. ~actor[t].shut
    BY <1>c, <1>i, <1>u DEF Exclusive, Runs
  <2>4. ASSUME NEW b \in Actors, b # t \/ waits = <<>>
        PROVE  /\ actor'[b].read = actor[b].read /\ actor'[b].shut = actor[b].shut
               /\ actor'[b].todo = actor[b].todo /\ actor'[b].pc = actor[b].pc
               /\ actor'[b].key = actor[b].key /\ actor'[b].fold = actor[b].fold
               /\ actor[b].pc \in Running => actor'[b].stirred
    BY <1>i, <2>1, <2>4, ActorFacts
  <2>5. waits # <<>> => /\ actor'[t].pc = "reading" /\ ~actor'[t].shut
    BY <2>2 DEF Idle
  <2>6. actor'[t].shut \in BOOLEAN /\ actor[t].shut \in BOOLEAN
    <3>1. actor[t].shut \in BOOLEAN
      BY <1>c, <1>i, ActorFacts DEF ActorType
    <3>2. CASE waits = <<>>
      BY <1>c, <2>4, <3>1, <3>2
    <3>3. CASE waits # <<>>
      BY <2>2, <3>1, <3>3 DEF Idle
    <3> QED
      BY <3>1, <3>2, <3>3
  <2> QED
    BY <1>c, <1>u, <2>3, <2>4, <2>5, <2>6 DEF Runs
<1>t. waits # <<>> => actor'[t].read = None /\ actor'[t].todo = DOMAIN waits
  BY <1>c DEF Tell, Idle
<1>1. Turns'
  BY <1>i, <1>c, <1>m DEF Turns
<1>2. Traced'
  BY <1>i, <1>c, <1>m, <1>u DEF Traced, NothingDropped, Runs
<1>3. Exclusive'
  <2>1. /\ \A b \in Actors : Runs(b) => b # t
        /\ \A b \in Actors : actor[b].shut => Runs(b)
    BY <1>c, <1>i, <1>u DEF Runs, Exclusive
  <2>2. \A b \in Actors : Runs(b)' /\ actor'[b].shut => actor'[b].key \notin DOMAIN waits' /\ actor'[b].todo = {}
    BY <1>i, <1>m, <1>u, <2>1 DEF Exclusive
  <2>3. \A b \in Actors : actor'[b].shut => Runs(b)'
    BY <1>m, <2>1
  <2>4. \A b \in Actors : actor'[b].pc = "ack" => actor'[b].key \notin DOMAIN waits'
    BY <1>i, <1>c, <1>m, <1>u DEF Exclusive, Runs
  <2>5. \A b \in Actors : Runs(b)' /\ ~actor'[b].shut /\ actor'[b].pc # "ack" => actor'[b].key \notin Range(ended')
    BY <1>i, <1>m, <1>u DEF Exclusive
  <2>6. \A b \in Tellers : actor'[b].todo \subseteq DOMAIN waits'
    <3>1. waits = <<>> => actor'[t].todo = actor[t].todo
      BY <1>c, <1>i, ActorFacts DEF Tell
    <3> QED
      BY <1>i, <1>c, <1>m, <1>t, <1>u, <3>1 DEF Exclusive
  <2> QED
    BY <2>2, <2>3, <2>4, <2>5, <2>6 DEF Exclusive, Runs
<1>4. Countable' /\ KeptAccounted'
  BY <1>i, <1>u DEF Countable, KeptAccounted
<1>5. FoldsFresh'
  <2>1. ASSUME NEW b \in Actors, actor'[b].pc \in {"ring", "key", "receipt", "defer"}
        PROVE  actor'[b].fold \in [Recipients -> Standing] /\ actor'[b].stirred
    <3>1. Runs(b)'
      BY <1>c, <2>1 DEF Runs
    <3>2. Runs(b) /\ actor'[b].pc = actor[b].pc /\ actor'[b].fold = actor[b].fold /\ actor'[b].stirred
      BY <1>m, <3>1
    <3> QED
      BY <1>i, <2>1, <3>2 DEF FoldsFresh
  <2> QED
    BY <2>1 DEF FoldsFresh
<1>6. Wakes'
  <2>1. ASSUME NEW d \in DOMAIN waits PROVE Will(t, d)'
    <3>1. waits # <<>>
      OBVIOUS
    <3> QED
      BY <1>t, <3>1 DEF Will
  <2> QED
    BY <1>u, <2>1 DEF Wakes
<1> QED
  BY <1>1, <1>2, <1>3, <1>4, <1>5, <1>6 DEF Rest

\* Teller t, at no delivery, goes on: every actor keeps its delivery.
Compare(t) ==
    /\ \A b \in Actors \ {t} : actor'[b] = actor[b]
    /\ ~Runs(t) /\ ~Runs(t)' /\ ~actor'[t].shut
    /\ actor'[t].todo \subseteq actor[t].todo

(* A teller that reads, or has compared a wait, goes on.                   *)
LEMMA CompareKeeps ==
    ASSUME ReceiverInv, NEW t \in Tellers, Compare(t),
           UNCHANGED <<queued, acking, vault, discarded, held, heldBytes, ended>>,
           DOMAIN waits' = DOMAIN waits, Wakes'
    PROVE  Rest'
<1>i. TypeOK /\ Turns /\ Traced /\ Exclusive /\ Countable /\ KeptAccounted /\ FoldsFresh /\ Wakes
  BY DEF ReceiverInv
<1>c. t \in Actors /\ "pickup" \in Actors /\ Tellers \subseteq Actors /\ "ack" \in Running
      /\ {"ring", "key", "receipt", "defer"} \subseteq Running
  BY DEF Actors, Running
<1>u. UNCHANGED <<recorded, discarded, held, heldBytes, queued, acking, ended, standing, untold>>
  BY DEF vault
<1>m. \A b \in Actors : (Runs(b)' \/ Runs(b) \/ b # t) => actor'[b] = actor[b] /\ b # t
  BY DEF Compare
<1>r. \A b \in Actors : Runs(b)' <=> Runs(b)
  BY DEF Compare, Runs
<1>p. actor'[t].pc \notin Running
  BY DEF Compare, Runs
<1>1. Turns'
  BY <1>i, <1>c, <1>m, <1>r DEF Turns
<1>2. Traced'
  BY <1>i, <1>c, <1>m, <1>p, <1>u DEF Traced, NothingDropped
<1>3. Exclusive'
  <2>1. \A b \in Actors : Runs(b)' /\ actor'[b].shut => actor'[b].key \notin DOMAIN waits' /\ actor'[b].todo = {}
    BY <1>i, <1>m, <1>r DEF Exclusive
  <2>2. \A b \in Actors : actor'[b].shut => Runs(b)'
    BY <1>i, <1>m, <1>r DEF Exclusive, Compare
  <2>3. \A b \in Actors : actor'[b].pc = "ack" => actor'[b].key \notin DOMAIN waits'
    BY <1>i, <1>c, <1>m, <1>p DEF Exclusive
  <2>4. \A b \in Actors : Runs(b)' /\ ~actor'[b].shut /\ actor'[b].pc # "ack" => actor'[b].key \notin Range(ended')
    BY <1>i, <1>m, <1>r, <1>u DEF Exclusive
  <2>5. \A b \in Tellers : actor'[b].todo \subseteq DOMAIN waits'
    BY <1>i, <1>c DEF Exclusive, Compare
  <2> QED
    BY <2>1, <2>2, <2>3, <2>4, <2>5 DEF Exclusive, Runs
<1>4. Countable' /\ KeptAccounted'
  BY <1>i, <1>u DEF Countable, KeptAccounted
<1>5. FoldsFresh'
  BY <1>i, <1>c, <1>m, <1>p, <1>u DEF FoldsFresh
<1> QED
  BY <1>1, <1>2, <1>3, <1>4, <1>5 DEF Rest

LEMMA TellReadsKeeps ==
    ASSUME ReceiverInv, NEW t \in Tellers, TellReads(t)
    PROVE  Rest'
<1>i. TypeOK /\ Exclusive /\ Wakes
  BY DEF ReceiverInv
<1>c. t \in Actors /\ "compare" \notin Running /\ "reading" \notin Running
  BY DEF Actors, Running
<1>u. UNCHANGED <<queued, acking, vault, discarded, waits, held, heldBytes, ended, standing, untold>>
      /\ actor[t].pc = "reading" /\ ~actor[t].shut
  BY DEF TellReads, At, mediator, kept, vault
<1>a. actor' = [actor EXCEPT ![t].pc = "compare", ![t].read = standing] \/ actor' = [actor EXCEPT ![t].pc = "compare"]
  BY DEF TellReads, Goes
<1>m. /\ \A b \in Actors \ {t} : actor'[b] = actor[b]
      /\ actor'[t].pc = "compare" /\ actor'[t].shut = actor[t].shut /\ actor'[t].todo = actor[t].todo
      /\ actor'[t].read = standing \/ actor'[t].read = actor[t].read
  BY <1>a, <1>c, <1>i, ActorFacts
<1>1. Compare(t)
  BY <1>c, <1>m, <1>u DEF Compare, Runs
<1>2. Wakes'
  <2>1. \A k \in DOMAIN waits : ~TurnFree(k) => ~TurnFree(k)'
    <3>1. actor[t].pc \notin Running
      BY <1>c, <1>u
    <3> QED
      BY <1>m, <3>1 DEF TurnFree
  <2>2. \A b \in Tellers, k \in DOMAIN waits : Will(b, k) => Will(b, k)'
    BY <1>m, <1>u DEF Will, Actors
  <2> QED
    BY <1>i, <1>u, <2>1, <2>2 DEF Wakes
<1> QED
  BY <1>1, <1>2, <1>u, CompareKeeps

LEMMA ToldKeeps ==
    ASSUME ReceiverInv, NEW t \in Tellers, Told(t)
    PROVE  Rest'
<1>i. TypeOK /\ Exclusive /\ Wakes
  BY DEF ReceiverInv
<1>c. t \in Actors /\ "compare" \notin Running /\ "idle" \notin Running
  BY DEF Actors, Running
<1>u. UNCHANGED <<queued, acking, vault, discarded, waits, held, heldBytes, ended, standing, untold>>
      /\ actor[t].pc = "compare" /\ actor[t].todo = {}
  BY DEF Told, At, mediator, kept, vault
<1>m. (\A b \in Actors \ {t} : actor'[b] = actor[b]) /\ actor'[t] = Idle
  BY <1>c, <1>i, ActorFacts DEF Told
<1>1. Compare(t)
  BY <1>c, <1>m, <1>u DEF Compare, Runs, Idle
<1>2. Wakes'
  <2>1. \A k \in DOMAIN waits : ~TurnFree(k) => ~TurnFree(k)'
    <3>1. actor[t].pc \notin Running
      BY <1>c, <1>u
    <3> QED
      BY <1>m, <3>1 DEF TurnFree
  <2>2. \A b \in Tellers, k \in DOMAIN waits : Will(b, k) => Will(b, k)'
    BY <1>m, <1>u DEF Will, Actors
  <2> QED
    BY <1>i, <1>u, <2>1, <2>2 DEF Wakes
<1> QED
  BY <1>1, <1>2, <1>u, CompareKeeps

\* t has compared the wait of d: the others keep all they had.
LEMMA TriedFacts ==
    ASSUME TypeOK, NEW t \in Tellers, NEW d, actor' = Tried(t, d)
    PROVE  /\ \A b \in Actors \ {t} : actor'[b] = actor[b]
           /\ actor'[t].pc = actor[t].pc /\ actor'[t].shut = actor[t].shut
           /\ actor'[t].read = actor[t].read /\ actor'[t].todo = actor[t].todo \ {d}
<1>1. t \in Actors
  BY DEF Actors
<1> QED
  BY <1>1, ActorFacts DEF Tried

LEMMA UnchangedKeeps ==
    ASSUME ReceiverInv, NEW t \in Tellers, NEW d \in Deliveries, Unchanged(t, d)
    PROVE  Rest'
<1>i. TypeOK /\ Exclusive /\ Wakes
  BY DEF ReceiverInv
<1>c. t \in Actors /\ "compare" \notin Running
  BY DEF Actors, Running
<1>u. /\ UNCHANGED <<queued, acking, vault, discarded, waits, held, heldBytes, ended, standing, untold>>
      /\ actor[t].pc = "compare" /\ ~actor[t].shut
      /\ actor[t].read # None /\ actor[t].read[RecipientOf[d]] = waits[d].seen
  BY DEF Unchanged, Compares, At, Same, mediator, kept, vault
<1>m. /\ \A b \in Actors \ {t} : actor'[b] = actor[b]
      /\ actor'[t].pc = actor[t].pc /\ actor'[t].shut = actor[t].shut
      /\ actor'[t].read = actor[t].read /\ actor'[t].todo = actor[t].todo \ {d}
  BY <1>i, TriedFacts DEF Unchanged
<1>1. Compare(t)
  BY <1>c, <1>m, <1>u DEF Compare, Runs
<1>2. Wakes'
  <2>1. \A k \in DOMAIN waits : ~TurnFree(k) => ~TurnFree(k)'
    <3>1. actor[t].pc \notin Running
      BY <1>c, <1>u
    <3> QED
      BY <1>m, <3>1 DEF TurnFree
  <2>2. \A b \in Tellers, k \in DOMAIN waits : Will(b, k) /\ (k # d \/ b # t) => Will(b, k)'
    BY <1>m, <1>u DEF Will, Actors
  <2>3. Will(t, d) => waits[d].seen = standing[RecipientOf[d]]
    BY <1>u DEF Will
  <2> QED
    BY <1>i, <1>u, <2>1, <2>2, <2>3 DEF Wakes
<1> QED
  BY <1>1, <1>2, <1>u, CompareKeeps

LEMMA RetryKeeps ==
    ASSUME ReceiverInv, NEW t \in Tellers, NEW d \in Deliveries, Retry(t, d)
    PROVE  Rest'
<1>i. TypeOK /\ Exclusive /\ KeptAccounted /\ Wakes
  BY DEF ReceiverInv
<1>c. t \in Actors /\ "compare" \notin Running /\ t # "pickup"
  BY ReceiverAssumption DEF Actors, Running
<1>u. /\ UNCHANGED <<queued, acking, vault, discarded, held, heldBytes, ended, standing, untold>>
      /\ actor[t].pc = "compare" /\ ~actor[t].shut /\ d \in actor[t].todo /\ TurnFree(d)
  BY DEF Retry, Compares, At, mediator, kept, vault
<1>w. d \in DOMAIN waits
  BY <1>i, <1>u DEF Exclusive
<1>1. CASE d \in held
  <2>a. actor' = [Tried(t, d) EXCEPT ![t].pc = "scan", ![t].key = d] /\ UNCHANGED waits
    BY <1>1 DEF Retry
  <2>m. /\ \A b \in Actors \ {t} : actor'[b] = actor[b]
        /\ actor'[t].pc = "scan" /\ actor'[t].key = d /\ actor'[t].shut = actor[t].shut
        /\ actor'[t].read = actor[t].read /\ actor'[t].todo = actor[t].todo \ {d}
    <3>1. Tried(t, d) \in [Actors -> ActorType]
      <4>1. [actor[t] EXCEPT !.todo = @ \ {d}] \in ActorType
        BY <1>c, <1>i, ActorFacts DEF ActorType
      <4> QED
        BY <1>i, <4>1 DEF Tried, TypeOK
    <3>2. Tried(t, d)[t] = [actor[t] EXCEPT !.todo = @ \ {d}]
          /\ \A b \in Actors \ {t} : Tried(t, d)[b] = actor[b]
      BY <1>c, <1>i DEF Tried, TypeOK
    <3> QED
      BY <1>c, <1>i, <2>a, <3>1, <3>2, ActorFacts
  <2>o. Others(t, {})
    <3>1. \A b \in Actors : actor[b].todo \ {} = actor[b].todo
      OBVIOUS
    <3> QED
      BY <2>m, <3>1 DEF Others
  <2>t. TakesUp(t, d)
    BY <1>u, <2>m DEF TakesUp
  <2>r. ~Runs(t) /\ d \notin Range(ended)
    BY <1>c, <1>i, <1>u, <1>w DEF Runs, KeptAccounted
  <2> QED
    BY <1>c, <1>u, <2>a, <2>o, <2>r, <2>t, TakeUpKeeps DEF kept
<1>2. CASE d \notin held
  <2>a. actor' = Tried(t, d) /\ waits' = [waits EXCEPT ![d].retry = TRUE]
    BY <1>2 DEF Retry
  <2>m. /\ \A b \in Actors \ {t} : actor'[b] = actor[b]
        /\ actor'[t].pc = actor[t].pc /\ actor'[t].shut = actor[t].shut
        /\ actor'[t].read = actor[t].read /\ actor'[t].todo = actor[t].todo \ {d}
    BY <1>i, <2>a, TriedFacts
  <2>w. DOMAIN waits' = DOMAIN waits /\ waits'[d].retry /\ \A k \in DOMAIN waits \ {d} : waits'[k] = waits[k]
    <3>1. waits'[d] = [waits[d] EXCEPT !.retry = TRUE]
      BY <1>w, <2>a
    <3>2. waits[d] \in [seen : Standing, retry : BOOLEAN]
      BY <1>i, <1>w DEF TypeOK
    <3> QED
      BY <2>a, <3>1, <3>2
  <2>1. Compare(t)
    BY <1>c, <1>u, <2>m DEF Compare, Runs
  <2>2. Wakes'
    <3>1. \A k \in DOMAIN waits : ~TurnFree(k) => ~TurnFree(k)'
      <4>1. actor[t].pc \notin Running
        BY <1>c, <1>u
      <4> QED
        BY <2>m, <4>1 DEF TurnFree
    <3>2. \A b \in Tellers, k \in DOMAIN waits \ {d} : Will(b, k) => Will(b, k)'
      BY <1>u, <2>m DEF Will, Actors
    <3> QED
      BY <1>i, <1>u, <2>w, <3>1, <3>2 DEF Wakes
  <2> QED
    BY <1>u, <2>1, <2>2, <2>w, CompareKeeps
<1> QED
  BY <1>1, <1>2

(* A receiver closed or a process ended keeps nothing.                     *)
LEMMA ForgetsKeeps ==
    ASSUME ReceiverInv, Close \/ Crash
    PROVE  Rest'
<1>i. TypeOK /\ Turns /\ Traced /\ Exclusive /\ FoldsFresh
  BY DEF ReceiverInv
<1>c. "pickup" \in Actors /\ Tellers \subseteq Actors /\ "ack" \in Running /\ "idle" \notin Running
      /\ {"ring", "key", "receipt", "defer"} \subseteq Running
  BY DEF Actors, Running
<1>f. Forgets
  BY DEF Close, Crash
<1>u. /\ DOMAIN waits' = {} /\ held' = {} /\ heldBytes' = 0 /\ ended' = <<>> /\ acking' = {}
      /\ UNCHANGED <<recorded, discarded, standing, untold>>
      /\ queued \ queued' \subseteq acking
  BY <1>f DEF Forgets, vault
<1>m. \A b \in Actors :
        \/ /\ Runs(b) /\ actor'[b] = [actor[b] EXCEPT !.shut = TRUE, !.todo = {}]
        \/ actor'[b] = Idle
  <2>1. CASE Close
    BY <2>1 DEF Close, Runs
  <2>2. CASE Crash
    BY <2>2 DEF Crash
  <2> QED
    BY <2>1, <2>2
<1>n. \A b \in Actors :
        /\ actor'[b].todo = {}
        /\ Runs(b)' \/ actor'[b].shut =>
             /\ Runs(b) /\ Runs(b)' /\ actor'[b].shut
             /\ actor'[b].pc = actor[b].pc /\ actor'[b].key = actor[b].key
             /\ actor'[b].fold = actor[b].fold /\ actor'[b].stirred = actor[b].stirred
  <2>1. ASSUME NEW b \in Actors, actor'[b] = Idle PROVE actor'[b].todo = {} /\ ~Runs(b)' /\ ~actor'[b].shut
    BY <1>c, <2>1 DEF Idle, Runs
  <2>2. ASSUME NEW b \in Actors, Runs(b), actor'[b] = [actor[b] EXCEPT !.shut = TRUE, !.todo = {}]
        PROVE  /\ actor'[b].todo = {}
               /\ Runs(b)' /\ actor'[b].shut
               /\ actor'[b].pc = actor[b].pc /\ actor'[b].key = actor[b].key
               /\ actor'[b].fold = actor[b].fold /\ actor'[b].stirred = actor[b].stirred
    BY <1>i, <2>2, ActorFacts DEF Runs
  <2> QED
    BY <1>m, <2>1, <2>2
<1>1. Turns'
  BY <1>i, <1>c, <1>n DEF Turns
<1>e. Range(ended') = {}
  BY <1>u DEF Range
<1>2. Traced'
  <2>1. \A b \in Actors : actor'[b].pc = "ack" => Runs(b)'
    BY <1>c DEF Runs
  <2>2. \A b \in Actors : actor'[b].pc = "ack" => actor'[b].key \in recorded' \cup discarded'
    BY <1>i, <1>n, <1>u, <2>1 DEF Traced
  <2>3. Pickups \ queued' \subseteq recorded' \cup discarded'
    BY <1>i, <1>u DEF Traced, NothingDropped
  <2> QED
    BY <1>e, <1>u, <2>2, <2>3 DEF Traced, NothingDropped
<1>3. Exclusive'
  <2>1. \A b \in Actors : Runs(b)' /\ actor'[b].shut => actor'[b].key \notin DOMAIN waits' /\ actor'[b].todo = {}
    BY <1>n, <1>u
  <2>2. \A b \in Actors : actor'[b].shut => Runs(b)'
    BY <1>n
  <2>3. \A t \in Tellers : actor'[t].todo \subseteq DOMAIN waits'
    BY <1>c, <1>n
  <2> QED
    BY <1>e, <1>u, <2>1, <2>2, <2>3 DEF Exclusive, Runs
<1>4. Countable' /\ KeptAccounted'
  <2>1. IsFiniteSet(DOMAIN waits') /\ Cardinality(DOMAIN waits') = 0
    BY <1>u, FS_EmptySet
  <2>2. SumFunctionOnSet(SizeOf, {}) = 0
    BY SumEmpty
  <2>3. MaxWaiting \in Nat /\ MaxHeldBytes \in Nat /\ EndedKept \in Nat /\ Len(ended') = 0
    BY <1>u, ReceiverAssumption
  <2> QED
    BY <1>e, <1>u, <2>1, <2>2, <2>3 DEF Countable, KeptAccounted
<1>5. FoldsFresh'
  <2>1. \A b \in Actors : actor'[b].pc \in {"ring", "key", "receipt", "defer"} => Runs(b)'
    BY <1>c DEF Runs
  <2> QED
    BY <1>i, <1>n, <1>u, <2>1 DEF FoldsFresh
<1>6. Wakes'
  BY <1>u DEF Wakes
<1> QED
  BY <1>1, <1>2, <1>3, <1>4, <1>5, <1>6 DEF Rest

-----------------------------------------------------------------------------
(* Every step.                                                             *)
LEMMA AloneFacts ==
    ASSUME NEW a \in Actors, \A b \in Actors \ {a} : actor'[b] = actor[b]
    PROVE  Others(a, {})
<1>1. \A b \in Actors : actor[b].todo \ {} = actor[b].todo
  OBVIOUS
<1> QED
  BY <1>1 DEF Others

\* An attempt goes on by its program counter alone.
LEMMA GoesFacts ==
    ASSUME ReceiverInv, NEW a \in Actors, actor[a].pc \in {"ring", "key", "receipt"},
           NEW pc \in {"key", "defer", "receipt"}, Goes(a, pc)
    PROVE  Others(a, {}) /\ GoesOn(a) /\ Runs(a) /\ actor[a].pc # "ack"
<1>1. /\ \A b \in Actors \ {a} : actor'[b] = actor[b]
      /\ actor'[a] = [actor[a] EXCEPT !.pc = pc]
  BY ActorFacts DEF Goes, ReceiverInv
<1>2. /\ actor'[a].pc = pc /\ actor'[a].key = actor[a].key /\ actor'[a].shut = actor[a].shut
      /\ actor'[a].todo = actor[a].todo /\ actor'[a].read = actor[a].read
      /\ actor'[a].fold = actor[a].fold /\ actor'[a].stirred = actor[a].stirred
  BY <1>1, ActorFacts DEF ReceiverInv
<1>3. FoldsFresh
  BY DEF ReceiverInv
<1> QED
  BY <1>1, <1>2, <1>3, AloneFacts DEF GoesOn, FoldsFresh, Running, Runs

LEMMA AttemptKeeps ==
    ASSUME ReceiverInv, NEW a \in Actors, Attempt(a)
    PROVE  Rest'
<1>i. TypeOK /\ Turns /\ Traced /\ Exclusive /\ FoldsFresh
  BY DEF ReceiverInv
<1>c. {"scan", "ring", "key", "receipt", "defer", "ack"} = Running
  BY DEF Running
<1>q. Pickups \ queued \subseteq recorded \cup discarded
  BY <1>i DEF Traced, NothingDropped
<1>1. CASE ShutOut(a)
  <2>1. Left(a, {}) /\ Runs(a) /\ actor[a].shut
    BY <1>1, <1>c, <1>i, DoneFacts DEF ShutOut, Runs
  <2>2. UNCHANGED <<queued, acking, vault, discarded, kept, ended>>
    BY <1>1 DEF ShutOut, mediator
  <2> QED
    BY <1>q, <2>1, <2>2, StopKeeps
<1>2. CASE Scan(a)
  <2>1. Runs(a) /\ actor[a].pc = "scan"
    BY <1>2, <1>c DEF Scan, At, Runs
  <2>2. CASE End(a) /\ discarded' = discarded \cup {actor[a].key}
    <3>1. UNCHANGED <<queued, standing, untold, recorded>>
      BY <1>2 DEF Scan, vault
    <3> QED
      BY <2>1, <2>2, <3>1, EndKeeps
  <2>3. CASE /\ \E pc \in {"ring", "defer"} : actor' = [actor EXCEPT ![a].fold = standing, ![a].pc = pc]
             /\ UNCHANGED <<acking, kept, ended, discarded>>
    <3>1. PICK pc \in {"ring", "defer"} : actor' = [actor EXCEPT ![a].fold = standing, ![a].pc = pc]
      BY <2>3
    <3>2. \A b \in Actors \ {a} : actor'[b] = actor[b]
      BY <3>1, <1>i, ActorFacts
    <3>3. actor'[a] = [actor[a] EXCEPT !.fold = standing, !.pc = pc]
      BY <3>1, <1>i, ActorFacts
    <3>4. actor'[a].pc = pc /\ actor'[a].key = actor[a].key /\ actor'[a].shut = actor[a].shut
          /\ actor'[a].todo = actor[a].todo /\ actor'[a].read = actor[a].read
          /\ actor'[a].fold = standing
      BY <3>3, <1>i, ActorFacts
    <3>5. standing \in [Recipients -> Standing]
      BY <1>i DEF TypeOK
    <3>6. GoesOn(a)
      BY <1>c, <3>4, <3>5 DEF GoesOn
    <3> QED
      BY <1>2, <2>1, <2>3, <3>2, <3>6, AloneFacts, GoOnKeeps DEF Scan, vault
  <2>4. CASE /\ actor' = [actor EXCEPT ![a].fold = standing,
                             ![a].pc = IF Verdict(standing[RecipientOf[actor[a].key]]) = "eligible" THEN "ring" ELSE "defer"]
             /\ UNCHANGED <<acking, kept, ended, discarded>>
    BY <2>3, <2>4
  <2> QED
    BY <1>2, <2>2, <2>4 DEF Scan
<1>3. CASE ScanFails(a) \/ ReceiptFails(a)
  BY <1>3, <1>c, LeaveKeeps DEF ScanFails, ReceiptFails, At, Runs
<1>4. CASE Reload(a)
  <2>1. Others(a, {}) /\ GoesOn(a) /\ Runs(a) /\ actor[a].pc # "ack"
    BY <1>4, GoesFacts DEF Reload, At
  <2> QED
    BY <1>4, <2>1, GoOnKeeps DEF Reload, mediator
<1>5. CASE Opens(a)
  <2>1. Runs(a) /\ actor[a].pc = "key" /\ UNCHANGED <<queued, standing, untold, recorded>>
    BY <1>5, <1>c DEF Opens, At, Runs, vault
  <2>2. CASE End(a) /\ discarded' = discarded \cup {actor[a].key}
    BY <2>1, <2>2, EndKeeps
  <2>3. CASE /\ Goes(a, "defer") \/ Goes(a, "receipt")
             /\ UNCHANGED <<acking, kept, ended, discarded>>
    <3>1. Others(a, {}) /\ GoesOn(a)
      BY <2>1, <2>3, GoesFacts
    <3> QED
      BY <2>1, <2>3, <3>1, GoOnKeeps DEF vault
  <2> QED
    BY <1>5, <2>2, <2>3 DEF Opens
<1>6. CASE Receipt(a)
  <2>1. Runs(a) /\ actor[a].pc = "receipt" /\ UNCHANGED <<queued, standing, untold>>
    BY <1>6, <1>c DEF Receipt, Runs
  <2>2. CASE End(a) /\ recorded' = recorded \cup {actor[a].key} /\ UNCHANGED discarded
    BY <2>1, <2>2, EndKeeps
  <2>3. CASE End(a) /\ discarded' = discarded \cup {actor[a].key} /\ UNCHANGED recorded
    BY <2>1, <2>3, EndKeeps
  <2>4. CASE Goes(a, "defer") /\ UNCHANGED <<acking, recorded, discarded, kept, ended>>
    <3>1. Others(a, {}) /\ GoesOn(a)
      BY <2>1, <2>4, GoesFacts
    <3> QED
      BY <2>1, <2>4, <3>1, GoOnKeeps DEF vault
  <2> QED
    BY <1>6, <2>2, <2>3, <2>4 DEF Receipt
<1>7. CASE DeferLooks(a)
  <2>1. Runs(a) /\ actor[a].pc = "defer" /\ UNCHANGED <<mediator, vault, discarded, ended>>
    BY <1>7, <1>c DEF DeferLooks, At, Runs
  <2>2. CASE Leave(a)
    BY <2>1, <2>2, LeaveKeeps
  <2>3. CASE /\ actor' = [actor EXCEPT ![a].stirred = FALSE,
                             ![a].pc = IF standing[RecipientOf[actor[a].key]] # actor[a].fold[RecipientOf[actor[a].key]]
                                       THEN "scan" ELSE @]
             /\ UNCHANGED kept
    <3>1. \A b \in Actors \ {a} : actor'[b] = actor[b]
      BY <2>3, <1>i, ActorFacts
    <3>2. actor'[a] = [actor[a] EXCEPT !.stirred = FALSE,
                          !.pc = IF standing[RecipientOf[actor[a].key]] # actor[a].fold[RecipientOf[actor[a].key]]
                                 THEN "scan" ELSE @]
      BY <2>3, <1>i, ActorFacts
    <3>3. /\ actor'[a].key = actor[a].key /\ actor'[a].shut = actor[a].shut
          /\ actor'[a].todo = actor[a].todo /\ actor'[a].read = actor[a].read
          /\ actor'[a].fold = actor[a].fold
          /\ actor'[a].pc = IF standing[RecipientOf[actor[a].key]] # actor[a].fold[RecipientOf[actor[a].key]]
                            THEN "scan" ELSE "defer"
      BY <3>2, <2>1, <1>i, ActorFacts
    <3>4. GoesOn(a)
      BY <1>c, <1>i, <2>1, <3>3 DEF GoesOn, FoldsFresh
    <3> QED
      BY <2>1, <2>3, <3>1, <3>4, AloneFacts, GoOnKeeps DEF mediator
  <2> QED
    BY <1>7, <2>2, <2>3 DEF DeferLooks
<1>8. CASE Defer(a)
  BY <1>8, DeferKeeps
<1>9. CASE DeferShut(a)
  BY <1>9, <1>c, LeaveKeeps DEF DeferShut, Runs
<1> QED
  BY <1>1, <1>2, <1>3, <1>4, <1>5, <1>6, <1>7, <1>8, <1>9 DEF Attempt

LEMMA ComesKeeps ==
    ASSUME ReceiverInv, NEW a \in {"pickup", "post"}, NEW d \in Deliveries,
           ToldAgain(a, d) \/ StillWaits(a, d) \/ Enter(a, d)
    PROVE  Rest'
<1>i. TypeOK /\ Traced
  BY DEF ReceiverInv
<1>c. a \in Actors /\ "idle" \notin Running /\ a \notin Tellers
  BY ReceiverAssumption DEF Actors, Running
<1>q. Pickups \ queued \subseteq recorded \cup discarded
  BY <1>i DEF Traced, NothingDropped
<1>d. /\ actor[a].pc = "idle" /\ TurnFree(d)
      /\ a = "pickup" => d \in Pickups
  BY <1>i DEF ToldAgain, StillWaits, Enter, Comes, TypeOK
<1>1. CASE ToldAgain(a, d)
  <2>1. acking' \subseteq recorded \cup discarded
    BY <1>1, <1>i DEF ToldAgain, Traced
  <2> QED
    BY <1>1, <1>q, <2>1, AnswerKeeps DEF ToldAgain
<1>2. CASE StillWaits(a, d)
  BY <1>2, WaitsOnKeeps DEF StillWaits
<1>3. CASE Enter(a, d)
  <2>1. \A b \in Actors \ {a} : actor'[b] = actor[b]
    BY <1>3, <1>i, ActorFacts DEF Enter
  <2>2. actor'[a] = [Idle EXCEPT !.pc = "scan", !.key = d]
    BY <1>3, <1>c, <1>i, ActorFacts DEF Enter
  <2>3. TakesUp(a, d)
    BY <1>c, <2>2 DEF TakesUp, Idle
  <2>4. ~Runs(a) /\ d \notin Range(ended) /\ UNCHANGED <<queued, acking, vault, discarded, kept, ended>>
    BY <1>3, <1>c, <1>d DEF Enter, Runs
  <2> QED
    BY <1>c, <1>d, <2>1, <2>3, <2>4, AloneFacts, TakeUpKeeps
<1> QED
  BY <1>1, <1>2, <1>3

LEMMA TellingKeeps ==
    ASSUME ReceiverInv, NEW t \in Tellers, Telling(t)
    PROVE  Rest'
<1>i. TypeOK /\ Traced
  BY DEF ReceiverInv
<1>c. t \in Actors /\ "ack" \in Running
  BY DEF Actors, Running
<1>1. CASE RetryAcknowledges(t)
  <2>1. Left(t, {}) /\ Runs(t) /\ actor[t].pc = "ack"
    BY <1>1, <1>c, <1>i, DoneFacts DEF RetryAcknowledges, At, Runs
  <2>2. UNCHANGED <<acking, vault, discarded, kept>>
    BY <1>1 DEF RetryAcknowledges
  <2>3. ended' = ended \/ ended' = RemoveFirst(ended, actor[t].key)
    BY <1>1 DEF RetryAcknowledges
  <2>4. Pickups \ queued' \subseteq recorded \cup discarded
    <3>1. actor[t].key \in recorded \cup discarded /\ Pickups \ queued \subseteq recorded \cup discarded
      BY <1>c, <1>i, <2>1 DEF Traced, NothingDropped
    <3>2. queued \ queued' \subseteq {actor[t].key}
      BY <1>1 DEF RetryAcknowledges
    <3> QED
      BY <3>1, <3>2
  <2> QED
    BY <1>c, <2>1, <2>2, <2>3, <2>4, StopKeeps
<1>2. ASSUME NEW d \in Deliveries, LetGoUnread(t, d) PROVE Rest'
  BY <1>2, DropKeeps DEF LetGoUnread, mediator
<1> QED
  BY <1>1, <1>2, TellKeeps, TellReadsKeeps, ToldKeeps, UnchangedKeeps, RetryKeeps DEF Telling

LEMMA MediatorKeeps ==
    ASSUME ReceiverInv, NEW d \in Pickups, Push(d) \/ Unreadable(d) \/ Acknowledge(d)
    PROVE  Rest'
<1>i. TypeOK /\ Traced
  BY DEF ReceiverInv
<1>q. Pickups \ queued \subseteq recorded \cup discarded /\ acking \subseteq recorded \cup discarded
  BY <1>i DEF Traced, NothingDropped
<1>1. CASE Push(d)
  BY <1>1, <1>q, AnswerKeeps DEF Push
<1>2. CASE Unreadable(d)
  <2>1. d \in Deliveries
    BY DEF Deliveries
  <2>2. /\ TurnFree(d) /\ LetGo(d) /\ actor' = Unseen(d) /\ UNCHANGED <<queued, vault>>
        /\ Remember(d) /\ acking' = acking \cup {d} /\ discarded' = discarded \cup {d}
    BY <1>2 DEF Unreadable, Comes
  <2> QED
    BY <2>1, <2>2, DropKeeps
<1>3. CASE Acknowledge(d)
  <2>1. ended' = ended \/ ended' = RemoveFirst(ended, d)
    BY <1>3 DEF Acknowledge
  <2>2. Pickups \ queued' \subseteq recorded \cup discarded /\ acking' \subseteq recorded \cup discarded
    <3>1. queued \ queued' \subseteq {d} /\ d \in acking /\ acking' \subseteq acking
      BY <1>3 DEF Acknowledge
    <3> QED
      BY <1>q, <3>1
  <2> QED
    BY <1>3, <2>1, <2>2, AnswerKeeps DEF Acknowledge
<1> QED
  BY <1>1, <1>2, <1>3

LEMMA OpenKeeps ==
    ASSUME ReceiverInv, Open \/ UNCHANGED vars
    PROVE  Rest'
<1>1. UNCHANGED <<queued, acking, ended, actor, vault, discarded, kept>>
  BY DEF Open, vars, mediator
<1>2. Pickups \ queued \subseteq recorded \cup discarded /\ acking \subseteq recorded \cup discarded
  BY DEF ReceiverInv, Traced, NothingDropped
<1> QED
  BY <1>1, <1>2, AnswerKeeps

LEMMA ReceiverStep == ReceiverInv /\ [Next]_vars => ReceiverInv'
<1> SUFFICES ASSUME ReceiverInv, [Next]_vars PROVE ReceiverInv'
  OBVIOUS
<1>1. TypeOK'
  <2>1. CASE UNCHANGED vars
    BY <2>1 DEF vars, mediator, vault, kept, TypeOK, ReceiverInv
  <2> QED
    BY <2>1, ReceiverTypeStep
<1>2. Rest'
  BY AttemptKeeps, ComesKeeps, TellingKeeps, MediatorKeeps, ChangeKeeps, ForgetsKeeps,
     OpenKeeps DEF Next
<1> QED
  BY <1>1, <1>2 DEF Rest, ReceiverInv

LEMMA ReceiverInit == Init => ReceiverInv
<1> SUFFICES ASSUME Init PROVE ReceiverInv
  OBVIOUS
<1>i. /\ \A a \in Actors : actor[a] = Idle /\ actor[a].pc = "idle" /\ ~actor[a].shut /\ actor[a].todo = {}
      /\ "idle" \notin Running /\ "ack" \in Running /\ Tellers \subseteq Actors /\ "pickup" \in Actors
  BY DEF Init, Idle, Running, Actors
<1>0. DOMAIN waits = {} /\ Range(ended) = {} /\ Len(ended) = 0 /\ ended \in Seq(Deliveries)
  BY DEF Init, Range
<1>1. TypeOK
  <2>1. Idle \in ActorType
    BY DEF Idle, ActorType
  <2>2. actor \in [Actors -> ActorType]
    BY <2>1 DEF Init
  <2>3. standing \in [Recipients -> Standing] /\ ring \subseteq Recipients
    BY StandingSet DEF Init, Verified
  <2>4. faults \in 0..MaxFaults
    BY ReceiverAssumption DEF Init
  <2> QED
    BY <1>0, <2>2, <2>3, <2>4 DEF Init, TypeOK
<1>2. Turns /\ Traced /\ Exclusive /\ FoldsFresh /\ Wakes
  BY <1>0, <1>i DEF Init, Turns, Runs, Traced, NothingDropped, Exclusive, FoldsFresh, Wakes,
     Running
<1>3. Countable /\ KeptAccounted
  <2>1. IsFiniteSet({}) /\ Cardinality({}) = 0 /\ SumFunctionOnSet(SizeOf, {}) = 0
    BY FS_EmptySet, SumEmpty
  <2>2. MaxWaiting \in Nat /\ MaxHeldBytes \in Nat /\ EndedKept \in Nat
    BY ReceiverAssumption
  <2> QED
    BY <1>0, <2>1, <2>2 DEF Init, Countable, KeptAccounted
<1> QED
  BY <1>1, <1>2, <1>3 DEF ReceiverInv

(* In every behaviour of the receiver its inductive invariant holds.       *)
THEOREM ReceiverInvariant == Spec => []ReceiverInv
<1> QED
  BY ReceiverInit, ReceiverStep, PTL DEF Spec

(* Every variable keeps its type, whatever comes, fails, closes or ends.   *)
THEOREM ReceiverTypeCorrect == Spec => []TypeOK
<1>1. ReceiverInv => TypeOK
  BY DEF ReceiverInv
<1> QED
  BY <1>1, ReceiverInvariant, PTL

(* What is gone from the mediator's queue the vault holds an observation   *)
(* of, or the gate found it terminal: acknowledgements follow the end of a *)
(* delivery alone, in whatever order its steps and those of others come.   *)
THEOREM ReceiverDropsNothing == Spec => []NothingDropped
<1>1. ReceiverInv => NothingDropped
  BY DEF ReceiverInv, Traced
<1> QED
  BY <1>1, ReceiverInvariant, PTL

(* No wait is left on a fold that has changed once the receiver was told   *)
(* of every change and has compared: every change is still to be told of,  *)
(* is seen by an attempt or a teller under way, or was acted on.           *)
THEOREM ReceiverLosesNoWakeup == Spec => []NoLostWakeup
<1>1. ASSUME TypeOK, Wakes PROVE NoLostWakeup
  BY <1>1 DEF Wakes, NoLostWakeup, Quiet, Will
<1> QED
  BY <1>1, ReceiverInvariant, PTL DEF ReceiverInv

(* What the receiver holds and remembers adds up and stays within its      *)
(* limits, and no delivery is both waiting and ended.                      *)
THEOREM ReceiverKeepsAccount == Spec => []KeptAccounted
<1>1. ReceiverInv => KeptAccounted
  BY DEF ReceiverInv
<1> QED
  BY <1>1, ReceiverInvariant, PTL

=============================================================================
