------------------------- MODULE LiveDeliveryProofs -------------------------
(***************************************************************************)
(* Proofs about live delivery, for any amount of mail, any sockets, any    *)
(* pages and rounds of a pickup, and any failures: the state keeps its     *)
(* types, and a session belongs to the first DID proven on its socket.     *)
(***************************************************************************)
EXTENDS LiveDelivery, FiniteSetTheorems, TLAPS

-----------------------------------------------------------------------------
(* The inductive invariant.                                                *)

(* The types: what is on its way either way, the pickup loops, and the     *)
(* functions of the sockets.  A delivery carries mail.                     *)
Sent == [did : {Me, Other}, at : {"opening", "opened"}]
Frames == [kind : {"delivery", "status", "problem"}, mail : Mail \cup {None}, live : BOOLEAN]
Loops == [step : {"idle", "status", "request", "counting", "take", "acknowledge"},
          round : Nat, count : Nat, mail : SUBSET Mail]
Dids == {Me, Other, None}
MediatorTypes ==
  /\ queue \subseteq Mail
  /\ offer \in [Mail -> {"none", "stored", "wanted", "over"}]
  /\ sess \in [Sockets -> Session \cup {None}] /\ kept \in [Sockets -> Session \cup {None}]
  /\ first \in [Sockets -> Dids]
  /\ up \in [Sockets -> SUBSET Sent] /\ down \in [Sockets -> SUBSET Frames]
  /\ used \in Nat \ {0}
AgentTypes ==
  /\ socket \in Sockets \cup {None}
  /\ stage \in {"none", "reach", "drain", "open", "failed"}
  /\ drain \in [Drains -> Loops]
  /\ acks \subseteq Mail /\ deferred \subseteq Mail /\ handed \subseteq Mail /\ missed \subseteq Mail
  /\ \A c \in Sockets : \A f \in down[c] : f.kind = "delivery" => f.mail \in Mail
DrainInv == drain["connect"] # Idle <=> stage = "drain"

(* What the hub holds of a socket and what is kept beside it both name the *)
(* first DID, so that it does not matter which of the two a session goes   *)
(* on from; a socket not yet opened has neither, nor a first DID.          *)
FirstInv ==
  /\ \A c \in Sockets : sess[c] # None => sess[c].did = first[c]
  /\ \A c \in Sockets : kept[c] # None => kept[c].did = first[c]
  /\ \A c \in Sockets : c > used => sess[c] = None /\ kept[c] = None /\ first[c] = None
PushedInv == \A c \in Sockets : \A f \in down[c] : f.kind = "delivery" => first[c] = Me

Inv == MediatorTypes /\ AgentTypes /\ DrainInv /\ FirstInv /\ PushedInv


-----------------------------------------------------------------------------
(* Facts about the constants and the operators.                            *)

(* The DIDs and None are three.                                            *)
LEMMA MeIsSomeone == Me # None /\ Other # None
<1>1. ASSUME NEW x, NEW y PROVE Cardinality({x, y}) <= 2
  <2>1. IsFiniteSet({x}) /\ Cardinality({x}) = 1 BY FS_Singleton
  <2>2. Cardinality({x} \cup {y}) <= 2 BY <2>1, FS_AddElement
  <2>3. {x} \cup {y} = {x, y} OBVIOUS
  <2> QED BY <2>2, <2>3
<1>2. Me # None
  <2> SUFFICES ASSUME Me = None PROVE FALSE
    OBVIOUS
  <2>1. {Me, Other, None} = {Me, Other} OBVIOUS
  <2>2. Cardinality({Me, Other}) <= 2 BY <1>1
  <2>3. Cardinality({Me, Other, None}) = 3 BY LiveDeliveryAssumption
  <2> QED BY <2>1, <2>2, <2>3
<1>3. Other # None
  <2> SUFFICES ASSUME Other = None PROVE FALSE
    OBVIOUS
  <2>1. {Me, Other, None} = {Me, Other} OBVIOUS
  <2>2. Cardinality({Me, Other}) <= 2 BY <1>1
  <2>3. Cardinality({Me, Other, None}) = 3 BY LiveDeliveryAssumption
  <2> QED BY <2>1, <2>2, <2>3
<1> QED BY <1>2, <1>3

(* The sockets are numbered from the stranger's, 1.                        *)
LEMMA SocketNumbers == Sockets \subseteq Nat /\ 1 \in Sockets
BY LiveDeliveryAssumption DEF Sockets

(* What a mediator holds is counted.                                       *)
LEMMA QueueCounted == ASSUME queue \subseteq Mail PROVE Cardinality(queue) \in Nat
<1>1. IsFiniteSet(Mail) BY LiveDeliveryAssumption, FS_Interval DEF Mail
<1> QED BY <1>1, FS_Subset, FS_CardinalityType

(* A session that binds, opens its route or goes live is still one, and    *)
(* only binding changes whose it is.                                       *)
LEMMA FreshIsSession == Fresh \in Session /\ Fresh.did = None
BY DEF Fresh, Session

(* A session that binds belongs to the first DID it was bound to.          *)
LEMMA BindFacts ==
  ASSUME NEW s \in Session, NEW did \in {Me, Other}
  PROVE  /\ BindFirst(s, did) \in Session
         /\ BindFirst(s, did).did = IF s.did = None THEN did ELSE s.did
BY DEF Session, BindFirst

(* A session that goes live belongs to whom it did.                        *)
LEMMA LiveFacts ==
  ASSUME NEW s \in Session, NEW own \in BOOLEAN
  PROVE  /\ [ReturnRouteOpen(s) EXCEPT !.live = @ \/ own] \in Session
         /\ [ReturnRouteOpen(s) EXCEPT !.live = @ \/ own].did = s.did
BY DEF Session, ReturnRouteOpen

(* Each frame is one, and only a delivery carries mail.                    *)
LEMMA FrameFacts ==
  /\ \A m \in Mail : Delivery(m) \in Frames /\ Delivery(m).mail = m
  /\ \A on \in BOOLEAN : Status(on) \in Frames /\ Status(on).kind # "delivery"
  /\ Problem \in Frames /\ Problem.kind # "delivery"
BY DEF Delivery, Status, Problem, Frames

(* A loop begun is under way, whatever step it goes on to.                 *)
LEMMA LoopFacts ==
  /\ Idle \in Loops /\ Idle.step = "idle"
  /\ \A round \in Nat : Loop(round) \in Loops /\ Loop(round).step = "status" /\ Loop(round) # Idle
BY DEF Idle, Loop, Loops

-----------------------------------------------------------------------------
(* Steps that leave what the mediator holds, or what the agent does.       *)

(* Steps of the agent alone leave the mediator's side, and the other way   *)
(* round.                                                                  *)
LEMMA MediatorStays ==
  ASSUME Inv, UNCHANGED <<queue, offer, sess, kept, first, up, down, used>>
  PROVE  MediatorTypes' /\ FirstInv' /\ PushedInv'
BY DEF Inv, MediatorTypes, FirstInv, PushedInv

LEMMA AgentStays ==
  ASSUME Inv, UNCHANGED <<socket, stage, drain, acks, deferred, handed, missed>>,
         \A c \in Sockets : \A f \in down'[c] : f.kind = "delivery" => f.mail \in Mail
  PROVE  AgentTypes' /\ DrainInv'
BY DEF Inv, AgentTypes, DrainInv

(* Frames taken away, or none of them deliveries added.                    *)
LEMMA DownShrinks ==
  ASSUME Inv, NEW c \in Sockets, NEW fs, fs \subseteq Frames,
         \A f \in fs : f \in down[c] \/ f.kind # "delivery",
         down' = [down EXCEPT ![c] = fs]
  PROVE  /\ down' \in [Sockets -> SUBSET Frames]
         /\ \A d \in Sockets : \A f \in down'[d] : f.kind = "delivery" => f.mail \in Mail
         /\ first' = first => PushedInv'
<1>1. down \in [Sockets -> SUBSET Frames] BY DEF Inv, MediatorTypes
<1>2. \A d \in Sockets : \A f \in down'[d] : f.kind = "delivery" => f \in down[d] BY <1>1
<1>3. \A d \in Sockets : \A f \in down'[d] : f.kind = "delivery" => f.mail \in Mail
  BY <1>2 DEF Inv, AgentTypes
<1>4. first' = first => PushedInv' BY <1>2 DEF Inv, PushedInv
<1> QED BY <1>1, <1>3, <1>4

(* A first DID, once proven, stays; so what was pushed stays where it may. *)
LEMMA FirstStays ==
  ASSUME Inv, down' = down, \A c \in Sockets : first[c] = Me => first'[c] = Me
  PROVE  PushedInv'
BY DEF Inv, PushedInv


-----------------------------------------------------------------------------
(* The mediator.                                                           *)

(* The steps of the mediator: what it stores, pushes and expires.          *)
LEMMA StoreKeeps ==
  ASSUME Inv, NEW m \in Mail, Store(m)
  PROVE  Inv'
<1>1. MediatorTypes' BY DEF Inv, MediatorTypes, Store
<1>2. FirstInv' /\ PushedInv' BY DEF Inv, FirstInv, PushedInv, Store
<1>3. AgentTypes' /\ DrainInv' BY AgentStays DEF Inv, AgentTypes, agent, Store
<1> QED BY <1>1, <1>2, <1>3 DEF Inv

LEMMA WantsPushKeeps ==
  ASSUME Inv, NEW m \in Mail, WantsPush(m)
  PROVE  Inv'
<1>1. MediatorTypes' BY DEF Inv, MediatorTypes, WantsPush
<1>2. FirstInv' /\ PushedInv' BY DEF Inv, FirstInv, PushedInv, WantsPush
<1>3. AgentTypes' /\ DrainInv' BY AgentStays DEF Inv, AgentTypes, agent, WantsPush
<1> QED BY <1>1, <1>2, <1>3 DEF Inv

LEMMA ExpireKeeps ==
  ASSUME Inv, NEW m \in Mail, Expire(m)
  PROVE  Inv'
<1>1. MediatorTypes' BY DEF Inv, MediatorTypes, Expire
<1>2. FirstInv' /\ PushedInv' BY DEF Inv, FirstInv, PushedInv, Expire
<1>3. AgentTypes' /\ DrainInv' BY AgentStays DEF Inv, AgentTypes, agent, Expire
<1> QED BY <1>1, <1>2, <1>3 DEF Inv

LEMMA PushFailsKeeps ==
  ASSUME Inv, NEW m \in Mail, PushFails(m)
  PROVE  Inv'
<1>1. MediatorTypes' BY DEF Inv, MediatorTypes, PushFails
<1>2. FirstInv' /\ PushedInv' BY DEF Inv, FirstInv, PushedInv, PushFails
<1>3. AgentTypes' /\ DrainInv' BY DEF Inv, AgentTypes, DrainInv, agent, PushFails
<1> QED BY <1>1, <1>2, <1>3 DEF Inv

(* A push goes to live sessions of the replica's own DID, so where that    *)
(* DID was the first.                                                      *)
LEMMA PushLiveDeliveryKeeps ==
  ASSUME Inv, NEW m \in Mail, PushLiveDelivery(m)
  PROVE  Inv'
<1>1. /\ offer' = [offer EXCEPT ![m] = "over"]
      /\ down' = [c \in Sockets |-> IF c \in LiveSessions \ cut THEN down[c] \cup {Delivery(m)} ELSE down[c]]
      /\ UNCHANGED <<queue, sess, kept, first, up, used>> /\ UNCHANGED <<socket, stage, drain, acks, deferred, handed, missed>>
  BY DEF PushLiveDelivery, agent
<1>2. down \in [Sockets -> SUBSET Frames] BY DEF Inv, MediatorTypes
<1>3. \A c \in Sockets : \A f \in down'[c] : f \in down[c] \/ (f = Delivery(m) /\ c \in LiveSessions) BY <1>1
<1>4. \A c \in LiveSessions : c \in Sockets /\ first[c] = Me BY DEF Inv, FirstInv, LiveSessions
<1>5. down' \in [Sockets -> SUBSET Frames] BY <1>1, <1>2, FrameFacts
<1>6. MediatorTypes' BY <1>1, <1>5 DEF Inv, MediatorTypes
<1>7. PushedInv' BY <1>1, <1>3, <1>4 DEF Inv, PushedInv
<1>8. \A c \in Sockets : \A f \in down'[c] : f.kind = "delivery" => f.mail \in Mail
  BY <1>3, FrameFacts DEF Inv, AgentTypes
<1>9. AgentTypes' /\ DrainInv' BY <1>1, <1>8, AgentStays
<1>10. FirstInv' BY <1>1 DEF Inv, FirstInv
<1> QED BY <1>6, <1>7, <1>9, <1>10 DEF Inv

(* A session binds to the DID of the first frame that opens, and to that   *)
(* one only.                                                               *)
LEMMA UnpackKeeps ==
  ASSUME Inv, NEW c \in Sockets, Unpack(c)
  PROVE  Inv'
<1>1. PICK f \in up[c] :
        /\ up' = [up EXCEPT ![c] = (@ \ {f}) \cup {[f EXCEPT !.at = "opened"]}]
        /\ IF sess[c] = None THEN UNCHANGED <<sess, kept, first>>
           ELSE /\ Save(c, BindFirst(sess[c], f.did))
                /\ first' = [first EXCEPT ![c] = IF @ = None THEN f.did ELSE @]
        /\ UNCHANGED <<queue, offer, down, used>> /\ UNCHANGED <<socket, stage, drain, acks, deferred, handed, missed>>
  BY DEF Unpack, agent
<1>2. f \in Sent BY DEF Inv, MediatorTypes
<1>3. f.did \in {Me, Other} /\ [f EXCEPT !.at = "opened"] \in Sent BY <1>2 DEF Sent
<1>4. up' \in [Sockets -> SUBSET Sent] BY <1>1, <1>3 DEF Inv, MediatorTypes
<1>5. AgentTypes' /\ DrainInv' BY <1>1, AgentStays DEF Inv, AgentTypes
<1>6. CASE sess[c] = None
  <2>1. MediatorTypes' BY <1>1, <1>4, <1>6 DEF Inv, MediatorTypes
  <2>2. FirstInv' BY <1>1, <1>6 DEF Inv, FirstInv
  <2>3. PushedInv' BY <1>1, <1>6 DEF Inv, PushedInv
  <2> QED BY <1>5, <2>1, <2>2, <2>3 DEF Inv
<1>7. CASE sess[c] # None
  <2>0. PICK s : s = BindFirst(sess[c], f.did) OBVIOUS
  <2>1. /\ sess' = [sess EXCEPT ![c] = s] /\ kept' = [kept EXCEPT ![c] = s]
        /\ first' = [first EXCEPT ![c] = IF first[c] = None THEN f.did ELSE first[c]]
    BY <1>1, <1>7, <2>0 DEF Save
  <2>2. sess[c] \in Session BY <1>7 DEF Inv, MediatorTypes
  <2>3. s \in Session /\ s.did = IF sess[c].did = None THEN f.did ELSE sess[c].did
    BY <1>3, <2>0, <2>2, BindFacts
  <2>4. sess[c].did = first[c] BY <1>7 DEF Inv, FirstInv
  <2>5. first \in [Sockets -> Dids] /\ sess \in [Sockets -> Session \cup {None}] /\ kept \in [Sockets -> Session \cup {None}]
    BY DEF Inv, MediatorTypes
  <2>6. first' \in [Sockets -> Dids] BY <1>3, <2>1, <2>5 DEF Dids
  <2>7. sess' \in [Sockets -> Session \cup {None}] /\ kept' \in [Sockets -> Session \cup {None}] BY <2>1, <2>3, <2>5
  <2>8. MediatorTypes' BY <1>1, <1>4, <2>6, <2>7 DEF Inv, MediatorTypes
  <2>9. ~(c > used) BY <1>7 DEF Inv, FirstInv
  <2>10. s.did = first'[c] BY <2>1, <2>3, <2>4, <2>5
  <2>11. FirstInv' BY <1>1, <2>1, <2>5, <2>9, <2>10 DEF Inv, FirstInv
  <2>12. \A d \in Sockets : first[d] = Me => first'[d] = Me BY <2>1, <2>5, MeIsSomeone
  <2>13. PushedInv' BY <1>1, <2>12, FirstStays
  <2> QED BY <1>5, <2>8, <2>11, <2>13 DEF Inv
<1> QED BY <1>6, <1>7

(* A live-delivery-change binds the session it comes in.                   *)
LEMMA LiveDeliveryChangeKeeps ==
  ASSUME Inv, NEW c \in Sockets, LiveDeliveryChange(c)
  PROVE  Inv'
<1>1. PICK f \in up[c] :
        /\ up' = [up EXCEPT ![c] = @ \ {f}]
        /\ IF sess[c] = None THEN UNCHANGED <<sess, kept, down>>
           ELSE LET own == InboxOf(sess[c], f.did)
                IN  /\ Save(c, [ReturnRouteOpen(sess[c]) EXCEPT !.live = @ \/ own])
                    /\ Dispatch(c, own)
        /\ UNCHANGED <<queue, offer, first, used>> /\ UNCHANGED <<socket, stage, drain, acks, deferred, handed, missed>>
  BY DEF LiveDeliveryChange, agent
<1>2. up' \in [Sockets -> SUBSET Sent] BY <1>1 DEF Inv, MediatorTypes
<1>3. CASE sess[c] = None
  <2>1. MediatorTypes' BY <1>1, <1>2, <1>3 DEF Inv, MediatorTypes
  <2>2. FirstInv' /\ PushedInv' BY <1>1, <1>3 DEF Inv, FirstInv, PushedInv
  <2>3. AgentTypes' /\ DrainInv' BY <1>1, <1>3, AgentStays DEF Inv, AgentTypes
  <2> QED BY <2>1, <2>2, <2>3 DEF Inv
<1>4. CASE sess[c] # None
  <2>1. PICK own \in BOOLEAN : own = InboxOf(sess[c], f.did) BY DEF InboxOf
  <2>2. PICK s : s = [ReturnRouteOpen(sess[c]) EXCEPT !.live = @ \/ own] OBVIOUS
  <2>3. /\ sess' = [sess EXCEPT ![c] = s] /\ kept' = [kept EXCEPT ![c] = s]
        /\ Dispatch(c, own)
    BY <1>1, <1>4, <2>1, <2>2 DEF Save
  <2>4. sess[c] \in Session BY <1>4 DEF Inv, MediatorTypes
  <2>5. s \in Session /\ s.did = sess[c].did BY <2>2, <2>4, LiveFacts
  <2>6. s.did = first[c] /\ ~(c > used) BY <1>4, <2>5 DEF Inv, FirstInv
  <2>7. sess \in [Sockets -> Session \cup {None}] /\ kept \in [Sockets -> Session \cup {None}]
    BY DEF Inv, MediatorTypes
  <2>8. sess' \in [Sockets -> Session \cup {None}] /\ kept' \in [Sockets -> Session \cup {None}] BY <2>3, <2>5, <2>7
  <2>9. FirstInv' BY <1>1, <2>3, <2>6, <2>7 DEF Inv, FirstInv
  <2>10. PICK fs : /\ down' = [down EXCEPT ![c] = fs] /\ fs \subseteq Frames
                   /\ \A g \in fs : g \in down[c] \/ g.kind # "delivery"
    <3>1. PICK fs : fs = IF c \in cut THEN down[c] ELSE down[c] \cup {IF own THEN Status(TRUE) ELSE Problem} OBVIOUS
    <3>2. down' = [down EXCEPT ![c] = fs] BY <2>3, <3>1 DEF Dispatch
    <3>3. down[c] \subseteq Frames BY DEF Inv, MediatorTypes
    <3>4. PICK g : g = IF own THEN Status(TRUE) ELSE Problem OBVIOUS
    <3>5. g \in Frames /\ g.kind # "delivery" BY <3>4, FrameFacts
    <3>6. fs \subseteq Frames /\ \A h \in fs : h \in down[c] \/ h.kind # "delivery" BY <3>1, <3>3, <3>4, <3>5
    <3> QED BY <3>2, <3>6
  <2>11. /\ down' \in [Sockets -> SUBSET Frames]
         /\ \A d \in Sockets : \A g \in down'[d] : g.kind = "delivery" => g.mail \in Mail
         /\ PushedInv'
    BY <1>1, <2>10, DownShrinks
  <2>12. MediatorTypes' BY <1>1, <1>2, <2>8, <2>11 DEF Inv, MediatorTypes
  <2>13. AgentTypes' /\ DrainInv' BY <1>1, <2>11, AgentStays
  <2> QED BY <2>9, <2>11, <2>12, <2>13 DEF Inv
<1> QED BY <1>3, <1>4

(* The steps of sockets: refused frames, closed and cut lines, the         *)
(* stranger.                                                               *)
LEMMA FrameRefusedKeeps ==
  ASSUME Inv, NEW c \in Sockets, FrameRefused(c)
  PROVE  Inv'
<1>1. MediatorTypes' BY DEF Inv, MediatorTypes, FrameRefused
<1>2. FirstInv' /\ PushedInv' BY DEF Inv, FirstInv, PushedInv, FrameRefused
<1>3. AgentTypes' /\ DrainInv' BY AgentStays DEF Inv, AgentTypes, agent, FrameRefused
<1> QED BY <1>1, <1>2, <1>3 DEF Inv

LEMMA SessionCloseKeeps ==
  ASSUME Inv, NEW c \in Sockets, SessionClose(c)
  PROVE  Inv'
<1>1. MediatorTypes' BY DEF Inv, MediatorTypes, SessionClose
<1>2. FirstInv' /\ PushedInv' BY DEF Inv, MediatorTypes, FirstInv, PushedInv, SessionClose
<1>3. AgentTypes' /\ DrainInv' BY AgentStays DEF Inv, AgentTypes, agent, SessionClose
<1> QED BY <1>1, <1>2, <1>3 DEF Inv

(* An evicted hub goes on from what was kept.                              *)
LEMMA EvictKeeps ==
  ASSUME Inv, Evict
  PROVE  Inv'
<1>1. MediatorTypes' BY DEF Inv, MediatorTypes, Evict, Adopt
<1>2. FirstInv' /\ PushedInv' BY DEF Inv, MediatorTypes, FirstInv, PushedInv, Evict, Adopt
<1>3. AgentTypes' /\ DrainInv' BY AgentStays DEF Inv, AgentTypes, agent, Evict
<1> QED BY <1>1, <1>2, <1>3 DEF Inv

LEMMA CutKeeps ==
  ASSUME Inv, NEW c \in Sockets, Cut(c)
  PROVE  Inv'
<1>1. down' = [down EXCEPT ![c] = {}] /\ first' = first BY DEF Cut
<1>2. /\ down' \in [Sockets -> SUBSET Frames]
      /\ \A d \in Sockets : \A g \in down'[d] : g.kind = "delivery" => g.mail \in Mail
      /\ PushedInv'
  <2>1. PICK fs : fs = {} OBVIOUS
  <2>2. down' = [down EXCEPT ![c] = fs] /\ fs \subseteq Frames /\ \A f \in fs : f \in down[c] BY <1>1, <2>1
  <2> QED BY <1>1, <2>2, DownShrinks
<1>3. MediatorTypes' BY <1>2 DEF Inv, MediatorTypes, Cut
<1>4. FirstInv' BY DEF Inv, FirstInv, Cut
<1>5. AgentTypes' /\ DrainInv' BY <1>2, AgentStays DEF agent, Cut
<1> QED BY <1>2, <1>3, <1>4, <1>5 DEF Inv

LEMMA StrangerSendsKeeps ==
  ASSUME Inv, NEW c \in Sockets, StrangerSends(c)
  PROVE  Inv'
<1>1. PICK did \in {Me, Other} : up' = [up EXCEPT ![c] = @ \cup {[did |-> did, at |-> "opening"]}] BY DEF StrangerSends
<1>2. [did |-> did, at |-> "opening"] \in Sent BY DEF Sent
<1>3. MediatorTypes' BY <1>1, <1>2 DEF Inv, MediatorTypes, StrangerSends
<1>4. FirstInv' /\ PushedInv' BY DEF Inv, FirstInv, PushedInv, StrangerSends
<1>5. AgentTypes' /\ DrainInv' BY AgentStays DEF Inv, AgentTypes, agent, StrangerSends
<1> QED BY <1>3, <1>4, <1>5 DEF Inv

-----------------------------------------------------------------------------
(* The agent: its connection and its socket.                               *)

(* The steps of the connection: connecting, losing it and trying again.    *)
LEMMA ConnectKeeps ==
  ASSUME Inv, Connect
  PROVE  Inv'
<1>1. MediatorTypes' /\ FirstInv' /\ PushedInv' BY MediatorStays DEF mediator, Connect
<1>2. AgentTypes' BY DEF Inv, AgentTypes, mediator, Connect
<1>3. DrainInv' BY DEF Inv, DrainInv, Connect
<1> QED BY <1>1, <1>2, <1>3 DEF Inv

LEMMA UnreachedKeeps ==
  ASSUME Inv, Unreached
  PROVE  Inv'
<1>1. MediatorTypes' /\ FirstInv' /\ PushedInv' BY MediatorStays DEF mediator, Unreached
<1>2. AgentTypes' BY DEF Inv, AgentTypes, mediator, Unreached
<1>3. DrainInv' BY DEF Inv, DrainInv, Unreached
<1> QED BY <1>1, <1>2, <1>3 DEF Inv

LEMMA SocketClosedKeeps ==
  ASSUME Inv, SocketClosed
  PROVE  Inv'
<1>1. MediatorTypes' /\ FirstInv' /\ PushedInv' BY MediatorStays DEF mediator, SocketClosed
<1>2. AgentTypes' BY DEF Inv, AgentTypes, mediator, SocketClosed
<1>3. DrainInv' BY DEF Inv, DrainInv, SocketClosed
<1> QED BY <1>1, <1>2, <1>3 DEF Inv

LEMMA TimerFiresKeeps ==
  ASSUME Inv, TimerFires
  PROVE  Inv'
<1>1. MediatorTypes' /\ FirstInv' /\ PushedInv' BY MediatorStays DEF mediator, TimerFires
<1>2. AgentTypes' BY DEF Inv, AgentTypes, mediator, TimerFires
<1>3. DrainInv' BY DEF Inv, DrainInv, TimerFires
<1> QED BY <1>1, <1>2, <1>3 DEF Inv

LEMMA RetryKeeps ==
  ASSUME Inv, Retry
  PROVE  Inv'
<1>1. MediatorTypes' /\ FirstInv' /\ PushedInv' BY MediatorStays DEF mediator, Retry, ConnectTo
<1>2. AgentTypes' BY DEF Inv, AgentTypes, mediator, Retry, ConnectTo
<1>3. DrainInv' BY DEF Inv, DrainInv, Retry, ConnectTo
<1> QED BY <1>1, <1>2, <1>3 DEF Inv

LEMMA RetryUnreadKeeps ==
  ASSUME Inv, RetryUnread
  PROVE  Inv'
<1>1. MediatorTypes' /\ FirstInv' /\ PushedInv' BY MediatorStays DEF mediator, RetryUnread
<1>2. AgentTypes' BY DEF Inv, AgentTypes, mediator, RetryUnread
<1>3. DrainInv' BY DEF Inv, DrainInv, RetryUnread
<1> QED BY <1>1, <1>2, <1>3 DEF Inv

LEMMA RetireKeeps ==
  ASSUME Inv, Retire
  PROVE  Inv'
<1>1. MediatorTypes' /\ FirstInv' /\ PushedInv' BY MediatorStays DEF mediator, Retire
<1>2. AgentTypes' BY DEF Inv, AgentTypes, mediator, Retire
<1>3. DrainInv' BY DEF Inv, DrainInv, Retire
<1> QED BY <1>1, <1>2, <1>3 DEF Inv

LEMMA ReachKeeps ==
  ASSUME Inv, Reach
  PROVE  Inv'
<1>1. MediatorTypes' /\ FirstInv' /\ PushedInv' BY MediatorStays DEF mediator, Reach
<1>2. drain' = [drain EXCEPT !["connect"] = Loop(1)] /\ stage' = "drain" /\ "connect" \in Drains BY DEF Reach, Drains
<1>3. drain \in [Drains -> Loops] BY DEF Inv, AgentTypes
<1>4. drain' \in [Drains -> Loops] BY <1>2, <1>3, LoopFacts
<1>5. AgentTypes' BY <1>4 DEF Inv, AgentTypes, mediator, Reach
<1>6. DrainInv' BY <1>2, <1>3, LoopFacts DEF DrainInv
<1> QED BY <1>1, <1>5, <1>6 DEF Inv

(* The socket the agent opens is one nobody has proven anything on.        *)
LEMMA OpenSocketKeeps ==
  ASSUME Inv, OpenSocket
  PROVE  Inv'
<1>0. stage = "open" /\ stage' = "none" /\ UNCHANGED <<queue, offer, first, up, down, drain, acks, deferred, handed, missed>>
  BY DEF OpenSocket
<1>1. DrainInv' BY <1>0 DEF Inv, DrainInv
<1>2. CASE UNCHANGED <<used, sess, kept, socket>>
  <2>1. MediatorTypes' /\ FirstInv' /\ PushedInv' BY <1>0, <1>2, MediatorStays
  <2>2. AgentTypes' BY <1>0, <1>2 DEF Inv, AgentTypes
  <2> QED BY <1>1, <2>1, <2>2 DEF Inv
<1>3. ASSUME NEW c \in Sockets, Accept(c), socket' = c PROVE Inv'
  <2>1. /\ c = used + 1 /\ used' = c
        /\ sess' = [sess EXCEPT ![c] = Fresh] /\ kept' = [kept EXCEPT ![c] = Fresh]
    BY <1>3 DEF Accept
  <2>2. MediatorTypes' BY <1>0, <2>1, FreshIsSession DEF Inv, MediatorTypes
  <2>3. used \in Nat /\ c > used /\ \A d \in Sockets : d > c => d > used BY <2>1, SocketNumbers DEF Inv, MediatorTypes
  <2>4. FirstInv' BY <1>0, <2>1, <2>3, FreshIsSession DEF Inv, MediatorTypes, FirstInv
  <2>5. PushedInv' BY <1>0 DEF Inv, PushedInv
  <2>6. AgentTypes' BY <1>0, <1>3 DEF Inv, AgentTypes
  <2> QED BY <1>1, <2>2, <2>4, <2>5, <2>6 DEF Inv
<1> QED BY <1>2, <1>3 DEF OpenSocket

LEMMA SwitchOnKeeps ==
  ASSUME Inv, SwitchOn
  PROVE  Inv'
<1>1. /\ socket \in Sockets
      /\ \/ up' = [up EXCEPT ![socket] = IF socket \in cut THEN @ ELSE @ \cup {[did |-> Me, at |-> "opening"]}]
         \/ up' = up
      /\ UNCHANGED <<queue, offer, sess, kept, first, down, used>> /\ UNCHANGED <<socket, stage, drain, acks, deferred, handed, missed>>
  BY DEF SwitchOn, Inv, AgentTypes
<1>2. [did |-> Me, at |-> "opening"] \in Sent BY DEF Sent
<1>3. up' \in [Sockets -> SUBSET Sent] BY <1>1, <1>2 DEF Inv, MediatorTypes
<1>4. MediatorTypes' BY <1>1, <1>3 DEF Inv, MediatorTypes
<1>5. FirstInv' /\ PushedInv' BY <1>1 DEF Inv, FirstInv, PushedInv
<1>6. AgentTypes' /\ DrainInv' BY <1>1, AgentStays DEF Inv, AgentTypes
<1> QED BY <1>4, <1>5, <1>6 DEF Inv

(* The frames that reach the agent, and their acknowledgement.             *)
LEMMA OnFrameKeeps ==
  ASSUME Inv, OnFrame
  PROVE  Inv'
<1>1. PICK f \in IF socket = None THEN {} ELSE down[socket] :
        /\ down' = [down EXCEPT ![socket] = @ \ {f}]
        /\ \/ PickUpOnceLive /\ UNCHANGED <<acks, deferred, handed>>
           \/ /\ f.kind = "delivery" /\ handed' = handed \cup {f.mail}
              /\ \/ acks' = acks \cup {f.mail} /\ deferred' = deferred
                 \/ deferred' = deferred \cup {f.mail} /\ acks' = acks
              /\ drain' = drain
           \/ UNCHANGED <<drain, acks, deferred, handed>>
        /\ UNCHANGED <<queue, offer, sess, kept, first, up, used>> /\ UNCHANGED <<socket, stage, missed>>
  BY DEF OnFrame
<1>2. socket \in Sockets /\ f \in down[socket] BY <1>1 DEF Inv, AgentTypes
<1>3. PICK fs : fs = down[socket] \ {f} OBVIOUS
<1>4. down' = [down EXCEPT ![socket] = fs] /\ fs \subseteq Frames /\ \A g \in fs : g \in down[socket]
  BY <1>1, <1>2, <1>3 DEF Inv, MediatorTypes
<1>5. /\ down' \in [Sockets -> SUBSET Frames]
      /\ \A d \in Sockets : \A g \in down'[d] : g.kind = "delivery" => g.mail \in Mail
      /\ PushedInv'
  BY <1>1, <1>2, <1>4, DownShrinks
<1>6. MediatorTypes' BY <1>1, <1>5 DEF Inv, MediatorTypes
<1>7. FirstInv' BY <1>1 DEF Inv, FirstInv
<1>8. f.kind = "delivery" => f.mail \in Mail BY <1>2 DEF Inv, AgentTypes
<1>9. drain' \in [Drains -> Loops] /\ drain'["connect"] = drain["connect"]
  <2>1. drain \in [Drains -> Loops] BY DEF Inv, AgentTypes
  <2>2. CASE drain' = drain BY <2>1, <2>2
  <2>3. CASE PickUpOnceLive
    <3>1. PICK d \in {"live", "again"} : drain' = [drain EXCEPT ![d] = Loop(1)] BY <2>3 DEF PickUpOnceLive
    <3>2. d \in Drains /\ d # "connect" BY DEF Drains
    <3> QED BY <2>1, <3>1, <3>2, LoopFacts
  <2> QED BY <1>1, <2>2, <2>3
<1>10. AgentTypes' BY <1>1, <1>5, <1>8, <1>9 DEF Inv, AgentTypes
<1>11. DrainInv' BY <1>1, <1>9 DEF Inv, DrainInv
<1> QED BY <1>5, <1>6, <1>7, <1>10, <1>11 DEF Inv

LEMMA FrameDroppedKeeps ==
  ASSUME Inv, FrameDropped
  PROVE  Inv'
<1>1. PICK f \in IF socket = None THEN {} ELSE down[socket] :
        /\ down' = [down EXCEPT ![socket] = @ \ {f}]
        /\ missed' = missed \cup queue
        /\ UNCHANGED <<queue, offer, sess, kept, first, up, used>> /\ UNCHANGED <<socket, stage, drain, acks, deferred, handed>>
  BY DEF FrameDropped, agent
<1>2. socket \in Sockets /\ f \in down[socket] BY <1>1 DEF Inv, AgentTypes
<1>3. PICK fs : fs = down[socket] \ {f} OBVIOUS
<1>4. down' = [down EXCEPT ![socket] = fs] /\ fs \subseteq Frames /\ \A g \in fs : g \in down[socket]
  BY <1>1, <1>2, <1>3 DEF Inv, MediatorTypes
<1>5. /\ down' \in [Sockets -> SUBSET Frames]
      /\ \A d \in Sockets : \A g \in down'[d] : g.kind = "delivery" => g.mail \in Mail
      /\ PushedInv'
  BY <1>1, <1>2, <1>4, DownShrinks
<1>6. MediatorTypes' BY <1>1, <1>5 DEF Inv, MediatorTypes
<1>7. FirstInv' BY <1>1 DEF Inv, FirstInv
<1>8. AgentTypes' BY <1>1, <1>5 DEF Inv, AgentTypes, MediatorTypes
<1>9. DrainInv' BY <1>1 DEF Inv, DrainInv
<1> QED BY <1>5, <1>6, <1>7, <1>8, <1>9 DEF Inv

LEMMA AcknowledgePushKeeps ==
  ASSUME Inv, AcknowledgePush
  PROVE  Inv'
<1>1. PICK m : /\ m \in acks
               /\ queue' \subseteq queue
               /\ UNCHANGED <<offer, sess, kept, first, up, down, used>> /\ UNCHANGED <<socket, stage, drain, handed, missed>>
               /\ acks' \subseteq acks /\ deferred' \subseteq deferred
  BY DEF AcknowledgePush
<1>2. MediatorTypes' BY <1>1 DEF Inv, MediatorTypes
<1>3. FirstInv' /\ PushedInv' BY <1>1 DEF Inv, FirstInv, PushedInv
<1>4. AgentTypes' BY <1>1 DEF Inv, AgentTypes
<1>5. DrainInv' BY <1>1 DEF Inv, DrainInv
<1> QED BY <1>2, <1>3, <1>4, <1>5 DEF Inv

LEMMA AcknowledgeDeferredKeeps ==
  ASSUME Inv, AcknowledgeDeferred
  PROVE  Inv'
<1>1. PICK m : /\ m \in deferred
               /\ queue' \subseteq queue
               /\ UNCHANGED <<offer, sess, kept, first, up, down, used>> /\ UNCHANGED <<socket, stage, drain, handed, missed>>
               /\ acks' \subseteq acks /\ deferred' \subseteq deferred
  BY DEF AcknowledgeDeferred
<1>2. MediatorTypes' BY <1>1 DEF Inv, MediatorTypes
<1>3. FirstInv' /\ PushedInv' BY <1>1 DEF Inv, FirstInv, PushedInv
<1>4. AgentTypes' BY <1>1 DEF Inv, AgentTypes
<1>5. DrainInv' BY <1>1 DEF Inv, DrainInv
<1> QED BY <1>2, <1>3, <1>4, <1>5 DEF Inv

LEMMA CloseKeeps ==
  ASSUME Inv, Close
  PROVE  Inv'
<1>1. MediatorTypes' /\ FirstInv' /\ PushedInv' BY MediatorStays DEF Close
<1>2. AgentTypes' BY DEF Inv, AgentTypes, Close
<1>3. DrainInv' BY DEF Inv, DrainInv, Close
<1> QED BY <1>1, <1>2, <1>3 DEF Inv

-----------------------------------------------------------------------------
(* The pickup loops.  What a step of a loop keeps, whether the loop ends   *)
(* or goes on: nothing of the sockets, and only mail is taken and left.    *)
LEMMA LoopKeeps ==
  ASSUME Inv, NEW d \in Drains, drain[d].step # "idle",
         \/ \E well \in BOOLEAN : Ends(d, well)
         \/ \E s \in Loops : s.step # "idle" /\ Goes(d, s),
         line' = line, queue' \subseteq queue,
         deferred' \subseteq Mail, handed' \subseteq Mail, missed' \subseteq Mail
  PROVE  Inv'
<1>0. UNCHANGED <<offer, sess, kept, first, up, down, used>> /\ UNCHANGED <<socket, acks>> BY DEF line
<1>1. MediatorTypes' BY <1>0 DEF Inv, MediatorTypes
<1>2. FirstInv' /\ PushedInv' BY <1>0 DEF Inv, FirstInv, PushedInv
<1>3. drain \in [Drains -> Loops] /\ stage \in {"none", "reach", "drain", "open", "failed"} BY DEF Inv, AgentTypes
<1>4. drain[d] # Idle BY LoopFacts
<1>5. /\ drain' \in [Drains -> Loops] /\ stage' \in {"none", "reach", "drain", "open", "failed"}
      /\ DrainInv'
  <2>1. ASSUME NEW well \in BOOLEAN, Ends(d, well)
        PROVE  /\ drain' \in [Drains -> Loops] /\ stage' \in {"none", "reach", "drain", "open", "failed"}
               /\ DrainInv'
    <3>1. /\ drain' = [drain EXCEPT ![d] = Idle]
          /\ stage' = IF d # "connect" THEN stage ELSE IF well THEN "open" ELSE "failed"
      BY <2>1 DEF Ends
    <3>2. drain' \in [Drains -> Loops] BY <1>3, <3>1, LoopFacts
    <3>3. stage' \in {"none", "reach", "drain", "open", "failed"} BY <1>3, <3>1
    <3>4. "connect" \in Drains BY DEF Drains
    <3>5. DrainInv' BY <1>3, <3>1, <3>4 DEF Inv, DrainInv
    <3> QED BY <3>2, <3>3, <3>5
  <2>2. ASSUME NEW s \in Loops, s.step # "idle", Goes(d, s)
        PROVE  /\ drain' \in [Drains -> Loops] /\ stage' \in {"none", "reach", "drain", "open", "failed"}
               /\ DrainInv'
    <3>1. drain' = [drain EXCEPT ![d] = s] /\ stage' = stage BY <2>2 DEF Goes
    <3>2. s # Idle BY <2>2, LoopFacts
    <3>3. drain' \in [Drains -> Loops] BY <1>3, <3>1
    <3>4. DrainInv' BY <1>3, <1>4, <3>1, <3>2 DEF Inv, DrainInv, Drains
    <3> QED BY <1>3, <3>1, <3>3, <3>4
  <2> QED BY <2>1, <2>2
<1>6. AgentTypes' BY <1>0, <1>5 DEF Inv, AgentTypes
<1> QED BY <1>1, <1>2, <1>5, <1>6 DEF Inv

(* What a loop holds is mail, and what it may be next.                     *)
LEMMA HeldFacts ==
  ASSUME Inv, NEW d \in Drains
  PROVE  /\ drain[d] \in Loops /\ drain[d].mail \subseteq Mail /\ drain[d].round \in Nat
         /\ queue \subseteq Mail /\ deferred \subseteq Mail /\ handed \subseteq Mail /\ missed \subseteq Mail
BY DEF Inv, MediatorTypes, AgentTypes, Loops


(* The steps of a pickup.                                                  *)
LEMMA DrainStatusKeeps ==
  ASSUME Inv, NEW d \in Drains, DrainStatus(d)
  PROVE  Inv'
<1>1. drain[d].step = "status" /\ line' = line /\ UNCHANGED <<queue, deferred, handed, missed>> BY DEF DrainStatus
<1>2. CASE Ends(d, TRUE) BY <1>1, <1>2, HeldFacts, LoopKeeps
<1>3. CASE Goes(d, [drain[d] EXCEPT !.step = "request", !.count = Cardinality(queue)])
  <2>1. PICK s : s = [drain[d] EXCEPT !.step = "request", !.count = Cardinality(queue)] OBVIOUS
  <2>2. Cardinality(queue) \in Nat BY HeldFacts, QueueCounted
  <2>3. s \in Loops /\ s.step = "request" BY <2>1, <2>2, HeldFacts DEF Loops
  <2> QED BY <1>1, <1>3, <2>1, <2>3, HeldFacts, LoopKeeps
<1> QED BY <1>2, <1>3 DEF DrainStatus

LEMMA DrainRequestKeeps ==
  ASSUME Inv, NEW d \in Drains, DrainRequest(d)
  PROVE  Inv'
<1>1. drain[d].step = "request" /\ line' = line /\ UNCHANGED <<queue, deferred, handed, missed>> BY DEF DrainRequest
<1>2. CASE Goes(d, [drain[d] EXCEPT !.step = "counting"])
  <2>1. PICK s : s = [drain[d] EXCEPT !.step = "counting"] OBVIOUS
  <2>2. s \in Loops /\ s.step = "counting" BY <2>1, HeldFacts DEF Loops
  <2> QED BY <1>1, <1>2, <2>1, <2>2, HeldFacts, LoopKeeps
<1>3. CASE Goes(d, [drain[d] EXCEPT !.step = "take", !.mail = Page(Min({drain[d].count, PageLimit}))])
  <2>1. PICK page : page = Page(Min({drain[d].count, PageLimit})) OBVIOUS
  <2>2. page \subseteq queue BY <2>1 DEF Page
  <2>3. PICK s : s = [drain[d] EXCEPT !.step = "take", !.mail = page] OBVIOUS
  <2>4. s \in Loops /\ s.step = "take" BY <2>2, <2>3, HeldFacts DEF Loops
  <2> QED BY <1>1, <1>3, <2>1, <2>3, <2>4, HeldFacts, LoopKeeps
<1> QED BY <1>2, <1>3 DEF DrainRequest

LEMMA DrainCountedKeeps ==
  ASSUME Inv, NEW d \in Drains, DrainCounted(d)
  PROVE  Inv'
<1>1. drain[d].step = "counting" /\ line' = line /\ UNCHANGED <<queue, deferred, handed, missed>> BY DEF DrainCounted
<1>2. PICK well \in BOOLEAN : Ends(d, well) BY DEF DrainCounted
<1> QED BY <1>1, <1>2, HeldFacts, LoopKeeps

LEMMA DrainFailsKeeps ==
  ASSUME Inv, NEW d \in Drains, DrainFails(d)
  PROVE  Inv'
<1>1. drain[d].step # "idle" /\ line' = line /\ UNCHANGED <<queue, deferred, handed>> /\ Ends(d, FALSE) BY DEF DrainFails
<1>2. missed' \subseteq missed \cup queue BY DEF DrainFails, Leaves
<1> QED BY <1>1, <1>2, HeldFacts, LoopKeeps

LEMMA DrainTakeKeeps ==
  ASSUME Inv, NEW d \in Drains, DrainTake(d)
  PROVE  Inv'
<1>1. PICK taken \in SUBSET drain[d].mail :
        /\ deferred' = deferred \cup (drain[d].mail \ taken)
        /\ IF taken = {} THEN Ends(d, TRUE) /\ Leaves(d)
           ELSE Goes(d, [drain[d] EXCEPT !.step = "acknowledge", !.mail = taken]) /\ UNCHANGED missed
  BY DEF DrainTake
<1>2. drain[d].step = "take" /\ line' = line /\ queue' = queue /\ handed' = handed \cup drain[d].mail BY DEF DrainTake
<1>3. missed' \subseteq missed \cup queue BY <1>1 DEF Leaves
<1>4. deferred' \subseteq Mail /\ handed' \subseteq Mail /\ missed' \subseteq Mail BY <1>1, <1>2, <1>3, HeldFacts
<1>5. PICK s : s = [drain[d] EXCEPT !.step = "acknowledge", !.mail = taken] OBVIOUS
<1>6. s \in Loops /\ s.step = "acknowledge" BY <1>5, HeldFacts DEF Loops
<1>7. Ends(d, TRUE) \/ Goes(d, s) BY <1>1, <1>5
<1> QED BY <1>2, <1>4, <1>6, <1>7, LoopKeeps

LEMMA DrainAcknowledgeKeeps ==
  ASSUME Inv, NEW d \in Drains, DrainAcknowledge(d)
  PROVE  Inv'
<1>1. drain[d].step = "acknowledge" /\ line' = line /\ queue' \subseteq queue /\ UNCHANGED <<deferred, handed>>
  BY DEF DrainAcknowledge
<1>2. missed' \subseteq missed \cup queue BY DEF DrainAcknowledge, Leaves
<1>3. drain[d].round + 1 \in Nat BY HeldFacts
<1>4. Ends(d, TRUE) \/ \E s \in Loops : s.step # "idle" /\ Goes(d, s) BY <1>3, LoopFacts DEF DrainAcknowledge
<1> QED BY <1>1, <1>2, <1>4, HeldFacts, LoopKeeps

LEMMA DrainUnacknowledgedKeeps ==
  ASSUME Inv, NEW d \in Drains, DrainUnacknowledged(d)
  PROVE  Inv'
<1>1. drain[d].step = "acknowledge" /\ line' = line /\ queue' \subseteq queue /\ UNCHANGED <<deferred, handed>> /\ Ends(d, TRUE)
  BY DEF DrainUnacknowledged
<1>2. missed' \subseteq missed \cup queue BY DEF DrainUnacknowledged, Leaves
<1> QED BY <1>1, <1>2, HeldFacts, LoopKeeps

-----------------------------------------------------------------------------
(* The invariant holds at the start and is kept by every step.             *)
LEMMA InitInv == Init => Inv
<1> SUFFICES ASSUME Init PROVE Inv
  OBVIOUS
<1>1. PICK s \in {Fresh, [Fresh EXCEPT !.did = Other, !.live = TRUE]} : sess = [c \in Sockets |-> IF c = 1 THEN s ELSE None]
  BY DEF Init
<1>2. s \in Session
  <2>1. \A r \in Session : [r EXCEPT !.did = Other, !.live = TRUE] \in Session BY DEF Session
  <2> QED BY <1>1, <2>1, FreshIsSession
<1>3. sess \in [Sockets -> Session \cup {None}] /\ sess[1] = s BY <1>1, <1>2, SocketNumbers
<1>4. s.did \in Dids BY <1>2 DEF Session, Dids
<1>5. first = [c \in Sockets |-> IF c = 1 THEN s.did ELSE None] /\ kept = sess /\ used = 1 BY <1>3 DEF Init
<1>6. first \in [Sockets -> Dids] BY <1>4, <1>5 DEF Dids
<1>7. MediatorTypes BY <1>3, <1>5, <1>6 DEF Init, MediatorTypes
<1>8. AgentTypes BY LoopFacts DEF Init, AgentTypes
<1>9. DrainInv BY DEF Init, DrainInv, Drains
<1>10. FirstInv BY <1>1, <1>5, SocketNumbers DEF FirstInv
<1>11. PushedInv BY DEF Init, PushedInv
<1> QED BY <1>7, <1>8, <1>9, <1>10, <1>11 DEF Inv

(* Every step keeps the invariant.                                         *)
LEMMA NextInv == Inv /\ [Next]_vars => Inv'
<1> SUFFICES ASSUME Inv, [Next]_vars PROVE Inv'
  OBVIOUS
<1>1. CASE Mediates
  BY <1>1, WantsPushKeeps, PushLiveDeliveryKeeps, UnpackKeeps, LiveDeliveryChangeKeeps,
     SessionCloseKeeps DEF Mediates
<1>2. CASE PicksUp
  BY <1>2, DrainStatusKeeps, DrainRequestKeeps, DrainCountedKeeps, DrainTakeKeeps,
     DrainAcknowledgeKeeps, DrainFailsKeeps, DrainUnacknowledgedKeeps DEF PicksUp
<1>3. CASE KeepsUp
  BY <1>3, ReachKeeps, UnreachedKeeps, OpenSocketKeeps, SwitchOnKeeps, SocketClosedKeeps,
     OnFrameKeeps, AcknowledgePushKeeps, AcknowledgeDeferredKeeps, TimerFiresKeeps, RetryKeeps DEF KeepsUp
<1>4. CASE Disturbed
  BY <1>4, StoreKeeps, PushFailsKeeps, ExpireKeeps, FrameRefusedKeeps, CutKeeps,
     StrangerSendsKeeps, DrainFailsKeeps, DrainUnacknowledgedKeeps, EvictKeeps, FrameDroppedKeeps,
     RetryUnreadKeeps, ConnectKeeps, RetireKeeps, CloseKeeps DEF Disturbed
<1>5. CASE UNCHANGED vars
  <2>1. MediatorTypes' /\ FirstInv' /\ PushedInv' BY <1>5, MediatorStays DEF vars, mediator
  <2>2. AgentTypes' /\ DrainInv' BY <1>5 DEF vars, mediator, agent, Inv, AgentTypes, DrainInv
  <2> QED BY <2>1, <2>2 DEF Inv
<1> QED BY <1>1, <1>2, <1>3, <1>4, <1>5 DEF Next, Proceeds

(* The state of both sides keeps its types, and the pickup of a connection *)
(* is under way exactly while the connection is at it (pickup.ts drain,    *)
(* agent.ts connectOnce).                                                  *)
THEOREM LiveTypeCorrect == Spec => []TypeOK
<1>1. Init => Inv BY InitInv
<1>2. Inv /\ [Next]_vars => Inv' BY NextInv
<1>3. Inv => TypeOK BY DEF Inv, MediatorTypes, AgentTypes, DrainInv, TypeOK
<1> QED BY <1>1, <1>2, <1>3, PTL DEF Spec

(* A session belongs to the first DID proven on its socket while it is     *)
(* open, and the replica's mail is pushed only where its own DID was the   *)
(* first, however often the hub is evicted and whatever envelopes are sent *)
(* down a socket again (sessions.ts bindFirst, inbox-hub.ts adopt,         *)
(* pickup.ts inboxOf).                                                     *)
THEOREM LiveBoundToFirst == Spec => []BoundToFirst
<1>1. Init => Inv BY InitInv
<1>2. Inv /\ [Next]_vars => Inv' BY NextInv
<1>3. Inv => BoundToFirst BY DEF Inv, FirstInv, PushedInv, BoundToFirst
<1> QED BY <1>1, <1>2, <1>3, PTL DEF Spec
=============================================================================
