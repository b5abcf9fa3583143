---------------------------- MODULE LiveDelivery ----------------------------
(***************************************************************************)
(* The mail of one replica on its way to one agent: both sides of the      *)
(* pickup protocol.  The mediator stores mail, offers it to the live       *)
(* sessions of its owner, answers status and delivery requests, and takes  *)
(* acknowledgements; a session is a socket with what it has proven, kept   *)
(* beside the socket too so that it outlives an eviction of the hub.  The  *)
(* agent connects (enrols, picks the queue up, opens the socket), picks up *)
(* again once the mediator says live delivery is on, takes what is pushed, *)
(* and tries again after a wait when the line fails.  A stranger opens     *)
(* sockets of its own and may send the agent's envelopes down them again.  *)
(***************************************************************************)
EXTENDS Integers, FiniteSets, FiniteSetsExt

CONSTANTS
  MaxMail,    \* how many messages come for the replica
  Rounds,     \* ROUNDS of a pickup loop
  PageLimit,  \* DELIVERY_PAGE_LIMIT
  MaxDisturbed, \* bound on failures and on what users and strangers do
  Me, Other,  \* the DIDs that senders prove: the replica's and a stranger's
  None

ASSUME LiveDeliveryAssumption ==
  /\ {MaxMail, MaxDisturbed} \subseteq Nat
  /\ {Rounds, PageLimit} \subseteq Nat \ {0}
  /\ Cardinality({Me, Other, None}) = 3

VARIABLES
  queue,    \* the mail stored and not yet acknowledged
  offer,    \* offer[m]: how far the push of m has come
  sess,     \* sess[c]: the session of socket c in the hub's memory, None before and after
  kept,     \* kept[c]: what is saved beside socket c
  first,    \* first[c]: history, the DID first proven on c
  up,       \* up[c]: the frames the mediator is working on
  down,     \* down[c]: the frames on their way to the client
  cut,      \* the sockets that broke, a side told or not
  used,     \* how many sockets were opened
  mute,     \* history: the sockets a frame of which was left without an answer
  socket,   \* the agent's socket, None when it has none
  opening,  \* whether it has yet to switch live delivery on
  stage,    \* the connection under way, and what it is at
  drain,    \* drain[d]: the pickup loops under way
  acks,     \* what was taken off a push and is still to be acknowledged
  deferred, \* what the receiver keeps waiting
  timer,    \* whether a wait before the next try is running
  trying,   \* whether a wait is over and its try still stands
  closed,   \* whether the agent is closed
  required, \* whether the vault must keep receiving on the arrangement
  handed,   \* history: the mail handed to the receiver
  missed,   \* history: the mail a pickup, or a frame, was given up over
  disturbed, \* how much of what MaxDisturbed bounds there was
  unread    \* whether a read of the vault before a try has failed: bounded to one

mediator == <<queue, offer, sess, kept, first, up, down, cut, used, mute>>
agent == <<socket, opening, stage, drain, acks, deferred, timer, trying, closed, required>>
vars == <<mediator, agent, handed, missed, disturbed, unread>>

(* The first is a stranger's, open from the start; the agent opens one,    *)
(* and another for each that fails.                                        *)
Sockets == 1..(2 + MaxDisturbed)
Mail == 1..MaxMail  \* in the order stored
Drains == {"connect", "live", "again"}
Idle == [step |-> "idle", round |-> 0, count |-> 0, mail |-> {}]
Loop(round) == [Idle EXCEPT !.step = "status", !.round = round]
Session == [did : {Me, Other, None}, live : BOOLEAN, route : BOOLEAN]
Fresh == [did |-> None, live |-> FALSE, route |-> FALSE]
Delivery(m) == [kind |-> "delivery", mail |-> m, live |-> FALSE]
Status(on) == [kind |-> "status", mail |-> None, live |-> on]
Problem == [kind |-> "problem", mail |-> None, live |-> FALSE]

Init ==
  /\ queue = {} /\ offer = [m \in Mail |-> "none"]
  /\ sess \in {[c \in Sockets |-> IF c = 1 THEN s ELSE None] : s \in {Fresh, [Fresh EXCEPT !.did = Other, !.live = TRUE]}}
  /\ kept = sess
  /\ first = [c \in Sockets |-> IF c = 1 THEN sess[1].did ELSE None]
  /\ up = [c \in Sockets |-> {}] /\ down = [c \in Sockets |-> {}]
  /\ cut = {} /\ used = 1 /\ mute = {}
  /\ socket = None /\ opening = FALSE /\ stage = "reach" /\ drain = [d \in Drains |-> Idle] /\ acks = {} /\ deferred = {}
  /\ timer = FALSE /\ trying = FALSE /\ closed = FALSE /\ required = TRUE
  /\ handed = {} /\ missed = {} /\ disturbed = 0 /\ unread = FALSE

Disturbs == disturbed < MaxDisturbed /\ disturbed' = disturbed + 1

-----------------------------------------------------------------------------
(* The mediator: mail is stored, then whoever listens is looked up, then   *)
(* the delivery is sealed and sent to the sessions live by then.           *)
LiveSessions == {c \in Sockets : sess[c] # None /\ (sess[c] # None => sess[c].did = Me /\ sess[c].live)}

Store(m) ==
  /\ offer[m] = "none" /\ \A n \in Mail : n < m => offer[n] # "none"
  /\ queue' = queue \cup {m}
  /\ offer' = [offer EXCEPT ![m] = "stored"]
  /\ UNCHANGED <<sess, kept, first, up, down, cut, used, mute, agent, handed, missed, disturbed, unread>>

WantsPush(m) ==
  /\ offer[m] = "stored"
  /\ offer' = [offer EXCEPT ![m] = IF LiveSessions = {} THEN "over" ELSE "wanted"]
  /\ UNCHANGED <<queue, sess, kept, first, up, down, cut, used, mute, agent, handed, missed, disturbed, unread>>

PushLiveDelivery(m) ==
  /\ offer[m] = "wanted"
  /\ offer' = [offer EXCEPT ![m] = "over"]
  /\ down' = [c \in Sockets |-> IF c \in LiveSessions \ cut THEN down[c] \cup {Delivery(m)} ELSE down[c]]
  /\ UNCHANGED <<queue, sess, kept, first, up, cut, used, mute, agent, handed, missed, disturbed, unread>>

(* A push that fails is logged, and the forward accepted all the same.     *)
PushFails(m) ==
  /\ offer[m] \in {"stored", "wanted"}
  /\ Disturbs
  /\ offer' = [offer EXCEPT ![m] = "over"]
  /\ missed' = missed \cup {m}
  /\ UNCHANGED <<queue, sess, kept, first, up, down, cut, used, mute, agent, handed, unread>>

(* A session binds to the first DID it proves while it is open, and keeps  *)
(* what it holds beside its socket at every change.                        *)
BindsLatest(s, did) == [s EXCEPT !.did = did]
BindFirst(s, did) == IF s.did = None THEN [s EXCEPT !.did = did] ELSE s
Save(c, s) == sess' = [sess EXCEPT ![c] = s] /\ kept' = [kept EXCEPT ![c] = s]

(* A frame is opened and binds the session, unless the socket has closed   *)
(* meanwhile; then it is dispatched: every frame here asks for the return  *)
(* route, and switches live delivery on for a session of its own sender.   *)
Unpack(c) == \E f \in up[c] :
  /\ f.at = "opening"
  /\ up' = [up EXCEPT ![c] = (@ \ {f}) \cup {[f EXCEPT !.at = "opened"]}]
  /\ IF sess[c] = None THEN UNCHANGED <<sess, kept, first>>
     ELSE /\ Save(c, BindFirst(sess[c], f.did))
          /\ first' = [first EXCEPT ![c] = IF @ = None THEN f.did ELSE @]
  /\ UNCHANGED <<queue, offer, down, cut, used, mute, agent, handed, missed, disturbed, unread>>

ReturnRouteOpen(s) == [s EXCEPT !.route = TRUE]
InboxOf(s, did) == s.did = did
Dispatch(c, own) == down' = [down EXCEPT ![c] = IF c \in cut THEN @ ELSE @ \cup {IF own THEN Status(TRUE) ELSE Problem}]

LiveDeliveryChange(c) == \E f \in up[c] :
  /\ f.at = "opened"
  /\ up' = [up EXCEPT ![c] = @ \ {f}]
  /\ IF sess[c] = None THEN UNCHANGED <<sess, kept, down>>
     ELSE LET own == InboxOf(sess[c], f.did)
          IN  /\ Save(c, [ReturnRouteOpen(sess[c]) EXCEPT !.live = @ \/ own])
              /\ Dispatch(c, own)
  /\ UNCHANGED <<queue, offer, first, cut, used, mute, agent, handed, missed, disturbed, unread>>

(* A frame the mediator fails over is logged and left without an answer.   *)
FrameRefused(c) == \E f \in up[c] :
  /\ Disturbs
  /\ up' = [up EXCEPT ![c] = @ \ {f}]
  /\ mute' = mute \cup {c}
  /\ UNCHANGED <<queue, offer, sess, kept, first, down, cut, used, agent, handed, missed, unread>>

SessionClose(c) ==
  /\ c \in cut /\ sess[c] # None
  /\ sess' = [sess EXCEPT ![c] = None]
  /\ UNCHANGED <<queue, offer, kept, first, up, down, cut, used, mute, agent, handed, missed, disturbed, unread>>

(* The hub is evicted while its sockets stay open, and opens the sessions  *)
(* again from what each socket kept.                                       *)
Adopt(s) == s
Evict ==
  /\ \A c \in Sockets : up[c] = {}
  /\ \E c \in Sockets : sess[c] # None
  /\ Disturbs
  /\ sess' = [c \in Sockets |-> IF sess[c] = None THEN None ELSE Adopt(kept[c])]
  /\ UNCHANGED <<queue, offer, kept, first, up, down, cut, used, mute, agent, handed, missed, unread>>

Cut(c) ==
  /\ c <= used /\ c \notin cut
  /\ Disturbs
  /\ cut' = cut \cup {c}
  /\ down' = [down EXCEPT ![c] = {}]
  /\ UNCHANGED <<queue, offer, sess, kept, first, up, used, mute, agent, handed, missed, unread>>

Expire(m) ==
  /\ m \in queue
  /\ Disturbs
  /\ queue' = queue \ {m}
  /\ UNCHANGED <<offer, sess, kept, first, up, down, cut, used, mute, agent, handed, missed, unread>>

-----------------------------------------------------------------------------
(* A socket accepted: a session that has proven nothing.                   *)
Accept(c) ==
  /\ c = used + 1 /\ c \in Sockets
  /\ used' = c
  /\ sess' = [sess EXCEPT ![c] = Fresh]
  /\ kept' = [kept EXCEPT ![c] = Fresh]

(* A stranger sends its own proof or, again, the agent's.                  *)
StrangerSends(c) == \E did \in {Me, Other} :
  /\ c = 1 /\ c \notin cut
  /\ Disturbs
  /\ up' = [up EXCEPT ![c] = @ \cup {[did |-> did, at |-> "opening"]}]
  /\ UNCHANGED <<queue, offer, sess, kept, first, down, cut, used, mute, agent, handed, missed, unread>>

-----------------------------------------------------------------------------
(* The agent: waits before a try.                                          *)
KeepsLive == ~closed
RetryUnlessConnecting == timer' = (timer \/ (KeepsLive /\ stage = "none"))
RetryLater == timer' = (timer \/ KeepsLive)
ForgetRetry == timer' = FALSE /\ trying' = FALSE

(* One connection at a time is under way and whoever asks shares it; one   *)
(* that begins cancels the wait.                                           *)
ConnectTo ==
  IF stage # "none" THEN UNCHANGED <<stage, timer>> ELSE stage' = "reach" /\ timer' = FALSE

Connect ==
  /\ required
  /\ Disturbs
  /\ stage' = IF stage = "none" THEN "reach" ELSE stage
  /\ ForgetRetry
  /\ UNCHANGED <<mediator, socket, opening, drain, acks, deferred, closed, required, handed, missed, unread>>

(* The line made, the replica enrolled, its addresses added; closed, every *)
(* request is refused.                                                     *)
Reach ==
  /\ stage = "reach" /\ ~closed
  /\ stage' = "drain"
  /\ drain' = [drain EXCEPT !["connect"] = Loop(1)]
  /\ UNCHANGED <<mediator, socket, opening, acks, deferred, timer, trying, closed, required, handed, missed, disturbed, unread>>

Unreached ==
  /\ stage \in {"reach", "failed"}
  /\ IF closed \/ stage = "failed" THEN UNCHANGED disturbed ELSE Disturbs
  /\ stage' = "none"
  /\ RetryLater
  /\ UNCHANGED <<mediator, socket, opening, drain, acks, deferred, trying, closed, required, handed, missed, unread>>

(* The queue picked up, the socket is opened unless there is one.          *)
OpenSocket ==
  /\ stage = "open"
  /\ stage' = "none"
  /\ IF KeepsLive /\ socket = None
     THEN \E c \in Sockets : Accept(c) /\ socket' = c /\ opening' = TRUE
     ELSE UNCHANGED <<used, sess, kept, socket, opening>>
  /\ UNCHANGED <<queue, offer, first, up, down, cut, mute, drain, acks, deferred, timer, trying, closed, required, handed, missed, disturbed, unread>>

(* The first frame of the socket switches live delivery on, unless it is   *)
(* no longer the line's; one that cannot be sealed closes it.              *)
SwitchOn ==
  /\ socket # None /\ opening
  /\ opening' = FALSE
  /\ \/ up' = [up EXCEPT ![socket] = IF socket \in cut THEN @ ELSE @ \cup {[did |-> Me, at |-> "opening"]}] /\ UNCHANGED <<cut, disturbed>>
     \/ cut' = cut \cup {socket} /\ UNCHANGED up /\ Disturbs
  /\ UNCHANGED <<queue, offer, sess, kept, first, down, used, mute, socket, stage, drain, acks, deferred, timer, trying, closed, required, handed, missed, unread>>

(* The socket closed on its own: the line has none and waits to connect.   *)
SocketClosed ==
  /\ socket # None /\ socket \in cut
  /\ socket' = None /\ opening' = FALSE
  /\ RetryLater
  /\ UNCHANGED <<mediator, stage, drain, acks, deferred, trying, closed, required, handed, missed, disturbed, unread>>

(* A frame of a socket that is no longer the line's is dropped.  A status  *)
(* saying that live delivery is on drops the wait and starts a pickup; a   *)
(* delivery is taken in its turn and acknowledged off it.                  *)
PicksNothingUp == ForgetRetry /\ UNCHANGED drain
PickUpOnceLive ==
  /\ ForgetRetry
  /\ \E d \in {"live", "again"} :
       /\ drain[d] = Idle /\ (d = "again" => drain["live"] # Idle)
       /\ drain' = [drain EXCEPT ![d] = Loop(1)]

OnFrame == \E f \in IF socket = None THEN {} ELSE down[socket] :
  /\ down' = [down EXCEPT ![socket] = @ \ {f}]
  /\ CASE f.kind = "status" ->
            PickUpOnceLive /\ UNCHANGED <<acks, deferred, handed, disturbed>>
       [] f.kind = "delivery" ->
            /\ handed' = handed \cup {f.mail}
            /\ \/ acks' = acks \cup {f.mail} /\ UNCHANGED <<deferred, disturbed>>
               \/ deferred' = deferred \cup {f.mail} /\ UNCHANGED acks /\ Disturbs
            /\ UNCHANGED <<drain, timer, trying>>
       [] OTHER -> UNCHANGED <<drain, timer, trying, acks, deferred, handed, disturbed>>
  /\ UNCHANGED <<queue, offer, sess, kept, first, up, cut, used, mute, socket, opening, stage, closed, required, missed, unread>>

(* A frame that will not open, or was not sealed by the mediator.          *)
FrameDropped == \E f \in IF socket = None THEN {} ELSE down[socket] :
  /\ Disturbs
  /\ down' = [down EXCEPT ![socket] = @ \ {f}]
  /\ missed' = missed \cup queue
  /\ UNCHANGED <<queue, offer, sess, kept, first, up, cut, used, mute, agent, handed, unread>>

(* What a push carried, acknowledged; and what the receiver kept waiting,  *)
(* once it is through with it.  An acknowledgement may fail before or      *)
(* after the mediator has taken it.                                        *)
AcknowledgePush == \E m \in acks :
  /\ acks' = acks \ {m}
  /\ \/ ~closed /\ queue' = queue \ {m} /\ UNCHANGED disturbed
     \/ ~closed /\ UNCHANGED queue /\ Disturbs
     \/ closed /\ UNCHANGED <<queue, disturbed>>
  /\ UNCHANGED <<offer, sess, kept, first, up, down, cut, used, mute, socket, opening, stage, drain, deferred, timer, trying, closed, required, handed, missed, unread>>

AcknowledgeDeferred == \E m \in deferred :
  /\ ~closed
  /\ deferred' = deferred \ {m}
  /\ queue' = queue \ {m}
  /\ UNCHANGED <<offer, sess, kept, first, up, down, cut, used, mute, socket, opening, stage, drain, acks, timer, trying, closed, required, handed, missed, disturbed, unread>>

-----------------------------------------------------------------------------
(* The pickup loop.  The one of a connection goes on to the socket when it *)
(* ended and to a wait when it threw; the failure of one started by live   *)
(* delivery is logged, and what stands in the queue then is left.          *)
Ends(d, well) ==
  /\ drain' = [drain EXCEPT ![d] = Idle]
  /\ stage' = IF d # "connect" THEN stage ELSE IF well THEN "open" ELSE "failed"
Leaves(d) == missed' = IF d = "connect" THEN missed ELSE missed \cup queue
Goes(d, s) == drain' = [drain EXCEPT ![d] = s] /\ UNCHANGED stage
line == <<offer, sess, kept, first, up, down, cut, used, mute, socket, opening, acks, timer, trying, closed, required>>

DrainStatus(d) ==
  /\ drain[d].step = "status" /\ ~closed
  /\ IF queue = {} THEN Ends(d, TRUE)
     ELSE Goes(d, [drain[d] EXCEPT !.step = "request", !.count = Cardinality(queue)])
  /\ UNCHANGED <<line, queue, deferred, handed, missed, disturbed, unread>>

Page(limit) == {m \in queue : Cardinality({n \in queue : n <= m}) <= limit}
(* A delivery request is answered with a page of what waits or, when none  *)
(* does, with a status: a second read of the queue.                        *)
DrainRequest(d) ==
  /\ drain[d].step = "request" /\ ~closed
  /\ IF queue = {} THEN Goes(d, [drain[d] EXCEPT !.step = "counting"])
     ELSE Goes(d, [drain[d] EXCEPT !.step = "take", !.mail = Page(Min({drain[d].count, PageLimit}))])
  /\ UNCHANGED <<line, queue, deferred, handed, missed, disturbed, unread>>

DrainCounted(d) ==
  /\ drain[d].step = "counting"
  /\ Ends(d, queue = {})
  /\ UNCHANGED <<line, queue, deferred, handed, missed, disturbed, unread>>

DrainFails(d) ==
  /\ drain[d].step \in {"status", "request", "counting"}
  /\ IF closed THEN UNCHANGED disturbed ELSE Disturbs
  /\ Ends(d, FALSE)
  /\ Leaves(d)
  /\ UNCHANGED <<line, queue, deferred, handed, unread>>

(* What the receiver is done with is acknowledged; what it keeps waiting   *)
(* stays queued.  A round that acknowledges nothing ends the loop.         *)
DrainTake(d) ==
  /\ drain[d].step = "take"
  /\ handed' = handed \cup drain[d].mail
  /\ \E taken \in SUBSET drain[d].mail :
       /\ deferred' = deferred \cup (drain[d].mail \ taken)
       /\ IF taken = drain[d].mail THEN UNCHANGED disturbed ELSE Disturbs
       /\ IF taken = {} THEN Ends(d, TRUE) /\ Leaves(d)
          ELSE Goes(d, [drain[d] EXCEPT !.step = "acknowledge", !.mail = taken]) /\ UNCHANGED missed
  /\ UNCHANGED <<line, queue, unread>>

DrainAcknowledge(d) ==
  /\ drain[d].step = "acknowledge" /\ ~closed
  /\ queue' = queue \ drain[d].mail
  /\ IF drain[d].round < Rounds THEN Goes(d, Loop(drain[d].round + 1)) /\ UNCHANGED missed
     ELSE Ends(d, TRUE) /\ Leaves(d)
  /\ UNCHANGED <<line, deferred, handed, disturbed, unread>>

DrainUnacknowledged(d) ==
  /\ drain[d].step = "acknowledge"
  /\ IF closed THEN UNCHANGED <<disturbed, queue>> ELSE Disturbs /\ queue' \in {queue, queue \ drain[d].mail}
  /\ Ends(d, TRUE)
  /\ Leaves(d)
  /\ UNCHANGED <<line, deferred, handed, unread>>

-----------------------------------------------------------------------------
(* A wait runs out; the vault is read before the try, which connects if it *)
(* still stands and the arrangement is still one to receive on.            *)
TimerFires ==
  /\ timer
  /\ timer' = FALSE /\ trying' = TRUE
  /\ UNCHANGED <<mediator, socket, opening, stage, drain, acks, deferred, closed, required, handed, missed, disturbed, unread>>

Retry ==
  /\ trying
  /\ trying' = FALSE
  /\ IF required THEN ConnectTo ELSE UNCHANGED <<stage, timer>>
  /\ UNCHANGED <<mediator, socket, opening, drain, acks, deferred, closed, required, handed, missed, disturbed, unread>>

RetryUnread ==
  /\ trying
  /\ ~unread /\ unread' = TRUE
  /\ trying' = FALSE
  /\ RetryLater
  /\ UNCHANGED <<mediator, socket, opening, stage, drain, acks, deferred, closed, required, handed, missed, disturbed>>

Retire ==
  /\ required
  /\ Disturbs
  /\ required' = FALSE
  /\ UNCHANGED <<mediator, socket, opening, stage, drain, acks, deferred, timer, trying, closed, handed, missed, unread>>

Close ==
  /\ ~closed
  /\ Disturbs
  /\ closed' = TRUE
  /\ ForgetRetry
  /\ cut' = IF socket = None THEN cut ELSE cut \cup {socket}
  /\ socket' = None /\ opening' = FALSE
  /\ UNCHANGED <<queue, offer, sess, kept, first, up, down, used, mute, stage, drain, acks, deferred, required, handed, missed, unread>>

-----------------------------------------------------------------------------
Mediates ==
  \/ \E m \in Mail : WantsPush(m) \/ PushLiveDelivery(m)
  \/ \E c \in Sockets : Unpack(c) \/ LiveDeliveryChange(c) \/ SessionClose(c)
PicksUp == \E d \in Drains :
  DrainStatus(d) \/ DrainRequest(d) \/ DrainCounted(d) \/ DrainTake(d) \/ DrainAcknowledge(d) \/ (closed /\ (DrainFails(d) \/ DrainUnacknowledged(d)))
KeepsUp ==
  \/ Reach \/ Unreached \/ OpenSocket \/ SwitchOn \/ SocketClosed \/ OnFrame
  \/ AcknowledgePush \/ AcknowledgeDeferred \/ TimerFires \/ Retry
Proceeds == Mediates \/ PicksUp \/ KeepsUp

Disturbed ==
  \/ \E m \in Mail : Store(m) \/ PushFails(m) \/ Expire(m)
  \/ \E c \in Sockets : FrameRefused(c) \/ Cut(c) \/ StrangerSends(c)
  \/ \E d \in Drains : DrainFails(d) \/ DrainUnacknowledged(d)
  \/ Evict \/ FrameDropped \/ RetryUnread \/ Connect \/ Retire \/ Close

Next == Proceeds \/ Disturbed

(* Everything under way ends: requests are answered or given up at their   *)
(* deadline, timers fire, closed sockets are told of.                      *)
Fairness == WF_vars(Proceeds)
Spec == Init /\ [][Next]_vars /\ Fairness

-----------------------------------------------------------------------------
TypeOK ==
  /\ queue \subseteq Mail /\ handed \subseteq Mail /\ missed \subseteq Mail
  /\ offer \in [Mail -> {"none", "stored", "wanted", "over"}]
  /\ sess \in [Sockets -> Session \cup {None}] /\ kept \in [Sockets -> Session \cup {None}]
  /\ socket \in Sockets \cup {None} /\ stage \in {"none", "reach", "drain", "open", "failed"}
  /\ drain["connect"] # Idle <=> stage = "drain"

(* A session belongs to the first DID proven on its socket and to no other *)
(* while it is open, an eviction of the hub in between included; so the    *)
(* replica's mail is pushed only where its DID was the first proven,       *)
(* whatever envelopes are sent down a socket again (sessions.ts bindFirst, *)
(* inbox-hub.ts adopt, pickup.ts inboxOf).                                 *)
BoundToFirst == \A c \in Sockets :
  /\ sess[c] # None => sess[c].did = first[c]
  /\ \A f \in down[c] : f.kind = "delivery" => first[c] = Me

(* Mail reaches the agent: what is queued comes to the receiver, or leaves *)
(* the queue at its expiry, while the agent is open and the arrangement is *)
(* to be received on, whatever order pushes, pickups, reconnections and    *)
(* acknowledgements come in, and though a pickup may take mail arriving    *)
(* between two reads of the queue for a fault (pickup.ts drain).  Left out *)
(* is what stood in the queue when a pickup once live, or a frame, was     *)
(* given up: it waits for the next connection.                             *)
ReachesTheAgent == \A m \in Mail :
  m \in queue ~> (m \in handed \cup missed \/ m \notin queue \/ closed \/ ~required \/ socket \in mute)

(* Live delivery comes back: an open agent that has connected ends with a  *)
(* socket the mediator holds live for it, whatever was cut, failed or      *)
(* raced, unless the mediator left the switch unanswered (agent.ts         *)
(* retryLater, retry, connectOnce; link.ts openSocket).                    *)
IsLive == socket # None /\ (socket # None => sess[socket] # None /\ (sess[socket] # None => sess[socket].live))
LiveInTheEnd == <>[](closed \/ ~required \/ socket \in mute \/ IsLive)
=============================================================================
