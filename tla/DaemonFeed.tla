----------------------------- MODULE DaemonFeed -----------------------------
(***************************************************************************)
(* How a view is kept shown the daemon's state: the publisher              *)
(* (daemon/src/publisher.ts), the served session with its bounded queue    *)
(* (daemon-api/src/wire/server.ts, attached by daemon/src/adapter.ts), and *)
(* the reconnecting client (daemon-api/src/client/session.ts and           *)
(* reconnecting.ts).  A state is told apart by its epoch, its revision,    *)
(* the runtime it was read off and how many changes the read covers.  One  *)
(* view, one port after another; a port carries one frame at a time, so    *)
(* that a slow one leaves the queue to fill.                               *)
(***************************************************************************)
EXTENDS Naturals, Sequences, FiniteSets

CONSTANTS
    MaxQueued,    \* maxQueuedFrames
    MaxRevision,  \* maxRevision of the publisher
    MaxChanges,   \* bound: changes of the runtime
    MaxPhases,    \* bound: runtimes opened and phases said
    MaxCalls,     \* bound: calls of the view
    MaxSaid,      \* bound: lines replaced and log lines said
    MaxFaults,    \* bound: reads that fail, ports that close
    None

ASSUME FeedAssumption ==
    /\ MaxQueued \in Nat \ {0}
    /\ MaxRevision \in Nat \ {0}
    /\ {MaxChanges, MaxPhases, MaxCalls, MaxSaid, MaxFaults} \subseteq Nat

VARIABLES
    pub,    \* the publisher
    srv,    \* the session served, or None
    wire,   \* frames the port carries to the view
    up,     \* frames it carries to the daemon
    view,   \* the client
    count   \* phases said, calls made, words said, faults

vars == <<pub, srv, wire, up, view, count>>

State(epoch, rev, open, of, cover) == [kind |-> "state", epoch |-> epoch, rev |-> rev, open |-> open, of |-> of, cover |-> cover]

Lines(epoch, rev) == [kind |-> "lines", epoch |-> epoch, rev |-> rev]

Marker(s) == [epoch |-> s.epoch, rev |-> s.rev]

Init ==
    /\ pub = [state |-> State(1, 1, FALSE, 0, 0), lines |-> Lines(1, 1), changes |-> 0, covered |-> 0, failure |-> None,
              opened |-> None, building |-> None, waiters |-> {}, out |-> <<>>]
    /\ srv = None
    /\ wire = <<>>
    /\ up = <<>>
    /\ view = [conn |-> "down", state |-> None, lines |-> None, barriers |-> {}, answered |-> {}]
    /\ count = [phases |-> 0, calls |-> 0, said |-> 0, faults |-> 0]

-----------------------------------------------------------------------------
(* The publisher.  Each operator takes the publisher and gives what it     *)
(* comes to; out collects what its subscriber and its callers are told.    *)

Tell(p, frame) == [p EXCEPT !.out = Append(@, frame)]

Reply(w, marker) == [kind |-> "reply", id |-> w.id, call |-> w.call, marker |-> marker, target |-> w.target]

RECURSIVE TellAll(_, _, _)
TellAll(p, ws, marker) ==
    IF ws = {} THEN p
    ELSE LET w == CHOOSE x \in ws : \A y \in ws : x.id <= y.id
         IN TellAll(IF w.id = 0 THEN p ELSE Tell(p, Reply(w, marker)), ws \ {w}, marker)

(* Every waiter refused: by a change of epoch or by a read that failed.    *)
Refuse(p) == [TellAll(p, p.waiters, None) EXCEPT !.waiters = {}]

Renew(p, open, of, cover) ==
    LET q == Refuse([p EXCEPT !.failure = None])
        s == State(q.state.epoch + 1, 1, open, of, cover)
    IN Tell(Tell([q EXCEPT !.state = s, !.lines = Lines(s.epoch, 1)], s), Lines(s.epoch, 1))

PublishState(p, open, of, cover) ==
    IF p.state.rev >= MaxRevision THEN Renew(p, open, of, cover)
    ELSE LET s == State(p.state.epoch, p.state.rev + 1, open, of, cover) IN Tell([p EXCEPT !.state = s], s)

PublishLines(p) ==
    LET q == IF p.lines.rev >= MaxRevision THEN Renew(p, p.state.open, p.state.of, p.state.cover) ELSE p
        l == Lines(q.state.epoch, q.lines.rev + 1)
    IN Tell([q EXCEPT !.lines = l], l)

(* schedule(): a read is due unless one is under way, what is published    *)
(* covers every change, or the last read failed and nobody asks.           *)
Due(p) ==
    /\ p.building = None
    /\ p.opened # None
    /\ p.opened.installed =>
         /\ p.covered < p.changes
         /\ p.failure # None => p.failure < p.changes \/ p.waiters # {}

Schedule(p) == IF Due(p) THEN [p EXCEPT !.building = [of |-> p.opened.id, covering |-> p.changes]] ELSE p

(* abandon(): the runtime shown is gone.                                   *)
Leave(p) ==
    IF p.opened = None THEN p
    ELSE IF p.opened.installed THEN [Refuse(p) EXCEPT !.opened = None] ELSE [p EXCEPT !.opened = None]

(* refresh(): at once when what is published covers every change, or no    *)
(* runtime stands published.                                               *)
Refresh(p, id, called) ==
    LET shown == p.opened # None => p.opened.installed
        w     == [id |-> id, call |-> called, target |-> IF p.opened = None \/ ~shown THEN 0 ELSE p.changes]
    IN IF w.target <= p.covered THEN TellAll(p, {w}, Marker(p.state))
       ELSE Schedule([p EXCEPT !.waiters = @ \cup {w}])

Answer(p) ==
    LET met == {w \in p.waiters : w.target <= p.covered}
    IN [TellAll(p, met, Marker(p.state)) EXCEPT !.waiters = @ \ met]

-----------------------------------------------------------------------------
(* The session's queue.                                                    *)

(* With a bug: a newer value takes the place of one of another epoch.      *)
ReplacesAny(e, queued) == e.kind \in {"state", "lines"} /\ queued.kind = e.kind

(* A newer value takes the place of one of the same epoch.                 *)
Replaces(e, queued) == e.kind \in {"state", "lines"} /\ queued.kind = e.kind /\ queued.epoch = e.epoch

NotLog(f) == f.kind # "log"

(* enqueue(): a queue over its bound drops its logs, and a port that holds *)
(* more than is owed is closed.                                            *)
Enqueue(s, e) ==
    IF s = None THEN None
    ELSE IF s.ending \/ (~s.attached /\ e.kind \in {"state", "lines", "log"}) THEN s
    ELSE LET at   == {i \in DOMAIN s.queue : Replaces(e, s.queue[i])}
             q    == IF at = {} THEN Append(s.queue, e) ELSE [s.queue EXCEPT ![CHOOSE i \in at : TRUE] = e]
             owed == SelectSeq(q, NotLog)
         IN IF Len(q) <= MaxQueued THEN [s EXCEPT !.queue = q]
            ELSE IF Len(owed) > MaxQueued THEN None
            ELSE [s EXCEPT !.queue = owed]

(* fault(): the last frame, whatever is queued before it.                  *)
Faulted(s) == IF s = None \/ s.ending THEN s ELSE [s EXCEPT !.ending = TRUE, !.queue = Append(@, [kind |-> "fault"])]

RECURSIVE EnqueueAll(_, _)
EnqueueAll(s, out) ==
    IF out = <<>> THEN s
    ELSE EnqueueAll(IF Head(out).kind = "fault" THEN Faulted(s) ELSE Enqueue(s, Head(out)), Tail(out))

(* What the publisher said reaches the session in the same turn.           *)
Publish(p) ==
    \E q \in {p} :
       /\ pub' = [q EXCEPT !.out = <<>>]
       /\ srv' = EnqueueAll(srv, q.out)

-----------------------------------------------------------------------------
(* What the daemon does with its publisher.                                *)

(* stop(): nothing is read any more, and the state stands, open, until a   *)
(* phase or another runtime takes its place.                               *)
Stopped == pub.opened = None /\ pub.state.open

SetPhase ==
    /\ IF Stopped THEN UNCHANGED count
       ELSE count.phases < MaxPhases /\ count' = [count EXCEPT !.phases = @ + 1]
    /\ LET p == Leave(pub)
       IN \/ Publish(Renew(p, FALSE, p.state.of, p.changes))
          \/ ~p.state.open /\ Publish(PublishState(p, FALSE, p.state.of, p.changes))   \* only the detail differs
    /\ UNCHANGED <<wire, up, view>>

OpenRuntime ==
    /\ pub.opened = None
    /\ count.phases < MaxPhases
    /\ count' = [count EXCEPT !.phases = @ + 1]
    /\ Publish(Schedule([pub EXCEPT !.opened = [id |-> count.phases + 1, installed |-> FALSE, lines |-> FALSE]]))
    /\ UNCHANGED <<wire, up, view>>

CloseRuntime ==
    /\ pub.opened # None
    /\ Publish(Leave(pub))
    /\ UNCHANGED <<wire, up, view, count>>

Invalidate ==
    /\ pub.opened # None
    /\ pub.changes < MaxChanges
    /\ Publish(Schedule([pub EXCEPT !.changes = @ + 1]))
    /\ UNCHANGED <<wire, up, view, count>>

(* The agent's lines, which wait for the first read, and its log.          *)
SayLines ==
    /\ pub.opened # None
    /\ count.said < MaxSaid
    /\ count' = [count EXCEPT !.said = @ + 1]
    /\ Publish(IF pub.opened.installed THEN PublishLines(pub) ELSE [pub EXCEPT !.opened.lines = TRUE])
    /\ UNCHANGED <<wire, up, view>>

SayLog ==
    /\ count.said < MaxSaid
    /\ count' = [count EXCEPT !.said = @ + 1]
    /\ Publish(Tell(pub, [kind |-> "log", epoch |-> pub.state.epoch]))
    /\ UNCHANGED <<wire, up, view>>

(* The cut: what was committed by now is what the read covers.             *)
CutBegins ==
    /\ pub.building # None
    /\ pub.building.covering < pub.changes
    /\ pub' = [pub EXCEPT !.building.covering = pub.changes]
    /\ UNCHANGED <<srv, wire, up, view, count>>

(* With a bug: a read is taken to cover what was counted when it ends.     *)
CoveredLate(p, b) == p.changes

CoveredBy(p, b) == b.covering

(* build(): a read begun for a runtime that is gone is published nowhere;  *)
(* the first of a runtime begins an epoch.                                 *)
Built(p, b) ==
    IF p.opened = None \/ p.opened.id # b.of THEN p
    ELSE LET q == IF p.opened.installed THEN PublishState(p, TRUE, b.of, b.covering)
                  ELSE LET r == Renew([p EXCEPT !.opened.installed = TRUE], TRUE, b.of, b.covering)
                       IN IF p.opened.lines THEN PublishLines(r) ELSE r
         IN Answer([q EXCEPT !.covered = CoveredBy(p, b), !.failure = None])

(* A change made while the read is under way may or may not be in it only  *)
(* before the cut: the writer lock is held from the cut on.                *)
BuildEnds ==
    /\ pub.building # None
    /\ LET b == pub.building
       IN Publish(Schedule(Built([pub EXCEPT !.building = None], b)))
    /\ UNCHANGED <<wire, up, view, count>>

(* A read that fails: before the first one stands the runtime is refused,  *)
(* after it the state stands, stale, and the view is faulted unless the    *)
(* failure is damage, which a phase follows.                               *)
BuildFails ==
    /\ pub.building # None
    /\ count.faults < MaxFaults
    /\ count' = [count EXCEPT !.faults = @ + 1]
    /\ LET b == pub.building
           p == [pub EXCEPT !.building = None]
       IN IF p.opened = None \/ p.opened.id # b.of THEN Publish(Schedule(p))
          ELSE IF ~p.opened.installed THEN Publish([p EXCEPT !.opened = None])
          ELSE \/ Publish(Schedule(Tell(Refuse([p EXCEPT !.failure = b.covering]), [kind |-> "fault"])))
               \/ Publish(Renew(Leave(Refuse(p)), FALSE, p.state.of, p.changes))
    /\ UNCHANGED <<wire, up, view>>

-----------------------------------------------------------------------------
(* The session's side of the port.                                         *)

Pump ==
    /\ srv # None
    /\ srv.queue # <<>>
    /\ wire = <<>>
    /\ wire' = <<Head(srv.queue)>>
    /\ srv' = IF Head(srv.queue).kind = "fault" THEN None ELSE [srv EXCEPT !.queue = Tail(@)]
    /\ UNCHANGED <<pub, up, view, count>>

(* With a bug: a view that finds the state stale asks for no read.         *)
AttachUnasked ==
    /\ srv # None
    /\ up # <<>>
    /\ Head(up).call = "attach"
    /\ up' = Tail(up)
    /\ IF pub.failure # None THEN pub' = pub /\ srv' = Faulted(srv)
       ELSE /\ pub' = pub
            /\ srv' = [Enqueue(srv, [kind |-> "baseline", state |-> pub.state, lines |-> pub.lines]) EXCEPT !.attached = TRUE]
    /\ UNCHANGED <<wire, view, count>>

(* attachTo(): refused while the state is stale, a read asked for.         *)
Attach ==
    /\ srv # None
    /\ up # <<>>
    /\ Head(up).call = "attach"
    /\ up' = Tail(up)
    /\ IF pub.failure # None THEN pub' = [Refresh(pub, 0, "attach") EXCEPT !.out = <<>>] /\ srv' = Faulted(srv)
       ELSE /\ pub' = pub
            /\ srv' = [Enqueue(srv, [kind |-> "baseline", state |-> pub.state, lines |-> pub.lines]) EXCEPT !.attached = TRUE]
    /\ UNCHANGED <<wire, view, count>>

(* A refresh, or a call that changes the vault and is answered once every  *)
(* change so far is published (settle()).                                  *)
Serve ==
    /\ srv # None
    /\ up # <<>>
    /\ Head(up).call \in {"refresh", "act"}
    /\ up' = Tail(up)
    /\ LET p == IF Head(up).call = "act" /\ pub.opened # None /\ pub.changes < MaxChanges
                THEN Schedule([pub EXCEPT !.changes = @ + 1]) ELSE pub
       IN Publish(Refresh(p, Head(up).id, Head(up).call))
    /\ UNCHANGED <<wire, view, count>>

-----------------------------------------------------------------------------
(* The client.                                                             *)

(* Reconnecting: another port, attached afresh; nothing carries over but   *)
(* what the view was shown, and what the last one asked for is answered to *)
(* nobody.                                                                 *)
Open ==
    /\ view.conn = "down"
    /\ view' = [view EXCEPT !.conn = "connecting"]
    /\ srv' = [attached |-> FALSE, ending |-> FALSE, queue |-> <<>>]
    /\ up' = <<[call |-> "attach", id |-> 0]>>
    /\ wire' = <<>>
    /\ pub' = [pub EXCEPT !.waiters = {[w EXCEPT !.id = 0] : w \in @}]
    /\ UNCHANGED count

(* finish(): calls and barriers are lost with the connection.              *)
Finish(v, why) == [v EXCEPT !.conn = why, !.barriers = {}]

Hangs(why) ==
    /\ view' = Finish(view, why)
    /\ srv' = None
    /\ up' = <<>>
    /\ wire' = <<>>

(* A port that closes, from either end or between.                         *)
PortCloses ==
    /\ view.conn \in {"connecting", "connected"}
    /\ IF srv = None THEN UNCHANGED count ELSE count.faults < MaxFaults /\ count' = [count EXCEPT !.faults = @ + 1]
    /\ Hangs("down")
    /\ UNCHANGED pub

Call ==
    /\ view.conn = "connected"
    /\ count.calls < MaxCalls
    /\ count' = [count EXCEPT !.calls = @ + 1]
    /\ \E c \in {"refresh", "act"} : up' = Append(up, [call |-> c, id |-> count.calls + 1])
    /\ UNCHANGED <<pub, srv, wire, view>>

(* settled(): the barriers the state shown meets, or whose epoch is over.  *)
Met(v, b) == v.state.epoch = b.marker.epoch /\ v.state.rev >= b.marker.rev

Settled(v) ==
    [v EXCEPT !.answered = @ \cup {b \in v.barriers : Met(v, b)},
              !.barriers = {b \in @ : v.state.epoch = b.marker.epoch /\ ~Met(v, b)}]

Error(v) == [v EXCEPT !.conn = "protocolError"]

ApplyState(v, f) ==
    IF f.epoch = v.state.epoch /\ f.rev < v.state.rev THEN Error(v)
    ELSE IF f.epoch = v.state.epoch /\ f.rev = v.state.rev THEN v
    ELSE Settled([v EXCEPT !.state = f])

ApplyLines(v, f) ==
    IF f.epoch # v.state.epoch \/ (f.epoch = v.lines.epoch /\ f.rev < v.lines.rev) THEN Error(v)
    ELSE [v EXCEPT !.lines = f]

(* A refresh is answered by a barrier, another call as it is.              *)
ApplyReply(v, f) ==
    IF f.marker = None THEN v
    ELSE IF f.call = "act" THEN [v EXCEPT !.answered = @ \cup {[marker |-> f.marker, target |-> f.target]}]
    ELSE Settled([v EXCEPT !.barriers = @ \cup {[marker |-> f.marker, target |-> f.target]}])

Apply(v, f) ==
    CASE f.kind \notin {"baseline", "reply"} /\ v.conn # "connected" -> Error(v)
      [] f.kind = "baseline" -> IF f.state.epoch # f.lines.epoch THEN Error(v)
                                  ELSE [v EXCEPT !.conn = "connected", !.state = f.state, !.lines = f.lines]
      [] f.kind = "reply"    -> ApplyReply(v, f)
      [] f.kind = "state" /\ v.conn = "connected" -> ApplyState(v, f)
      [] f.kind = "lines" /\ v.conn = "connected" -> ApplyLines(v, f)
      [] f.kind = "log" /\ v.conn = "connected"   -> IF f.epoch # v.state.epoch THEN Error(v) ELSE v

Receive ==
    /\ wire # <<>>
    /\ view.conn \in {"connecting", "connected"}
    /\ IF Head(wire).kind = "fault" THEN Hangs("down")
       ELSE LET v == Apply(view, Head(wire))
            IN IF v.conn = "protocolError" THEN Hangs("protocolError")
               ELSE view' = v /\ wire' = Tail(wire) /\ UNCHANGED <<srv, up>>
    /\ UNCHANGED <<pub, count>>

Next ==
    \/ SetPhase \/ OpenRuntime \/ CloseRuntime \/ Invalidate \/ SayLines \/ SayLog
    \/ CutBegins \/ BuildEnds \/ BuildFails
    \/ Pump \/ Attach \/ Serve
    \/ Open \/ PortCloses \/ Call \/ Receive

(* A read ends, the port carries what it is given, and the client opens    *)
(* another port when its timer is up; what the daemon's user does is not   *)
(* promised, nor is it when a view calls.                                  *)
Spec ==
    /\ Init
    /\ [][Next]_vars
    /\ WF_vars(CutBegins \/ BuildEnds)
    /\ WF_vars(Pump)
    /\ WF_vars(Attach \/ Serve)
    /\ WF_vars(Open)
    /\ WF_vars(Receive)
    /\ WF_vars(PortCloses /\ srv = None)
    /\ WF_vars(Stopped /\ SetPhase)

-----------------------------------------------------------------------------
(* Whatever the daemon publishes, and whatever its queue replaces or drops *)
(* for a slow port, the client reads as the contract says: no state or     *)
(* line is older than the one shown, none belongs to another epoch than    *)
(* the state, and nothing comes before the baseline.                       *)
NoProtocolError == view.conn # "protocolError"

(* What a view is answered it is shown: once a refresh is met, or a call   *)
(* that changed the vault is answered, the state consumed covers every     *)
(* change committed before the daemon answered, or a later epoch stands.   *)
(* Not so where the refresh was refused, damage having been met or the     *)
(* runtime being stopped: then it is the state that stood (daemon.ts 398,  *)
(* 579), and an answer has no target beyond it.                            *)
AnswersCovered ==
    \A a \in view.answered :
       \/ view.state.epoch > a.marker.epoch
       \/ /\ view.state.epoch = a.marker.epoch
          /\ view.state.rev >= a.marker.rev
          /\ view.state.open => view.state.cover >= a.target

(* A view is not left behind: from some time on it is connected and shown  *)
(* what the publisher has, and an open vault's every change is in it,      *)
(* after any failed read, dropped port or overflowing queue.               *)
CaughtUp ==
    /\ view.conn = "connected"
    /\ view.state = pub.state
    /\ view.lines = pub.lines
    /\ pub.opened # None => pub.covered = pub.changes

ViewCatchesUp == <>[]CaughtUp
=============================================================================
