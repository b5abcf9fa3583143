---------------------------- MODULE SnapshotLinks ----------------------------
(***************************************************************************)
(* publishSnapshotLink and revokeSnapshotLink of the daemon, with the      *)
(* records daemon/src/snapshot-links.ts keeps of the snapshots put at the  *)
(* mediator.  Publishing asks the agent for the mediator's limits, exports *)
(* in a turn of the files' queue, and then puts and uploads as a call over *)
(* the agent.  A put and a revocation wait for each other (SNAPSHOT_PUTS). *)
(* A request that was given up may still be carried out at the mediator.   *)
(* Each caller publishes one snapshot, named by the caller.                *)
(***************************************************************************)
EXTENDS Daemon

VARIABLES
    job,      \* by caller, a publishing between its calls over the agent
    link,     \* the local option kept of the caller's snapshot, or None
    blob,     \* the mediator's blob under its name
    putting,  \* whose turn it is in SNAPSHOT_PUTS
    onway,    \* requests to the mediator not yet carried out
    revoked   \* history: snapshots whose revocation was answered

linkVars == <<job, link, blob, putting, onway, revoked>>

Jobs == [agent : Nat, at : {"export", "sealed"}]
Records == [stage : {"asked", "placed", "uploaded"}, author : Nat]
Blobs == [stage : {"granted", "uploaded"}, author : Nat]
Requests == [what : {"put", "upload", "delete"}, of : Callers, author : Nat]

ASSUME LinkNamesApart == None \notin Jobs \cup Records \cup Blobs

LinksTypeOK ==
    /\ TypeOK
    /\ job \in [Callers -> Jobs \cup {None}]
    /\ link \in [Callers -> Records \cup {None}]
    /\ blob \in [Callers -> Blobs \cup {None}]
    /\ putting \in Callers \cup {None}
    /\ onway \subseteq Requests
    /\ revoked \subseteq Callers

LinksInit ==
    /\ Init
    /\ job = [c \in Callers |-> None]
    /\ link = [c \in Callers |-> None]
    /\ blob = [c \in Callers |-> None]
    /\ putting = None
    /\ onway = {}
    /\ revoked = {}

author == count.renewed

In(c, kind, at) == call[c] # None /\ call[c].kind = kind /\ call[c].at = at

Asks(what, c) == [what |-> what, of |-> c, author |-> author]

Moves(c, at) == call' = [call EXCEPT ![c].at = at]

KeepRest == UNCHANGED <<fileVars, lookVars, open, agent, fetching, closed, turnVars, count>>

-----------------------------------------------------------------------------
(* The limits are asked for as a call over the agent.                      *)
PublishSnapshotLink(c) ==
    /\ job[c] = None
    /\ link[c] = None
    /\ c \notin revoked
    /\ Begin(c, "publish", "limits")
    /\ UNCHANGED linkVars

(* With a bug: the call over the agent waits for the files' turn.          *)
PublishExportDuring(c) ==
    /\ In(c, "publish", "limits")
    /\ IF closed \/ phase = "elsewhere" THEN Settle(c) /\ UNCHANGED <<queue, job>>
       ELSE /\ Moves(c, "export")
            /\ job' = [job EXCEPT ![c] = [agent |-> call[c].agent, at |-> "export"]]
            /\ queue' = Append(queue, Turn("export", c))
    /\ UNCHANGED <<fileVars, lookVars, open, agent, fetching, closed, turn, count, link, blob, putting, onway, revoked>>

(* That call over, the export waits for its turn with nothing under way    *)
(* over the agent.                                                         *)
PublishExport(c) ==
    /\ In(c, "publish", "limits")
    /\ Settle(c)
    /\ IF closed \/ phase = "elsewhere" THEN UNCHANGED <<queue, job>>
       ELSE /\ job' = [job EXCEPT ![c] = [agent |-> call[c].agent, at |-> "export"]]
            /\ queue' = Append(queue, Turn("export", c))
    /\ UNCHANGED <<fileVars, lookVars, open, agent, fetching, closed, turn, count, link, blob, putting, onway, revoked>>

(* The export in its turn: refused once the vault was let go of.           *)
PublishExported ==
    /\ At("export", "begin")
    /\ turn.arg # None
    /\ job' = [job EXCEPT ![turn.arg] = IF @ = None \/ open = None THEN None ELSE [@ EXCEPT !.at = "sealed"]]
    /\ Done
    /\ UNCHANGED <<fileVars, lookVars, workVars, fetching, closed, queue, count, link, blob, putting, onway, revoked>>

(* The put as a call over the agent it was begun with, refused when that   *)
(* agent is detached.                                                      *)
PublishPut(c) ==
    /\ job[c] # None
    /\ job[c].at = "sealed"
    /\ job' = [job EXCEPT ![c] = None]
    /\ call[c] = None
    /\ call' = IF agent # None /\ agent.id = job[c].agent /\ ~agent.ended
               THEN [call EXCEPT ![c] = [kind |-> "publish", agent |-> agent.id, at |-> "queued"]]
               ELSE call
    /\ KeepRest
    /\ UNCHANGED <<link, blob, putting, onway, revoked>>

(* prune(): what nothing here can revoke and nobody was given the key of.  *)
Pruned == [c \in Callers |-> IF link[c] # None /\ link[c].stage # "uploaded" /\ link[c].author # author THEN None ELSE link[c]]

(* Its turn in SNAPSHOT_PUTS: the put is on record before it is asked for. *)
PutAsked(c) ==
    /\ In(c, "publish", "queued")
    /\ putting = None
    /\ putting' = c
    /\ link' = [Pruned EXCEPT ![c] = [stage |-> "asked", author |-> author]]
    /\ onway' = onway \cup {Asks("put", c)}
    /\ Moves(c, "putting")
    /\ KeepRest
    /\ UNCHANGED <<job, blob, revoked>>

(* The mediator's answer to the put is where to upload; the upload's is    *)
(* the link.                                                               *)
Placed(c) ==
    /\ In(c, "publish", "putting")
    /\ Asks("put", c) \notin onway
    /\ link' = [link EXCEPT ![c] = [stage |-> "placed", author |-> author]]
    /\ onway' = onway \cup {Asks("upload", c)}
    /\ Moves(c, "uploading")
    /\ KeepRest
    /\ UNCHANGED <<job, blob, putting, revoked>>

(* The mediator holds nothing of a put it refused.                         *)
PutRefused(c) ==
    /\ In(c, "publish", "putting")
    /\ Asks("put", c) \in onway
    /\ onway' = onway \ {Asks("put", c)}
    /\ link' = [link EXCEPT ![c] = None]
    /\ putting' = None
    /\ Settle(c)
    /\ KeepRest
    /\ UNCHANGED <<job, blob, revoked>>

Uploaded(c) ==
    /\ In(c, "publish", "uploading")
    /\ Asks("upload", c) \notin onway
    /\ link' = [link EXCEPT ![c].stage = "uploaded"]
    /\ putting' = None
    /\ Settle(c)
    /\ KeepRest
    /\ UNCHANGED <<job, blob, onway, revoked>>

(* With a bug: a put without an answer is forgotten as a refused one is.   *)
UnansweredForgotten(c) ==
    /\ \/ In(c, "publish", "putting") \/ In(c, "publish", "uploading")
       \/ \E h \in Callers : In(c, "revoke", h)
    /\ link' = [link EXCEPT ![c] = None]
    /\ putting' = None
    /\ Settle(c)
    /\ KeepRest
    /\ UNCHANGED <<job, blob, onway, revoked>>

(* A put, an upload or a revocation without an answer throws; its record   *)
(* stays as far as it got.                                                 *)
Unanswered(c) ==
    /\ \/ In(c, "publish", "putting") \/ In(c, "publish", "uploading")
       \/ \E h \in Callers : In(c, "revoke", h)
    /\ putting' = None
    /\ Settle(c)
    /\ KeepRest
    /\ UNCHANGED <<job, link, blob, onway, revoked>>

RevokeSnapshotLink(c) == Begin(c, "revoke", "queued") /\ UNCHANGED linkVars

(* Its turn in SNAPSHOT_PUTS: only what this replica put.                  *)
RevokeAsked(c, h) ==
    /\ In(c, "revoke", "queued")
    /\ putting = None
    /\ IF link[h] = None \/ link[h].author # author
       THEN Settle(c) /\ UNCHANGED <<putting, onway>>
       ELSE /\ onway' = onway \cup {Asks("delete", h)}
            /\ putting' = c
            /\ Moves(c, h)
    /\ KeepRest
    /\ UNCHANGED <<job, link, blob, revoked>>

Revoked(c, h) ==
    /\ In(c, "revoke", h)
    /\ Asks("delete", h) \notin onway
    /\ link' = [link EXCEPT ![h] = None]
    /\ revoked' = revoked \cup {h}
    /\ putting' = IF putting = c THEN None ELSE putting
    /\ Settle(c)
    /\ KeepRest
    /\ UNCHANGED <<job, blob, onway>>

(* The mediator carries a request out, answered or given up: an upload     *)
(* needs the grant it was made under, and only the replica that put a      *)
(* snapshot may delete it.                                                 *)
Mediator(r) ==
    /\ r \in onway
    /\ onway' = onway \ {r}
    /\ blob' = [blob EXCEPT ![r.of] =
         CASE r.what = "put"    -> [stage |-> "granted", author |-> r.author]
           [] r.what = "upload" -> IF @ # None /\ @.author = r.author THEN [@ EXCEPT !.stage = "uploaded"] ELSE @
           [] r.what = "delete" -> IF @ # None /\ @.author = r.author THEN None ELSE @]
    /\ UNCHANGED <<vars, job, link, putting, revoked>>

LinkStep(c) ==
    \/ PublishExport(c) \/ PublishPut(c) \/ PutAsked(c) \/ Placed(c) \/ PutRefused(c) \/ Uploaded(c) \/ Unanswered(c)
    \/ \E h \in Callers : RevokeAsked(c, h) \/ Revoked(c, h)

LinksNext ==
    \/ Steps /\ UNCHANGED linkVars
    \/ PublishExported
    \/ \E c \in Callers : PublishSnapshotLink(c) \/ RevokeSnapshotLink(c) \/ LinkStep(c)
    \/ \E r \in onway : Mediator(r)
    \/ /\ Die
       /\ job' = [c \in Callers |-> None]
       /\ putting' = None
       /\ UNCHANGED <<link, blob, onway, revoked>>

LinksSpec ==
    /\ LinksInit
    /\ [][LinksNext]_<<vars, linkVars>>
    /\ WF_<<vars, linkVars>>((TurnStep /\ UNCHANGED linkVars) \/ PublishExported)
    /\ \A c \in Callers : WF_<<vars, linkVars>>((CallStep(c) /\ UNCHANGED linkVars) \/ LinkStep(c))

-----------------------------------------------------------------------------
Serves(c) == blob[c] # None /\ blob[c].stage = "uploaded"

(* Whatever bytes the mediator serves under this replica's name are on     *)
(* record here, so that their owner can revoke them: every stage is kept   *)
(* before the request that could make it true, whatever is lost or dies.   *)
LinksAccounted == \A c \in Callers : Serves(c) /\ blob[c].author = author => link[c] # None

(* What is shown of a store is true of it, and what is served of it is on  *)
(* record in it.                                                           *)
ShownAndServed == ShownTruly /\ LinksAccounted
=============================================================================
