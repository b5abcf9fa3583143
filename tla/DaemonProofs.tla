----------------------------- MODULE DaemonProofs -----------------------------
(***************************************************************************)
(* Proofs about the daemon over one vault file, for any number of callers, *)
(* turns, calls and faults: that nothing is closed or removed under        *)
(* another using it, that what a view is shown is true of the files, and   *)
(* that every snapshot served under this replica's name is on record in    *)
(* the vault.                                                              *)
(***************************************************************************)
EXTENDS SnapshotLinks, FiniteSetTheorems, TLAPS

(***************************************************************************)
(* The invariant.  No turn's step reads all it relies on: a turn goes on   *)
(* from what an earlier step of it, or a turn before it, left behind.  So  *)
(* the invariant says, for each place a turn can be at, what it holds      *)
(* there.                                                                  *)
(***************************************************************************)

(* A vault file, held by name, in storage that is this daemon's.           *)
Holding == file # None /\ taken = "us" /\ hold # None

(* A daemon whose boot has taken nothing yet.                              *)
Fresh == hold = None /\ open = None /\ agent = None /\ ~inspected /\ taken # "us"

(* A turn to give up a vault names a runtime opened already, which has     *)
(* been seen damaged if it still runs.                                     *)
AboutDamage(t) == t.arg \in 0..count.opened /\ (open = t.arg => file.rotten)

(* What the turns waiting were asked with still stands.                    *)
QueueInv ==
    \A i \in 1..Len(queue) :
        /\ queue[i].at = "begin"
        /\ queue[i].op = "boot" => i = 1 /\ turn = None /\ Fresh /\ phase = "booting"
        /\ queue[i].op = "close" => closed
        /\ queue[i].op = "damaged" => AboutDamage(queue[i])
        /\ queue[i].op = "export" => queue[i].arg \in Callers \cup {None}

(* What the turn under way holds where it is.                              *)
Booting ==
    /\ turn.op = "boot" /\ turn.at \in {"begin", "storage"} => Fresh /\ phase \in {"booting", "elsewhere"}
    /\ turn.at = "storage" => turn.op = "boot"
    /\ turn.at = "find" => turn.op = "boot" /\ hold = None /\ agent = None /\ ~inspected /\ taken = "us"

Opening ==
    /\ turn.at \in {"look", "run", "failed", "damaged"} => Holding /\ agent = None /\ ~inspected
    /\ turn.at = "run" => turn.op \in {"boot", "unlock", "merge"}
    /\ turn.at = "ready" => open # None /\ ~agent.ended
    /\ turn.at \in {"ready", "stopFailed"} => turn.op \in {"boot", "unlock", "create", "restore", "merge"}
    /\ turn.at = "failed" => turn.op \in {"boot", "create", "restore"}

ComingDown ==
    /\ turn.at \in {"detach", "stopFailed", "stopDamaged"} => agent # None
    /\ turn.at = "detach" => turn.op = "merge" /\ open # None
    /\ turn.at \in {"stopDamaged", "damaged"} => file.rotten
    /\ turn.at \in {"stop", "stopped"} =>
          /\ turn.op \in {"lock", "forget", "merge", "close"}
          /\ turn.op # "close" => taken = "us"
          /\ turn.op \in {"lock", "merge"} => ~inspected
          /\ turn.op = "merge" => Holding
    /\ turn.at = "stopped" => agent = None

MakingOne ==
    /\ turn.at \in {"making", "made"} => Holding /\ agent = None /\ ~inspected /\ turn.op \in {"create", "restore"}
    /\ turn.op \in {"create", "restore"} /\ turn.at # "begin" => phase = "onboarding"

Asked ==
    /\ turn.op = "close" => closed
    /\ turn.op = "damaged" /\ turn.at = "begin" => AboutDamage(turn)
    /\ turn.op = "export" => turn.at = "begin" /\ turn.arg \in Callers \cup {None}

TurnInv == turn # None => Booting /\ Opening /\ ComingDown /\ MakingOne /\ Asked

(* The runtime and its agent come and go together but for a turn that      *)
(* stops them, which ends the agent first.                                 *)
AgentInv ==
    /\ open # None => agent # None /\ open \in 0..count.opened
    /\ agent # None =>
          /\ Holding
          /\ ~inspected
          /\ open = None => agent.ended
          /\ agent.ended => turn # None /\ turn.at \in Stopping /\ (open = None \/ turn.at = "detach")
    /\ inspected => Holding
    /\ taken = "us" /\ ~At("boot", "find") => (hold # None <=> file # None)

(* A connection is had by who is making a vault, by the look at it, or by  *)
(* the runtime.                                                            *)
Making == turn # None /\ turn.at \in {"making", "made"}

ConnInv ==
    /\ Making => conn = {"make"}
    /\ inspected => conn = {"look"}
    /\ agent # None => conn = {"runtime"}
    /\ ~Making /\ ~inspected /\ agent = None => conn = {}

CallInv == \A c \in Callers : call[c] # None => agent # None /\ agent.id = call[c].agent

(* Nothing a turn has begun to change is claimed of what is shown.         *)
Settled == turn = None \/ turn.at \in {"begin", "storage", "find", "detach"}

ShownInv ==
    /\ shown.phase \in {"elsewhere", "onboarding", "foreign"} => shown.hold = None
    /\ shown.phase \in {"damaged", "locked", "open"} => shown.hold # None
    /\ ~closed => shown.why \notin {"busy", "closed"} /\ (phase = "damaged" => file # None /\ file.rotten)
    /\ ~closed /\ Settled => (phase = "open" <=> open # None) /\ (phase = "locked" <=> inspected)

DaemonInv == TypeOK /\ QueueInv /\ TurnInv /\ AgentInv /\ ConnInv /\ CallInv /\ ShownInv

-----------------------------------------------------------------------------
(* The records of the snapshots put, the mediator's blobs and the requests *)
(* under way.                                                              *)
(* Nothing is put under a replica ID there is none of yet.                 *)
AuthorInv ==
    /\ \A c \in Callers : link[c] # None => link[c].author <= author
    /\ \A c \in Callers : blob[c] # None => blob[c].author <= author
    /\ \A r \in onway : r.author <= author

Ours(c) == link[c] # None /\ link[c].author = author

Mine(c) == blob[c] # None /\ blob[c].author = author

OnWay(what, c) == Asks(what, c) \in onway

(* What the mediator holds under this replica's name, or may come to hold. *)
Gone(c) == ~Mine(c) /\ ~OnWay("put", c) /\ ~OnWay("upload", c)

Quiet(c) == Mine(c) => blob[c].stage # "uploaded" /\ ~OnWay("upload", c)

Publishing(c) == job[c] # None \/ In(c, "publish", "limits") \/ In(c, "publish", "queued")

(* What is not on record is gone, or a grant nothing will be uploaded      *)
(* under; a put comes before its upload; what is publishing is on no       *)
(* record yet, and what has its turn is.                                   *)
LinksInv ==
    \A c \in Callers :
        /\ ~Ours(c) /\ c \notin revoked => Gone(c)
        /\ ~Ours(c) /\ c \in revoked => Quiet(c)
        /\ OnWay("upload", c) => ~OnWay("put", c)
        /\ Publishing(c) => link[c] = None /\ c \notin revoked
        /\ (\E at \in {"limits", "queued", "putting", "uploading"} : In(c, "publish", at)) => job[c] = None
        /\ In(c, "publish", "putting") => putting = c /\ Ours(c) /\ ~OnWay("upload", c) /\ (OnWay("put", c) => ~Mine(c))
        /\ In(c, "publish", "uploading") => putting = c /\ Ours(c)
        /\ \A h \in Callers : In(c, "revoke", h) => putting = c /\ Ours(h) /\ (OnWay("delete", h) \/ Quiet(h))

Inv == DaemonInv /\ LinksTypeOK /\ AuthorInv /\ LinksInv
-----------------------------------------------------------------------------
(* What the steps' data come to, for the proofs to use in their place.     *)

(* The turn under way, where it goes on and what it was asked with.        *)
LEMMA GotoFacts ==
    ASSUME TypeOK, turn # None
    PROVE  /\ turn \in Turns /\ turn.op \in Ops /\ turn.arg \in Nat \cup Callers \cup {None} /\ turn.at \in Places
           /\ \A p \in Places : Goto(p) => turn' \in Turns /\ turn' # None /\ turn'.op = turn.op /\ turn'.arg = turn.arg /\ turn'.at = p
BY NamesApart DEF TypeOK, TypeOfFiles, TypeOfLook, TypeOfWork, TypeOfTurns, Goto, Turns

(* A file stays one, and none of these is None, under every change a step  *)
(* makes of it.                                                            *)
LEMMA FileFacts ==
    ASSUME TypeOK, file # None
    PROVE  /\ file \in Files /\ file.id \in Nat /\ file.publics \in Nat
           /\ file.rotten \in BOOLEAN /\ file.ready \in BOOLEAN /\ file.explained \in BOOLEAN
           /\ [file EXCEPT !.ready = TRUE] \in Files /\ [file EXCEPT !.ready = TRUE] # None /\ [file EXCEPT !.ready = TRUE].rotten = file.rotten
           /\ [file EXCEPT !.rotten = TRUE] \in Files /\ [file EXCEPT !.rotten = TRUE] # None /\ [file EXCEPT !.rotten = TRUE].rotten = TRUE
           /\ [file EXCEPT !.publics = file.publics + 1] \in Files /\ [file EXCEPT !.publics = file.publics + 1] # None /\ [file EXCEPT !.publics = file.publics + 1].rotten = file.rotten
           /\ [file EXCEPT !.explained = TRUE, !.told = TRUE] \in Files /\ [file EXCEPT !.explained = TRUE, !.told = TRUE] # None /\ [file EXCEPT !.explained = TRUE, !.told = TRUE].rotten = file.rotten
           /\ [file EXCEPT !.explained = (turn.op = "create")] \in Files /\ [file EXCEPT !.explained = (turn.op = "create")] # None /\ [file EXCEPT !.explained = (turn.op = "create")].rotten = file.rotten
<1>1. file \in Files
  BY DEF TypeOK, TypeOfFiles
<1>2. [file EXCEPT !.ready = TRUE] \in Files /\ [file EXCEPT !.ready = TRUE] # None /\ [file EXCEPT !.ready = TRUE].rotten = file.rotten
  BY <1>1, NamesApart DEF Files
<1>3. [file EXCEPT !.rotten = TRUE] \in Files /\ [file EXCEPT !.rotten = TRUE] # None /\ [file EXCEPT !.rotten = TRUE].rotten = TRUE
  BY <1>1, NamesApart DEF Files
<1>4. [file EXCEPT !.publics = file.publics + 1] \in Files /\ [file EXCEPT !.publics = file.publics + 1] # None /\ [file EXCEPT !.publics = file.publics + 1].rotten = file.rotten
  BY <1>1, NamesApart DEF Files
<1>5. [file EXCEPT !.explained = TRUE, !.told = TRUE] \in Files /\ [file EXCEPT !.explained = TRUE, !.told = TRUE] # None /\ [file EXCEPT !.explained = TRUE, !.told = TRUE].rotten = file.rotten
  BY <1>1, NamesApart DEF Files
<1>6. [file EXCEPT !.explained = (turn.op = "create")] \in Files /\ [file EXCEPT !.explained = (turn.op = "create")] # None /\ [file EXCEPT !.explained = (turn.op = "create")].rotten = file.rotten
  BY <1>1, NamesApart DEF Files
<1> QED BY <1>1, <1>2, <1>3, <1>4, <1>5, <1>6 DEF Files

(* An agent has a number, and one that ends keeps it.                      *)
LEMMA AgentFacts ==
    ASSUME TypeOK, agent # None
    PROVE  /\ agent \in Agents /\ agent.id \in Nat /\ agent.ended \in BOOLEAN
           /\ [agent EXCEPT !.ended = TRUE] \in Agents /\ [agent EXCEPT !.ended = TRUE] # None
           /\ [agent EXCEPT !.ended = TRUE].id = agent.id /\ [agent EXCEPT !.ended = TRUE].ended
BY NamesApart DEF TypeOK, TypeOfWork, Agents

(* A new agent is running.                                                 *)
LEMMA NewAgentFacts ==
    ASSUME NEW n \in Nat
    PROVE  [id |-> n, ended |-> FALSE] \in Agents /\ [id |-> n, ended |-> FALSE] # None
<1>1. [id |-> n, ended |-> FALSE] \in Agents
  BY DEF Agents
<1> QED BY <1>1, NamesApart

(* A file just made is a file.                                             *)
LEMMA NewFileFacts ==
    ASSUME TypeOK, NEW restored \in BOOLEAN
    PROVE  NewFile(restored) \in Files /\ NewFile(restored) # None
<1>1. count.made + 1 \in Nat
  BY DEF TypeOK, TypeOfTurns, Counts
<1>2. NewFile(restored) \in Files
  BY <1>1 DEF NewFile, Files
<1> QED BY <1>2, NamesApart

(* A turn waiting taken, and one asked for.                                *)
LEMMA TailFacts ==
    ASSUME TypeOK, queue # <<>>, queue' = Tail(queue)
    PROVE  /\ queue' \in Seq(Turns)
           /\ \A i \in 1..Len(queue') : i + 1 \in 1..Len(queue) /\ i + 1 # 1 /\ queue'[i] = queue[i + 1]
           /\ Head(queue) = queue[1] /\ Head(queue) \in Turns /\ Head(queue) # None
           /\ 1 \in 1..Len(queue)
BY NamesApart DEF TypeOK, TypeOfFiles, TypeOfLook, TypeOfWork, TypeOfTurns

(* Asking for a turn adds one at the end that has not begun, and leaves    *)
(* the others.                                                             *)
LEMMA AppendFacts ==
    ASSUME TypeOK, NEW op \in Ops \ {"boot"}, NEW arg \in Nat \cup Callers \cup {None}, queue' = Append(queue, Turn(op, arg))
    PROVE  /\ queue' \in Seq(Turns)
           /\ \A i \in 1..Len(queue') :
                 \/ i \in 1..Len(queue) /\ queue'[i] = queue[i]
                 \/ queue'[i].op = op /\ queue'[i].arg = arg /\ queue'[i].at = "begin"
<1>1. Turn(op, arg) \in Turns /\ Turn(op, arg).op = op /\ Turn(op, arg).arg = arg /\ Turn(op, arg).at = "begin"
  BY DEF Turn, Turns, Places
<1> QED BY <1>1 DEF TypeOK, TypeOfFiles, TypeOfLook, TypeOfWork, TypeOfTurns

(* One of the counters counted on, the others left alone.                  *)
LEMMA CountFacts ==
    ASSUME TypeOK
    PROVE  /\ count.made \in Nat /\ count.opened \in Nat /\ count.renewed \in Nat /\ count.asks \in Nat /\ count.calls \in Nat /\ count.faults \in Nat
           /\ count.made + 1 \in Nat /\ count.opened + 1 \in Nat
           /\ [count EXCEPT !.made = count.made + 1] \in Counts /\ [count EXCEPT !.made = count.made + 1].opened = count.opened /\ [count EXCEPT !.made = count.made + 1].renewed = count.renewed
           /\ [count EXCEPT !.opened = count.opened + 1] \in Counts /\ [count EXCEPT !.opened = count.opened + 1].opened = count.opened + 1 /\ [count EXCEPT !.opened = count.opened + 1].renewed = count.renewed
           /\ [count EXCEPT !.renewed = count.renewed + 1] \in Counts /\ [count EXCEPT !.renewed = count.renewed + 1].opened = count.opened /\ [count EXCEPT !.renewed = count.renewed + 1].renewed = count.renewed + 1
           /\ [count EXCEPT !.asks = count.asks + 1] \in Counts /\ [count EXCEPT !.asks = count.asks + 1].opened = count.opened /\ [count EXCEPT !.asks = count.asks + 1].renewed = count.renewed
           /\ [count EXCEPT !.calls = count.calls + 1] \in Counts /\ [count EXCEPT !.calls = count.calls + 1].opened = count.opened /\ [count EXCEPT !.calls = count.calls + 1].renewed = count.renewed
           /\ [count EXCEPT !.faults = count.faults + 1] \in Counts /\ [count EXCEPT !.faults = count.faults + 1].opened = count.opened /\ [count EXCEPT !.faults = count.faults + 1].renewed = count.renewed
<1>1. count.made \in Nat /\ count.opened \in Nat /\ count.renewed \in Nat /\ count.asks \in Nat /\ count.calls \in Nat /\ count.faults \in Nat
  BY DEF TypeOK, TypeOfTurns, Counts
<1>2. [count EXCEPT !.made = count.made + 1] \in Counts /\ [count EXCEPT !.made = count.made + 1].opened = count.opened /\ [count EXCEPT !.made = count.made + 1].renewed = count.renewed
  BY DEF TypeOK, TypeOfTurns, Counts
<1>3. [count EXCEPT !.opened = count.opened + 1] \in Counts /\ [count EXCEPT !.opened = count.opened + 1].opened = count.opened + 1 /\ [count EXCEPT !.opened = count.opened + 1].renewed = count.renewed
  BY DEF TypeOK, TypeOfTurns, Counts
<1>4. [count EXCEPT !.renewed = count.renewed + 1] \in Counts /\ [count EXCEPT !.renewed = count.renewed + 1].opened = count.opened /\ [count EXCEPT !.renewed = count.renewed + 1].renewed = count.renewed + 1
  BY DEF TypeOK, TypeOfTurns, Counts
<1>5. [count EXCEPT !.asks = count.asks + 1] \in Counts /\ [count EXCEPT !.asks = count.asks + 1].opened = count.opened /\ [count EXCEPT !.asks = count.asks + 1].renewed = count.renewed
  BY DEF TypeOK, TypeOfTurns, Counts
<1>6. [count EXCEPT !.calls = count.calls + 1] \in Counts /\ [count EXCEPT !.calls = count.calls + 1].opened = count.opened /\ [count EXCEPT !.calls = count.calls + 1].renewed = count.renewed
  BY DEF TypeOK, TypeOfTurns, Counts
<1>7. [count EXCEPT !.faults = count.faults + 1] \in Counts /\ [count EXCEPT !.faults = count.faults + 1].opened = count.opened /\ [count EXCEPT !.faults = count.faults + 1].renewed = count.renewed
  BY DEF TypeOK, TypeOfTurns, Counts
<1> QED BY <1>1, <1>2, <1>3, <1>4, <1>5, <1>6, <1>7

(* A fault is counted and changes no other count.                          *)
LEMMA FaultFacts ==
    ASSUME TypeOK, Fault
    PROVE  count' \in Counts /\ count'.opened = count.opened /\ count'.renewed = count.renewed
BY CountFacts DEF Fault

(* A hold given out anew is the last one issued.                           *)
LEMMA HoldFacts ==
    ASSUME TypeOK
    PROVE  /\ hold \in Nat \cup {None}
           /\ \A n \in Nat : NewHold(n) => issued' \in Seq(Nat) /\ hold' \in 1..Len(issued') /\ hold' \in Nat /\ hold' # None
<1>1. issued \in Seq(Nat) /\ Len(issued) \in Nat /\ hold \in (1..Len(issued)) \cup {None}
  BY DEF TypeOK, TypeOfFiles, TypeOfLook, TypeOfWork, TypeOfTurns
<1>2. ASSUME NEW n \in Nat, NewHold(n)
      PROVE  issued' \in Seq(Nat) /\ hold' \in 1..Len(issued') /\ hold' \in Nat /\ hold' # None
  <2>1. issued' \in Seq(Nat) /\ Len(issued') = Len(issued) + 1 
    BY <1>1, <1>2 DEF NewHold
  <2>2. hold' = Len(issued) + 1
    BY <1>2 DEF NewHold
  <2> QED BY <1>1, <2>1, <2>2, NamesApart
<1> QED BY <1>1, <1>2

(* What the publisher says, which a daemon that closes does not.           *)
LEMMA SayFacts ==
    ASSUME TypeOK
    PROVE  /\ \A p \in Phases, w \in Whys \cup {None} :
                 hold' \in Nat \cup {None} /\ SayWhy(p, w) => phase' \in Phases /\ shown' \in [phase : Phases, hold : Nat \cup {None}, why : Whys \cup {None}]
           /\ \A p, w : SayWhy(p, w) =>
                 \/ closed /\ phase' = phase /\ shown' = shown
                 \/ ~closed /\ phase' = p /\ shown'.phase = p /\ shown'.hold = hold' /\ shown'.why = w
<1>1. ASSUME NEW p \in Phases, NEW w \in Whys \cup {None}, hold' \in Nat \cup {None}, SayWhy(p, w)
      PROVE  phase' \in Phases /\ shown' \in [phase : Phases, hold : Nat \cup {None}, why : Whys \cup {None}]
  BY <1>1 DEF TypeOK, TypeOfFiles, TypeOfLook, TypeOfWork, TypeOfTurns, SayWhy
<1>2. ASSUME NEW p, NEW w, SayWhy(p, w)
      PROVE  \/ closed /\ phase' = phase /\ shown' = shown
             \/ ~closed /\ phase' = p /\ shown'.phase = p /\ shown'.hold = hold' /\ shown'.why = w
  BY <1>2 DEF SayWhy
<1> QED BY <1>1, <1>2

(* Whether the vault file opens.                                           *)
LEMMA OpensFacts ==
    /\ Opens \in Whys \cup {None}
    /\ Opens = None => ~closed /\ conn = {} /\ file.ready /\ ~file.rotten
    /\ Opens = "damaged" => file.rotten
    /\ Opens = "closed" => closed
    /\ conn = {} => Opens # "busy"
BY NamesApart DEF Opens, Whys

(* An agent attached is a running one, with the number of the runtime just *)
(* opened.                                                                 *)
LEMMA AttachFacts ==
    ASSUME TypeOK, Attach
    PROVE  /\ open' = count.opened + 1 /\ open' \in Nat /\ open' # None /\ open' \in 0..count'.opened
           /\ agent' \in Agents /\ agent' # None /\ agent'.id = open' /\ ~agent'.ended
           /\ count' \in Counts /\ count'.opened = count.opened + 1 /\ count'.renewed = count.renewed
<1>1. agent' \in Agents /\ agent'.id = open' /\ ~agent'.ended /\ open' = count.opened + 1
  BY CountFacts DEF Attach, Agents
<1>2. count' \in Counts /\ count'.opened = count.opened + 1 /\ count'.renewed = count.renewed
  BY CountFacts DEF Attach
<1> QED BY <1>1, <1>2, CountFacts, NamesApart

-----------------------------------------------------------------------------
(* Each step a turn takes, with the invariant before it; one step of the   *)
(* proof for each part of the invariant.                                   *)
LEMMA BootForeignKeeps == ASSUME DaemonInv, BootForeign PROVE DaemonInv'
<1> USE DEF DaemonInv
<1>1. TypeOfFiles'
  BY SayFacts DEF TypeOfFiles, BootForeign, Say, fileVars, TypeOK
<1>2. TypeOfLook'
  BY SayFacts DEF TypeOfLook, Phases, BootForeign, Say, TypeOK
<1>3. TypeOfWork'
  BY SayFacts DEF TypeOfWork, BootForeign, Say, workVars, TypeOK
<1>4. TypeOfTurns'
  BY GotoFacts, SayFacts DEF TypeOfTurns, Places, BootForeign, Say, At, Done, turnVars, TypeOK
<1>5. QueueInv'
  BY SayFacts DEF QueueInv, AboutDamage, BootForeign, Say, At, fileVars, workVars, turnVars
<1>6. TurnInv'
  BY GotoFacts, SayFacts DEF TurnInv, Booting, Opening, ComingDown, MakingOne, Asked,
     AboutDamage, Fresh, Places, BootForeign, Say, At, Done, fileVars, workVars, turnVars
<1>7. AgentInv'
  BY SayFacts DEF AgentInv, Holding, Stopping, TurnInv, CallInv, BootForeign, Say, At,
     fileVars, workVars, turnVars
<1>8. ConnInv'
  BY GotoFacts, SayFacts DEF ConnInv, Making, TurnInv, CallInv, Places, BootForeign, Say, At,
     Done, fileVars, workVars, turnVars
<1>9. CallInv'
  BY SayFacts DEF CallInv, TurnInv, BootForeign, Say, workVars
<1>10. ShownInv'
  BY SayFacts, NamesApart DEF ShownInv, ConnInv, Making, Settled, TurnInv, Booting, Asked,
     Fresh, Whys, Daemons, BootForeign, Say, At, workVars, turnVars
<1> QED BY <1>1, <1>2, <1>3, <1>4, <1>5, <1>6, <1>7, <1>8, <1>9, <1>10 DEF TypeOK

(* The steps of a boot, and of what it shares with the turns that open a   *)
(* vault.                                                                  *)
LEMMA BootStorageKeeps == ASSUME DaemonInv, BootStorage PROVE DaemonInv'
<1> USE DEF DaemonInv
<1>1. TypeOfFiles'
  BY SayFacts DEF TypeOfFiles, Whys, Daemons, BootStorage, Say, TypeOK
<1>2. TypeOfLook'
  BY SayFacts DEF TypeOfLook, Phases, BootStorage, Say, TypeOK
<1>3. TypeOfWork'
  BY SayFacts DEF TypeOfWork, BootStorage, Say, workVars, TypeOK
<1>4. TypeOfTurns'
  BY GotoFacts, SayFacts DEF TypeOfTurns, Places, BootStorage, Say, At, Done, turnVars, TypeOK
<1>5. QueueInv'
  BY SayFacts DEF QueueInv, AboutDamage, BootStorage, Say, At, workVars, turnVars
<1>6. TurnInv'
  BY GotoFacts, SayFacts DEF TurnInv, Booting, Opening, ComingDown, MakingOne, Asked,
     AboutDamage, Fresh, Places, BootStorage, Say, At, Done, workVars, turnVars
<1>7. AgentInv'
  BY GotoFacts, SayFacts DEF AgentInv, Holding, Stopping, TurnInv, CallInv, Places,
     BootStorage, Say, At, workVars, turnVars
<1>8. ConnInv'
  BY GotoFacts, SayFacts DEF ConnInv, Making, TurnInv, CallInv, Places, BootStorage, Say, At,
     Done, workVars, turnVars
<1>9. CallInv'
  BY SayFacts DEF CallInv, TurnInv, BootStorage, Say, workVars
<1>10. ShownInv'
  BY SayFacts, NamesApart DEF ShownInv, ConnInv, Making, Settled, TurnInv, Booting, Asked,
     Fresh, Whys, Daemons, BootStorage, Say, At, workVars, turnVars
<1> QED BY <1>1, <1>2, <1>3, <1>4, <1>5, <1>6, <1>7, <1>8, <1>9, <1>10 DEF TypeOK

LEMMA BootUnreadableKeeps == ASSUME DaemonInv, BootUnreadable PROVE DaemonInv'
<1> USE DEF DaemonInv
<1>1. TypeOfFiles'
  BY FaultFacts, SayFacts DEF TypeOfFiles, BootUnreadable, fileVars, TypeOK
<1>2. TypeOfLook'
  BY FaultFacts, SayFacts DEF TypeOfLook, Phases, Whys, Daemons, BootUnreadable, TypeOK
<1>3. TypeOfWork'
  BY FaultFacts, SayFacts DEF TypeOfWork, BootUnreadable, workVars, TypeOK
<1>4. TypeOfTurns'
  BY FaultFacts, SayFacts DEF TypeOfTurns, BootUnreadable, Done, TypeOK
<1>5. QueueInv'
  BY FaultFacts, SayFacts DEF QueueInv, AboutDamage, BootUnreadable, At, fileVars, workVars,
     turnVars
<1>6. TurnInv'
  BY FaultFacts, SayFacts DEF TurnInv, Asked, AboutDamage, BootUnreadable, Done
<1>7. AgentInv'
  BY FaultFacts, SayFacts DEF AgentInv, Holding, Stopping, TurnInv, CallInv, BootUnreadable,
     At, fileVars, workVars, turnVars
<1>8. ConnInv'
  BY FaultFacts, SayFacts DEF ConnInv, Making, TurnInv, CallInv, BootUnreadable, At, Done,
     fileVars, workVars, turnVars
<1>9. CallInv'
  BY FaultFacts, SayFacts DEF CallInv, TurnInv, BootUnreadable, workVars
<1>10. ShownInv'
  BY FaultFacts, SayFacts DEF ShownInv, ConnInv, Making, Settled, TurnInv, Booting, Asked,
     Fresh, BootUnreadable, At, workVars, turnVars
<1> QED BY <1>1, <1>2, <1>3, <1>4, <1>5, <1>6, <1>7, <1>8, <1>9, <1>10 DEF TypeOK

LEMMA BootFindKeeps == ASSUME DaemonInv, BootFind PROVE DaemonInv'
<1> USE DEF DaemonInv
<1>1. CASE file = None
  <2>1. TypeOfFiles'
    BY <1>1, HoldFacts, FileFacts, SayFacts DEF TypeOfFiles, BootFind, Say, fileVars, TypeOK
  <2>2. TypeOfLook'
    BY <1>1, HoldFacts, FileFacts, SayFacts DEF TypeOfLook, Phases, BootFind, Say, TypeOK
  <2>3. TypeOfWork'
    BY <1>1, HoldFacts, FileFacts, SayFacts DEF TypeOfWork, BootFind, Say, workVars, TypeOK
  <2>4. TypeOfTurns'
    BY <1>1, HoldFacts, FileFacts, SayFacts DEF TypeOfTurns, BootFind, Say, Done, TypeOK
  <2>5. QueueInv'
    BY <1>1, HoldFacts, FileFacts, SayFacts DEF QueueInv, AboutDamage, BootFind, Say, At,
       fileVars, workVars, turnVars
  <2>6. TurnInv'
    BY <1>1, HoldFacts, FileFacts, SayFacts DEF TurnInv, Asked, AboutDamage, BootFind, Say, Done
  <2>7. AgentInv'
    BY <1>1, HoldFacts, FileFacts, SayFacts DEF AgentInv, TurnInv, Booting, CallInv, BootFind,
       Say, At, fileVars, workVars, turnVars
  <2>8. ConnInv'
    BY <1>1, HoldFacts, FileFacts, SayFacts DEF ConnInv, Making, TurnInv, CallInv, BootFind,
       Say, At, Done, fileVars, workVars, turnVars
  <2>9. CallInv'
    BY <1>1, HoldFacts, FileFacts, SayFacts DEF CallInv, TurnInv, BootFind, Say, workVars
  <2>10. ShownInv'
    BY <1>1, HoldFacts, FileFacts, SayFacts, NamesApart DEF AgentInv, ShownInv, ConnInv,
       Making, Settled, TurnInv, Booting, Asked, Fresh, Whys, Daemons, BootFind, Say, At,
       workVars, turnVars
  <2> QED BY <2>1, <2>2, <2>3, <2>4, <2>5, <2>6, <2>7, <2>8, <2>9, <2>10 DEF TypeOK
<1>2. CASE file # None
  <2>1. TypeOfFiles'
    BY <1>2, HoldFacts, FileFacts, SayFacts DEF TypeOfFiles, BootFind, Say, fileVars, TypeOK
  <2>2. TypeOfLook'
    BY <1>2, HoldFacts, FileFacts, SayFacts DEF TypeOfLook, Phases, BootFind, Say, TypeOK
  <2>3. TypeOfWork'
    BY <1>2, HoldFacts, FileFacts, SayFacts DEF TypeOfWork, BootFind, Say, workVars, TypeOK
  <2>4. TypeOfTurns'
    BY <1>2, GotoFacts, HoldFacts, FileFacts, SayFacts DEF TypeOfTurns, Places, BootFind, Say,
       At, turnVars, TypeOK
  <2>5. QueueInv'
    BY <1>2, HoldFacts, FileFacts, SayFacts DEF QueueInv, AboutDamage, BootFind, Say, At,
       fileVars, workVars, turnVars
  <2>6. TurnInv'
    BY <1>2, GotoFacts, HoldFacts, FileFacts, SayFacts DEF TurnInv, Booting, Opening,
       ComingDown, MakingOne, Asked, AboutDamage, Fresh, Holding, Places, BootFind, Say, At,
       fileVars, workVars, turnVars
  <2>7. AgentInv'
    BY <1>2, HoldFacts, FileFacts, SayFacts DEF AgentInv, Holding, Stopping, TurnInv, CallInv,
       BootFind, Say, At, fileVars, workVars, turnVars
  <2>8. ConnInv'
    BY <1>2, GotoFacts, HoldFacts, FileFacts, SayFacts DEF ConnInv, Making, TurnInv, CallInv,
       Places, BootFind, Say, At, fileVars, workVars, turnVars
  <2>9. CallInv'
    BY <1>2, HoldFacts, FileFacts, SayFacts DEF CallInv, TurnInv, BootFind, Say, workVars
  <2>10. ShownInv'
    BY <1>2, HoldFacts, FileFacts, SayFacts DEF ShownInv, ConnInv, Making, Settled, TurnInv,
       Asked, BootFind, Say, At, fileVars, workVars, turnVars
  <2> QED BY <2>1, <2>2, <2>3, <2>4, <2>5, <2>6, <2>7, <2>8, <2>9, <2>10 DEF TypeOK
<1> QED BY <1>1, <1>2

LEMMA LookStepKeeps == ASSUME DaemonInv, LookStep PROVE DaemonInv'
<1> USE DEF DaemonInv
<1>1. CASE Opens = None
  <2>1. TypeOfFiles'
    BY <1>1, HoldFacts, SayFacts, OpensFacts DEF TypeOfFiles, LookStep, Look, Unopened, Say,
       TypeOK
  <2>2. TypeOfLook'
    BY <1>1, HoldFacts, SayFacts, OpensFacts DEF TypeOfLook, Phases, LookStep, Look, Unopened,
       Say, TypeOK
  <2>3. TypeOfWork'
    BY <1>1, HoldFacts, SayFacts, OpensFacts DEF TypeOfWork, LookStep, Look, Unopened, Say,
       workVars, TypeOK
  <2>4. TypeOfTurns'
    BY <1>1, HoldFacts, SayFacts, OpensFacts DEF TypeOfTurns, LookStep, Look, Unopened, Say,
       Done, TypeOK
  <2>5. QueueInv'
    BY <1>1, HoldFacts, SayFacts, OpensFacts DEF QueueInv, AboutDamage, LookStep, Look,
       Unopened, Say, workVars
  <2>6. TurnInv'
    BY <1>1, HoldFacts, SayFacts, OpensFacts DEF TurnInv, Asked, AboutDamage, LookStep, Look,
       Unopened, Say, Done
  <2>7. AgentInv'
    BY <1>1, HoldFacts, SayFacts, OpensFacts DEF AgentInv, Holding, TurnInv, Opening, CallInv,
       LookStep, Look, Unopened, Say, workVars
  <2>8. ConnInv'
    BY <1>1, HoldFacts, SayFacts, OpensFacts DEF ConnInv, Making, TurnInv, CallInv, LookStep,
       Look, Unopened, Say, Done, workVars
  <2>9. CallInv'
    BY <1>1, HoldFacts, SayFacts, OpensFacts DEF CallInv, TurnInv, LookStep, Look, Unopened,
       Say, workVars
  <2>10. ShownInv'
    BY <1>1, HoldFacts, SayFacts, OpensFacts DEF AgentInv, ShownInv, ConnInv, Making, Settled,
       Holding, TurnInv, Opening, Asked, LookStep, Look, Unopened, Say, workVars
  <2> QED BY <2>1, <2>2, <2>3, <2>4, <2>5, <2>6, <2>7, <2>8, <2>9, <2>10 DEF TypeOK
<1>2. CASE Opens # None
  <2>1. TypeOfFiles'
    BY <1>2, HoldFacts, SayFacts, OpensFacts DEF TypeOfFiles, LookStep, Look, Unopened, Say,
       TypeOK
  <2>2. TypeOfLook'
    BY <1>2, HoldFacts, SayFacts, OpensFacts DEF TypeOfLook, Phases, LookStep, Look, Unopened,
       Say, TypeOK
  <2>3. TypeOfWork'
    BY <1>2, HoldFacts, SayFacts, OpensFacts DEF TypeOfWork, LookStep, Look, Unopened, Say,
       workVars, TypeOK
  <2>4. TypeOfTurns'
    BY <1>2, HoldFacts, SayFacts, OpensFacts DEF TypeOfTurns, LookStep, Look, Unopened, Say,
       Done, TypeOK
  <2>5. QueueInv'
    BY <1>2, HoldFacts, SayFacts, OpensFacts DEF QueueInv, AboutDamage, LookStep, Look,
       Unopened, Say, workVars
  <2>6. TurnInv'
    BY <1>2, HoldFacts, SayFacts, OpensFacts DEF TurnInv, Asked, AboutDamage, LookStep, Look,
       Unopened, Say, Done
  <2>7. AgentInv'
    BY <1>2, HoldFacts, SayFacts, OpensFacts DEF AgentInv, TurnInv, Opening, CallInv,
       LookStep, Look, Unopened, Say, At, workVars, turnVars
  <2>8. ConnInv'
    BY <1>2, HoldFacts, SayFacts, OpensFacts DEF ConnInv, Making, TurnInv, Opening, CallInv,
       LookStep, Look, Unopened, Say, Done, workVars
  <2>9. CallInv'
    BY <1>2, HoldFacts, SayFacts, OpensFacts DEF CallInv, TurnInv, LookStep, Look, Unopened,
       Say, workVars
  <2>10. ShownInv'
    BY <1>2, HoldFacts, SayFacts, OpensFacts DEF AgentInv, ShownInv, ConnInv, Making, Settled,
       Holding, TurnInv, Opening, Asked, LookStep, Look, Unopened, Say, workVars
  <2> QED BY <2>1, <2>2, <2>3, <2>4, <2>5, <2>6, <2>7, <2>8, <2>9, <2>10 DEF TypeOK
<1> QED BY <1>1, <1>2

LEMMA RunKeeps == ASSUME DaemonInv, Run PROVE DaemonInv'
<1> USE DEF DaemonInv
<1>1. CASE Opens = None
  <2>1. TypeOfFiles'
    BY <1>1, HoldFacts, SayFacts, OpensFacts, AttachFacts, CountFacts DEF TypeOfFiles, Run,
       Unopened, TypeOK
  <2>2. TypeOfLook'
    BY <1>1, HoldFacts, SayFacts, OpensFacts, AttachFacts, CountFacts DEF TypeOfLook, Phases,
       Run, Unopened, lookVars, TypeOK
  <2>3. TypeOfWork'
    BY <1>1, HoldFacts, SayFacts, OpensFacts, AttachFacts, CountFacts DEF TypeOfWork, Run,
       Unopened, TypeOK
  <2>4. TypeOfTurns'
    BY <1>1, GotoFacts, HoldFacts, SayFacts, OpensFacts, AttachFacts, CountFacts DEF
       TypeOfTurns, Places, Run, Unopened, TypeOK
  <2>5. QueueInv'
    BY <1>1, HoldFacts, SayFacts, OpensFacts, AttachFacts, CountFacts DEF QueueInv,
       AboutDamage, Run, Unopened, At, turnVars
  <2>6. TurnInv'
    BY <1>1, GotoFacts, HoldFacts, SayFacts, OpensFacts, AttachFacts, CountFacts DEF TurnInv,
       Booting, Opening, ComingDown, MakingOne, Asked, AboutDamage, Fresh, Places, Run,
       Unopened
  <2>7. AgentInv'
    BY <1>1, HoldFacts, SayFacts, OpensFacts, AttachFacts, CountFacts DEF AgentInv, Holding,
       TurnInv, Opening, CallInv, Run, Unopened, lookVars
  <2>8. ConnInv'
    BY <1>1, GotoFacts, HoldFacts, SayFacts, OpensFacts, AttachFacts, CountFacts DEF ConnInv,
       Making, TurnInv, CallInv, Places, Run, Unopened, lookVars
  <2>9. CallInv'
    BY <1>1, HoldFacts, SayFacts, OpensFacts, AttachFacts, CountFacts DEF CallInv, TurnInv,
       Opening, Run, Unopened
  <2>10. ShownInv'
    BY <1>1, GotoFacts, HoldFacts, SayFacts, OpensFacts, AttachFacts, CountFacts DEF ShownInv,
       ConnInv, Making, Settled, TurnInv, Asked, Places, Run, Unopened, lookVars
  <2> QED BY <2>1, <2>2, <2>3, <2>4, <2>5, <2>6, <2>7, <2>8, <2>9, <2>10 DEF TypeOK
<1>2. CASE Opens # None /\ turn.op = "boot"
  <2>1. TypeOfFiles'
    BY <1>2, HoldFacts, SayFacts, OpensFacts, AttachFacts, CountFacts DEF TypeOfFiles, Run,
       Unopened, TypeOK
  <2>2. TypeOfLook'
    BY <1>2, HoldFacts, SayFacts, OpensFacts, AttachFacts, CountFacts DEF TypeOfLook, Phases,
       Run, Unopened, TypeOK
  <2>3. TypeOfWork'
    BY <1>2, HoldFacts, SayFacts, OpensFacts, AttachFacts, CountFacts DEF TypeOfWork, Run,
       Unopened, workVars, TypeOK
  <2>4. TypeOfTurns'
    BY <1>2, HoldFacts, SayFacts, OpensFacts, AttachFacts, CountFacts DEF TypeOfTurns, Run,
       Unopened, Done, TypeOK
  <2>5. QueueInv'
    BY <1>2, HoldFacts, SayFacts, OpensFacts, AttachFacts, CountFacts DEF QueueInv,
       AboutDamage, Run, Unopened, workVars
  <2>6. TurnInv'
    BY <1>2, HoldFacts, SayFacts, OpensFacts, AttachFacts, CountFacts DEF TurnInv, Asked,
       AboutDamage, Run, Unopened, Done
  <2>7. AgentInv'
    BY <1>2, HoldFacts, SayFacts, OpensFacts, AttachFacts, CountFacts DEF AgentInv, TurnInv,
       Opening, CallInv, Run, Unopened, At, workVars, turnVars
  <2>8. ConnInv'
    BY <1>2, HoldFacts, SayFacts, OpensFacts, AttachFacts, CountFacts DEF ConnInv, Making,
       TurnInv, CallInv, Run, Unopened, Done, workVars
  <2>9. CallInv'
    BY <1>2, HoldFacts, SayFacts, OpensFacts, AttachFacts, CountFacts DEF CallInv, TurnInv,
       Run, Unopened, workVars
  <2>10. ShownInv'
    BY <1>2, HoldFacts, SayFacts, OpensFacts, AttachFacts, CountFacts DEF AgentInv, ShownInv,
       ConnInv, Making, Settled, Holding, TurnInv, Opening, Asked, Run, Unopened, workVars
  <2> QED BY <2>1, <2>2, <2>3, <2>4, <2>5, <2>6, <2>7, <2>8, <2>9, <2>10 DEF TypeOK
<1>3. CASE Opens # None /\ turn.op # "boot"
  <2>1. TypeOfFiles'
    BY <1>3, HoldFacts, SayFacts, OpensFacts, AttachFacts, CountFacts DEF TypeOfFiles, Run,
       Unopened, TypeOK
  <2>2. TypeOfLook'
    BY <1>3, HoldFacts, SayFacts, OpensFacts, AttachFacts, CountFacts DEF TypeOfLook, Phases,
       Run, Unopened, lookVars, TypeOK
  <2>3. TypeOfWork'
    BY <1>3, HoldFacts, SayFacts, OpensFacts, AttachFacts, CountFacts DEF TypeOfWork, Run,
       Unopened, workVars, TypeOK
  <2>4. TypeOfTurns'
    BY <1>3, GotoFacts, HoldFacts, SayFacts, OpensFacts, AttachFacts, CountFacts DEF
       TypeOfTurns, Places, Run, Unopened, TypeOK
  <2>5. QueueInv'
    BY <1>3, HoldFacts, SayFacts, OpensFacts, AttachFacts, CountFacts DEF QueueInv,
       AboutDamage, Run, Unopened, workVars
  <2>6. TurnInv'
    BY <1>3, GotoFacts, HoldFacts, SayFacts, OpensFacts, AttachFacts, CountFacts DEF TurnInv,
       Booting, Opening, ComingDown, MakingOne, Asked, AboutDamage, Fresh, Holding, Places,
       Run, Unopened, lookVars, workVars
  <2>7. AgentInv'
    BY <1>3, HoldFacts, SayFacts, OpensFacts, AttachFacts, CountFacts DEF AgentInv, TurnInv,
       Opening, CallInv, Run, Unopened, At, lookVars, workVars, turnVars
  <2>8. ConnInv'
    BY <1>3, GotoFacts, HoldFacts, SayFacts, OpensFacts, AttachFacts, CountFacts DEF ConnInv,
       Making, TurnInv, CallInv, Places, Run, Unopened, lookVars, workVars
  <2>9. CallInv'
    BY <1>3, HoldFacts, SayFacts, OpensFacts, AttachFacts, CountFacts DEF CallInv, TurnInv,
       Run, Unopened, workVars
  <2>10. ShownInv'
    BY <1>3, GotoFacts, HoldFacts, SayFacts, OpensFacts, AttachFacts, CountFacts DEF ShownInv,
       ConnInv, Making, Settled, TurnInv, Asked, Places, Run, Unopened, lookVars
  <2> QED BY <2>1, <2>2, <2>3, <2>4, <2>5, <2>6, <2>7, <2>8, <2>9, <2>10 DEF TypeOK
<1> QED BY <1>1, <1>2, <1>3

LEMMA ReadyKeeps == ASSUME DaemonInv, Ready PROVE DaemonInv'
<1> USE DEF DaemonInv
<1>1. TypeOfFiles'
  BY HoldFacts DEF TypeOfFiles, Ready, TypeOK
<1>2. TypeOfLook'
  BY HoldFacts DEF TypeOfLook, Phases, Ready, TypeOK
<1>3. TypeOfWork'
  BY HoldFacts DEF TypeOfWork, Ready, workVars, TypeOK
<1>4. TypeOfTurns'
  BY HoldFacts DEF TypeOfTurns, Ready, Done, TypeOK
<1>5. QueueInv'
  BY HoldFacts DEF QueueInv, AboutDamage, Ready, workVars
<1>6. TurnInv'
  BY HoldFacts DEF TurnInv, Asked, AboutDamage, Ready, Done
<1>7. AgentInv'
  BY HoldFacts DEF AgentInv, Holding, TurnInv, Opening, CallInv, Ready, workVars
<1>8. ConnInv'
  BY HoldFacts DEF ConnInv, Making, TurnInv, CallInv, Ready, Done, workVars
<1>9. CallInv'
  BY HoldFacts DEF CallInv, TurnInv, Ready, workVars
<1>10. ShownInv'
  BY HoldFacts, NamesApart DEF AgentInv, ShownInv, ConnInv, Making, Settled, Holding, TurnInv,
     Opening, Asked, Whys, Daemons, Ready, workVars
<1> QED BY <1>1, <1>2, <1>3, <1>4, <1>5, <1>6, <1>7, <1>8, <1>9, <1>10 DEF TypeOK

LEMMA ReadyFailsKeeps == ASSUME DaemonInv, ReadyFails PROVE DaemonInv'
<1> USE DEF DaemonInv
<1>1. TypeOfFiles'
  BY FaultFacts DEF TypeOfFiles, ReadyFails, fileVars, TypeOK
<1>2. TypeOfLook'
  BY FaultFacts DEF TypeOfLook, Phases, ReadyFails, lookVars, TypeOK
<1>3. TypeOfWork'
  BY FaultFacts DEF TypeOfWork, ReadyFails, workVars, TypeOK
<1>4. TypeOfTurns'
  BY GotoFacts, FaultFacts DEF TypeOfTurns, Places, ReadyFails, TypeOK
<1>5. QueueInv'
  BY FaultFacts DEF QueueInv, AboutDamage, ReadyFails, fileVars, workVars
<1>6. TurnInv'
  BY GotoFacts, FaultFacts DEF AgentInv, TurnInv, Booting, Opening, ComingDown, MakingOne,
     Asked, AboutDamage, Fresh, Places, ReadyFails, fileVars, lookVars, workVars
<1>7. AgentInv'
  BY FaultFacts DEF AgentInv, Holding, TurnInv, Opening, CallInv, ReadyFails, fileVars,
     lookVars, workVars
<1>8. ConnInv'
  BY GotoFacts, FaultFacts DEF ConnInv, Making, TurnInv, CallInv, Places, ReadyFails,
     fileVars, lookVars, workVars
<1>9. CallInv'
  BY FaultFacts DEF CallInv, TurnInv, ReadyFails, workVars
<1>10. ShownInv'
  BY GotoFacts, FaultFacts DEF ShownInv, ConnInv, Making, Settled, TurnInv, Asked, Places,
     ReadyFails, fileVars, lookVars
<1> QED BY <1>1, <1>2, <1>3, <1>4, <1>5, <1>6, <1>7, <1>8, <1>9, <1>10 DEF TypeOK

(* The steps that bring the runtime down, or find there is none.           *)
LEMMA DetachBeginKeeps == ASSUME DaemonInv, DetachBegin PROVE DaemonInv'
<1> USE DEF DaemonInv
<1>1. TypeOfFiles'
  BY DEF TypeOfFiles, DetachBegin, fileVars, TypeOK
<1>2. TypeOfLook'
  BY DEF TypeOfLook, Phases, DetachBegin, lookVars, TypeOK
<1>3. TypeOfWork'
  BY AgentFacts DEF TypeOfWork, DetachBegin, TypeOK
<1>4. TypeOfTurns'
  BY DEF TypeOfTurns, DetachBegin, At, turnVars, TypeOK
<1>5. QueueInv'
  BY NamesApart DEF QueueInv, AboutDamage, DetachBegin, At, fileVars, turnVars
<1>6. TurnInv'
  BY AgentFacts DEF TurnInv, Booting, Opening, ComingDown, MakingOne, Asked, AboutDamage,
     Fresh, Holding, Stopping, DetachBegin, At, fileVars, lookVars, turnVars
<1>7. AgentInv'
  BY AgentFacts DEF AgentInv, Holding, TurnInv, CallInv, DetachBegin, At, fileVars, lookVars,
     turnVars
<1>8. ConnInv'
  BY AgentFacts DEF ConnInv, Making, TurnInv, CallInv, DetachBegin, At, fileVars, lookVars,
     turnVars
<1>9. CallInv'
  BY AgentFacts DEF CallInv, TurnInv, DetachBegin
<1>10. ShownInv'
  BY DEF ShownInv, ConnInv, Making, Settled, TurnInv, Asked, Stopping, DetachBegin, At,
     fileVars, lookVars, turnVars
<1> QED BY <1>1, <1>2, <1>3, <1>4, <1>5, <1>6, <1>7, <1>8, <1>9, <1>10 DEF TypeOK

LEMMA StopEndKeeps == ASSUME DaemonInv, StopEnd PROVE DaemonInv'
<1> USE DEF DaemonInv
<1>1. CASE turn.at = "stop"
  <2>1. TypeOfFiles'
    BY <1>1 DEF TypeOfFiles, StopEnd, AfterStop, Detached, TypeOK
  <2>2. TypeOfLook'
    BY <1>1 DEF TypeOfLook, Phases, StopEnd, AfterStop, Detached, lookVars, TypeOK
  <2>3. TypeOfWork'
    BY <1>1 DEF TypeOfWork, StopEnd, AfterStop, Detached, TypeOK
  <2>4. TypeOfTurns'
    BY <1>1, GotoFacts DEF TypeOfTurns, Places, StopEnd, AfterStop, Detached, TypeOK
  <2>5. QueueInv'
    BY <1>1 DEF QueueInv, AboutDamage, StopEnd, AfterStop, Detached
  <2>6. TurnInv'
    BY <1>1, GotoFacts DEF TurnInv, Booting, Opening, ComingDown, MakingOne, Asked,
       AboutDamage, Fresh, Holding, Places, StopEnd, AfterStop, Detached, lookVars
  <2>7. AgentInv'
    BY <1>1 DEF AgentInv, Holding, TurnInv, CallInv, StopEnd, AfterStop, Detached, At,
       lookVars, turnVars
  <2>8. ConnInv'
    BY <1>1, GotoFacts DEF ConnInv, Making, TurnInv, CallInv, Places, StopEnd, AfterStop,
       Detached, lookVars
  <2>9. CallInv'
    BY <1>1 DEF CallInv, TurnInv, StopEnd, AfterStop, Detached
  <2>10. ShownInv'
    BY <1>1, GotoFacts DEF ShownInv, ConnInv, Making, Settled, TurnInv, Asked, Places,
       StopEnd, AfterStop, Detached, lookVars
  <2> QED BY <2>1, <2>2, <2>3, <2>4, <2>5, <2>6, <2>7, <2>8, <2>9, <2>10 DEF TypeOK
<1>2. CASE turn.at = "stopDamaged"
  <2>1. TypeOfFiles'
    BY <1>2 DEF TypeOfFiles, StopEnd, AfterStop, Detached, TypeOK
  <2>2. TypeOfLook'
    BY <1>2 DEF TypeOfLook, Phases, StopEnd, AfterStop, Detached, lookVars, TypeOK
  <2>3. TypeOfWork'
    BY <1>2 DEF TypeOfWork, StopEnd, AfterStop, Detached, TypeOK
  <2>4. TypeOfTurns'
    BY <1>2, GotoFacts DEF TypeOfTurns, Places, StopEnd, AfterStop, Detached, TypeOK
  <2>5. QueueInv'
    BY <1>2 DEF QueueInv, AboutDamage, StopEnd, AfterStop, Detached
  <2>6. TurnInv'
    BY <1>2, GotoFacts DEF AgentInv, TurnInv, Booting, Opening, ComingDown, MakingOne, Asked,
       AboutDamage, Fresh, Holding, Places, StopEnd, AfterStop, Detached, lookVars
  <2>7. AgentInv'
    BY <1>2 DEF AgentInv, Holding, TurnInv, CallInv, StopEnd, AfterStop, Detached, At,
       lookVars, turnVars
  <2>8. ConnInv'
    BY <1>2, GotoFacts DEF ConnInv, Making, TurnInv, CallInv, Places, StopEnd, AfterStop,
       Detached, lookVars
  <2>9. CallInv'
    BY <1>2 DEF CallInv, TurnInv, StopEnd, AfterStop, Detached
  <2>10. ShownInv'
    BY <1>2, GotoFacts DEF ShownInv, ConnInv, Making, Settled, TurnInv, Asked, Places,
       StopEnd, AfterStop, Detached, lookVars
  <2> QED BY <2>1, <2>2, <2>3, <2>4, <2>5, <2>6, <2>7, <2>8, <2>9, <2>10 DEF TypeOK
<1>3. CASE turn.at = "stopFailed" /\ turn.op \in {"unlock", "merge"}
  <2>1. TypeOfFiles'
    BY <1>3 DEF TypeOfFiles, StopEnd, AfterStop, Detached, TypeOK
  <2>2. TypeOfLook'
    BY <1>3 DEF TypeOfLook, Phases, StopEnd, AfterStop, Detached, lookVars, TypeOK
  <2>3. TypeOfWork'
    BY <1>3 DEF TypeOfWork, StopEnd, AfterStop, Detached, TypeOK
  <2>4. TypeOfTurns'
    BY <1>3, GotoFacts DEF TypeOfTurns, Places, StopEnd, AfterStop, Detached, TypeOK
  <2>5. QueueInv'
    BY <1>3 DEF QueueInv, AboutDamage, StopEnd, AfterStop, Detached
  <2>6. TurnInv'
    BY <1>3, GotoFacts DEF AgentInv, TurnInv, Booting, Opening, ComingDown, MakingOne, Asked,
       AboutDamage, Fresh, Holding, Places, StopEnd, AfterStop, Detached, lookVars
  <2>7. AgentInv'
    BY <1>3 DEF AgentInv, Holding, TurnInv, CallInv, StopEnd, AfterStop, Detached, At,
       lookVars, turnVars
  <2>8. ConnInv'
    BY <1>3, GotoFacts DEF ConnInv, Making, TurnInv, CallInv, Places, StopEnd, AfterStop,
       Detached, lookVars
  <2>9. CallInv'
    BY <1>3 DEF CallInv, TurnInv, StopEnd, AfterStop, Detached
  <2>10. ShownInv'
    BY <1>3, GotoFacts DEF ShownInv, ConnInv, Making, Settled, TurnInv, Asked, Places,
       StopEnd, AfterStop, Detached, lookVars
  <2> QED BY <2>1, <2>2, <2>3, <2>4, <2>5, <2>6, <2>7, <2>8, <2>9, <2>10 DEF TypeOK
<1>4. CASE turn.at = "stopFailed" /\ turn.op \notin {"unlock", "merge"}
  <2>1. TypeOfFiles'
    BY <1>4 DEF TypeOfFiles, StopEnd, AfterStop, Detached, TypeOK
  <2>2. TypeOfLook'
    BY <1>4 DEF TypeOfLook, Phases, StopEnd, AfterStop, Detached, lookVars, TypeOK
  <2>3. TypeOfWork'
    BY <1>4 DEF TypeOfWork, StopEnd, AfterStop, Detached, TypeOK
  <2>4. TypeOfTurns'
    BY <1>4, GotoFacts DEF TypeOfTurns, Places, StopEnd, AfterStop, Detached, TypeOK
  <2>5. QueueInv'
    BY <1>4 DEF QueueInv, AboutDamage, StopEnd, AfterStop, Detached
  <2>6. TurnInv'
    BY <1>4, GotoFacts DEF AgentInv, TurnInv, Booting, Opening, ComingDown, MakingOne, Asked,
       AboutDamage, Fresh, Holding, Places, StopEnd, AfterStop, Detached, lookVars
  <2>7. AgentInv'
    BY <1>4 DEF AgentInv, Holding, TurnInv, CallInv, StopEnd, AfterStop, Detached, At,
       lookVars, turnVars
  <2>8. ConnInv'
    BY <1>4, GotoFacts DEF ConnInv, Making, TurnInv, CallInv, Places, StopEnd, AfterStop,
       Detached, lookVars
  <2>9. CallInv'
    BY <1>4 DEF CallInv, TurnInv, StopEnd, AfterStop, Detached
  <2>10. ShownInv'
    BY <1>4, GotoFacts DEF ShownInv, ConnInv, Making, Settled, TurnInv, Asked, Places,
       StopEnd, AfterStop, Detached, lookVars
  <2> QED BY <2>1, <2>2, <2>3, <2>4, <2>5, <2>6, <2>7, <2>8, <2>9, <2>10 DEF TypeOK
<1> QED BY <1>1, <1>2, <1>3, <1>4, GotoFacts DEF StopEnd, Stopping, Ops

LEMMA StoppedKeeps == ASSUME DaemonInv, Stopped PROVE DaemonInv'
<1> USE DEF DaemonInv
<1>1. TypeOfFiles'
  BY HoldFacts, SayFacts DEF TypeOfFiles, Stopped, fileVars, TypeOK
<1>2. TypeOfLook'
  BY HoldFacts, SayFacts DEF TypeOfLook, Phases, Whys, Daemons, Stopped, TypeOK
<1>3. TypeOfWork'
  BY HoldFacts, SayFacts DEF TypeOfWork, Stopped, workVars, TypeOK
<1>4. TypeOfTurns'
  BY HoldFacts, SayFacts DEF TypeOfTurns, Stopped, Done, TypeOK
<1>5. QueueInv'
  BY HoldFacts, SayFacts DEF QueueInv, AboutDamage, Stopped, fileVars, workVars
<1>6. TurnInv'
  BY HoldFacts, SayFacts DEF TurnInv, Asked, AboutDamage, Stopped, Done
<1>7. AgentInv'
  BY HoldFacts, SayFacts DEF AgentInv, TurnInv, Opening, CallInv, Stopped, At, fileVars,
     workVars, turnVars
<1>8. ConnInv'
  BY HoldFacts, SayFacts DEF ConnInv, Making, TurnInv, CallInv, Stopped, Done, fileVars,
     workVars
<1>9. CallInv'
  BY HoldFacts, SayFacts DEF CallInv, TurnInv, Stopped, workVars
<1>10. ShownInv'
  BY HoldFacts, SayFacts DEF AgentInv, ShownInv, ConnInv, Making, Settled, Holding, TurnInv,
     Opening, ComingDown, MakingOne, Asked, Stopped, fileVars, workVars
<1> QED BY <1>1, <1>2, <1>3, <1>4, <1>5, <1>6, <1>7, <1>8, <1>9, <1>10 DEF TypeOK

(* The steps that make a vault.                                            *)
LEMMA VacantCheckedKeeps == ASSUME DaemonInv, VacantChecked PROVE DaemonInv'
<1> USE DEF DaemonInv
<1>1. TypeOfFiles'
  BY DEF TypeOfFiles, VacantChecked, Vacant, fileVars, TypeOK
<1>2. TypeOfLook'
  BY DEF TypeOfLook, Phases, VacantChecked, Vacant, lookVars, TypeOK
<1>3. TypeOfWork'
  BY DEF TypeOfWork, VacantChecked, Vacant, workVars, TypeOK
<1>4. TypeOfTurns'
  BY DEF TypeOfTurns, VacantChecked, Vacant, Done, TypeOK
<1>5. QueueInv'
  BY DEF QueueInv, AboutDamage, VacantChecked, Vacant, fileVars, workVars
<1>6. TurnInv'
  BY DEF TurnInv, Asked, AboutDamage, VacantChecked, Vacant, Done
<1>7. AgentInv'
  BY DEF AgentInv, Holding, TurnInv, CallInv, VacantChecked, Vacant, At, fileVars, lookVars,
     workVars, turnVars
<1>8. ConnInv'
  BY DEF ConnInv, Making, TurnInv, CallInv, VacantChecked, Vacant, At, Done, fileVars,
     lookVars, workVars, turnVars
<1>9. CallInv'
  BY DEF CallInv, TurnInv, VacantChecked, Vacant, workVars
<1>10. ShownInv'
  BY DEF ShownInv, ConnInv, Making, Settled, TurnInv, Asked, VacantChecked, Vacant, At,
     lookVars, workVars, turnVars
<1> QED BY <1>1, <1>2, <1>3, <1>4, <1>5, <1>6, <1>7, <1>8, <1>9, <1>10 DEF TypeOK

LEMMA MakeFileKeeps == ASSUME DaemonInv, MakeFile PROVE DaemonInv'
<1> USE DEF DaemonInv
<1>1. TypeOfFiles'
  BY HoldFacts, CountFacts, NewFileFacts DEF TypeOfFiles, MakeFile, Vacant, TypeOK
<1>2. TypeOfLook'
  BY HoldFacts, CountFacts, NewFileFacts DEF TypeOfLook, Phases, MakeFile, Vacant, TypeOK
<1>3. TypeOfWork'
  BY HoldFacts, CountFacts, NewFileFacts DEF TypeOfWork, MakeFile, Vacant, workVars, TypeOK
<1>4. TypeOfTurns'
  BY GotoFacts, HoldFacts, CountFacts, NewFileFacts DEF TypeOfTurns, Places, MakeFile, Vacant,
     TypeOK
<1>5. QueueInv'
  BY CountFacts, NamesApart DEF AgentInv, QueueInv, AboutDamage, Holding, MakeFile, Vacant,
     workVars
<1>6. TurnInv'
  BY GotoFacts, HoldFacts, CountFacts, NewFileFacts DEF AgentInv, TurnInv, Booting, Opening,
     ComingDown, MakingOne, Asked, AboutDamage, Fresh, Holding, Places, MakeFile, Vacant,
     workVars
<1>7. AgentInv'
  BY HoldFacts, CountFacts, NewFileFacts DEF AgentInv, Holding, TurnInv, CallInv, MakeFile,
     Vacant, workVars
<1>8. ConnInv'
  BY GotoFacts, HoldFacts, CountFacts, NewFileFacts DEF AgentInv, ConnInv, Making, Holding,
     TurnInv, CallInv, Places, MakeFile, Vacant, workVars
<1>9. CallInv'
  BY HoldFacts, CountFacts, NewFileFacts DEF CallInv, TurnInv, MakeFile, Vacant, workVars
<1>10. ShownInv'
  BY HoldFacts, CountFacts, NewFileFacts DEF ShownInv, ConnInv, Making, Settled, TurnInv,
     Asked, MakeFile, Vacant, workVars
<1> QED BY <1>1, <1>2, <1>3, <1>4, <1>5, <1>6, <1>7, <1>8, <1>9, <1>10 DEF TypeOK

LEMMA MakeVaultKeeps == ASSUME DaemonInv, MakeVault PROVE DaemonInv'
<1> USE DEF DaemonInv
<1>1. TypeOfFiles'
  BY FileFacts DEF TypeOfFiles, TurnInv, MakingOne, Holding, MakeVault, TypeOK
<1>2. TypeOfLook'
  BY FileFacts DEF TypeOfLook, Phases, MakeVault, lookVars, TypeOK
<1>3. TypeOfWork'
  BY FileFacts DEF TypeOfWork, MakeVault, workVars, TypeOK
<1>4. TypeOfTurns'
  BY GotoFacts, FileFacts DEF TypeOfTurns, Places, MakeVault, TypeOK
<1>5. QueueInv'
  BY FileFacts DEF QueueInv, AboutDamage, MakeVault, workVars
<1>6. TurnInv'
  BY GotoFacts, FileFacts DEF TurnInv, Booting, Opening, ComingDown, MakingOne, Asked,
     AboutDamage, Fresh, Holding, Places, MakeVault, lookVars, workVars
<1>7. AgentInv'
  BY FileFacts DEF AgentInv, Holding, TurnInv, MakingOne, CallInv, MakeVault, lookVars, workVars
<1>8. ConnInv'
  BY GotoFacts, FileFacts DEF ConnInv, Making, TurnInv, CallInv, Places, MakeVault, lookVars,
     workVars
<1>9. CallInv'
  BY FileFacts DEF CallInv, TurnInv, MakeVault, workVars
<1>10. ShownInv'
  BY GotoFacts, FileFacts DEF ShownInv, ConnInv, Making, Settled, TurnInv, Asked, Places,
     MakeVault, lookVars
<1> QED BY <1>1, <1>2, <1>3, <1>4, <1>5, <1>6, <1>7, <1>8, <1>9, <1>10 DEF TypeOK

LEMMA MakeFailsKeeps == ASSUME DaemonInv, MakeFails PROVE DaemonInv'
<1> USE DEF DaemonInv
<1>1. TypeOfFiles'
  BY FaultFacts DEF TypeOfFiles, MakeFails, TypeOK
<1>2. TypeOfLook'
  BY FaultFacts DEF TypeOfLook, Phases, MakeFails, TypeOK
<1>3. TypeOfWork'
  BY FaultFacts DEF TypeOfWork, MakeFails, workVars, TypeOK
<1>4. TypeOfTurns'
  BY FaultFacts DEF TypeOfTurns, MakeFails, Done, TypeOK
<1>5. QueueInv'
  BY FaultFacts, NamesApart DEF AgentInv, QueueInv, AboutDamage, TurnInv, MakingOne,
     MakeFails, workVars
<1>6. TurnInv'
  BY FaultFacts DEF TurnInv, Asked, AboutDamage, MakeFails, Done
<1>7. AgentInv'
  BY FaultFacts DEF AgentInv, TurnInv, MakingOne, CallInv, MakeFails, workVars
<1>8. ConnInv'
  BY FaultFacts DEF ConnInv, Making, TurnInv, CallInv, MakeFails, Done, workVars
<1>9. CallInv'
  BY FaultFacts DEF CallInv, TurnInv, MakeFails, workVars
<1>10. ShownInv'
  BY FaultFacts DEF AgentInv, ShownInv, ConnInv, Making, Settled, TurnInv, MakingOne, Asked,
     MakeFails, workVars
<1> QED BY <1>1, <1>2, <1>3, <1>4, <1>5, <1>6, <1>7, <1>8, <1>9, <1>10 DEF TypeOK

LEMMA MadeStartKeeps == ASSUME DaemonInv, MadeStart PROVE DaemonInv'
<1> USE DEF DaemonInv
<1>1. CASE closed
  <2>1. TypeOfFiles'
    BY <1>1, AttachFacts, CountFacts, FileFacts DEF TypeOfFiles, TurnInv, MakingOne, Holding,
       MadeStart, TypeOK
  <2>2. TypeOfLook'
    BY <1>1, AttachFacts, CountFacts, FileFacts DEF TypeOfLook, Phases, MadeStart, lookVars,
       TypeOK
  <2>3. TypeOfWork'
    BY <1>1, AttachFacts, CountFacts, FileFacts DEF TypeOfWork, MadeStart, workVars, TypeOK
  <2>4. TypeOfTurns'
    BY <1>1, AttachFacts, CountFacts, FileFacts DEF TypeOfTurns, MadeStart, Done, TypeOK
  <2>5. QueueInv'
    BY <1>1, AttachFacts, CountFacts, FileFacts DEF QueueInv, AboutDamage, MadeStart, workVars
  <2>6. TurnInv'
    BY <1>1, AttachFacts, CountFacts, FileFacts DEF TurnInv, Asked, AboutDamage, MadeStart, Done
  <2>7. AgentInv'
    BY <1>1, AttachFacts, CountFacts, FileFacts DEF AgentInv, Holding, TurnInv, MakingOne,
       CallInv, MadeStart, lookVars, workVars
  <2>8. ConnInv'
    BY <1>1, AttachFacts, CountFacts, FileFacts DEF ConnInv, Making, TurnInv, CallInv,
       MadeStart, Done, lookVars, workVars
  <2>9. CallInv'
    BY <1>1, AttachFacts, CountFacts, FileFacts DEF CallInv, TurnInv, MadeStart, workVars
  <2>10. ShownInv'
    BY <1>1, AttachFacts, CountFacts, FileFacts DEF ShownInv, ConnInv, Making, Settled,
       TurnInv, Asked, MadeStart, lookVars
  <2> QED BY <2>1, <2>2, <2>3, <2>4, <2>5, <2>6, <2>7, <2>8, <2>9, <2>10 DEF TypeOK
<1>2. CASE ~closed
  <2>1. TypeOfFiles'
    BY <1>2, AttachFacts, CountFacts, FileFacts DEF TypeOfFiles, TurnInv, MakingOne, Holding,
       MadeStart, TypeOK
  <2>2. TypeOfLook'
    BY <1>2, AttachFacts, CountFacts, FileFacts DEF TypeOfLook, Phases, MadeStart, lookVars,
       TypeOK
  <2>3. TypeOfWork'
    BY <1>2, AttachFacts, CountFacts, FileFacts DEF TypeOfWork, MadeStart, TypeOK
  <2>4. TypeOfTurns'
    BY <1>2, GotoFacts, AttachFacts, CountFacts, FileFacts DEF TypeOfTurns, Places, MadeStart,
       TypeOK
  <2>5. QueueInv'
    BY <1>2, AttachFacts, CountFacts, FileFacts DEF QueueInv, AboutDamage, MadeStart
  <2>6. TurnInv'
    BY <1>2, GotoFacts, AttachFacts, CountFacts, FileFacts DEF TurnInv, Booting, Opening,
       ComingDown, MakingOne, Asked, AboutDamage, Fresh, Places, MadeStart, lookVars
  <2>7. AgentInv'
    BY <1>2, AttachFacts, CountFacts, FileFacts DEF AgentInv, Holding, TurnInv, MakingOne,
       CallInv, MadeStart, lookVars
  <2>8. ConnInv'
    BY <1>2, GotoFacts, AttachFacts, CountFacts, FileFacts DEF ConnInv, Making, TurnInv,
       CallInv, Places, MadeStart, lookVars
  <2>9. CallInv'
    BY <1>2, AttachFacts, CountFacts, FileFacts DEF CallInv, TurnInv, MakingOne, MadeStart
  <2>10. ShownInv'
    BY <1>2, GotoFacts, AttachFacts, CountFacts, FileFacts DEF ShownInv, ConnInv, Making,
       Settled, TurnInv, Asked, Places, MadeStart, lookVars
  <2> QED BY <2>1, <2>2, <2>3, <2>4, <2>5, <2>6, <2>7, <2>8, <2>9, <2>10 DEF TypeOK
<1> QED BY <1>1, <1>2

(* The turns to unlock, lock and forget.                                   *)
LEMMA UnlockKeeps == ASSUME DaemonInv, Unlock PROVE DaemonInv'
<1> USE DEF DaemonInv
<1>1. TypeOfFiles'
  BY DEF TypeOfFiles, Unlock, TypeOK
<1>2. TypeOfLook'
  BY DEF TypeOfLook, Phases, Unlock, TypeOK
<1>3. TypeOfWork'
  BY DEF TypeOfWork, Unlock, workVars, TypeOK
<1>4. TypeOfTurns'
  BY GotoFacts DEF TypeOfTurns, Places, Unlock, At, Done, turnVars, TypeOK
<1>5. QueueInv'
  BY DEF QueueInv, AboutDamage, Unlock, At, workVars, turnVars
<1>6. TurnInv'
  BY GotoFacts DEF AgentInv, TurnInv, Booting, Opening, ComingDown, MakingOne, Asked,
     AboutDamage, Fresh, Holding, Places, Unlock, At, Done, workVars, turnVars
<1>7. AgentInv'
  BY DEF AgentInv, Holding, TurnInv, CallInv, Unlock, workVars
<1>8. ConnInv'
  BY GotoFacts DEF ConnInv, Making, TurnInv, CallInv, Places, Unlock, At, Done, workVars,
     turnVars
<1>9. CallInv'
  BY DEF CallInv, TurnInv, Unlock, workVars
<1>10. ShownInv'
  BY GotoFacts DEF ShownInv, ConnInv, Making, Settled, TurnInv, Asked, Places, Unlock, At,
     workVars, turnVars
<1> QED BY <1>1, <1>2, <1>3, <1>4, <1>5, <1>6, <1>7, <1>8, <1>9, <1>10 DEF TypeOK

LEMMA LockKeeps == ASSUME DaemonInv, Lock PROVE DaemonInv'
<1> USE DEF DaemonInv
<1>1. TypeOfFiles'
  BY DEF TypeOfFiles, Lock, TypeOK
<1>2. TypeOfLook'
  BY DEF TypeOfLook, Phases, Lock, lookVars, TypeOK
<1>3. TypeOfWork'
  BY DEF TypeOfWork, Lock, workVars, TypeOK
<1>4. TypeOfTurns'
  BY GotoFacts DEF TypeOfTurns, Places, Lock, At, Done, turnVars, TypeOK
<1>5. QueueInv'
  BY DEF QueueInv, AboutDamage, Lock, At, workVars, turnVars
<1>6. TurnInv'
  BY GotoFacts DEF TurnInv, Booting, Opening, ComingDown, MakingOne, Asked, AboutDamage,
     Fresh, Places, Lock, At, Done, lookVars, turnVars
<1>7. AgentInv'
  BY DEF AgentInv, Holding, Stopping, TurnInv, CallInv, Lock, At, lookVars, workVars, turnVars
<1>8. ConnInv'
  BY GotoFacts DEF ConnInv, Making, TurnInv, CallInv, Places, Lock, At, Done, lookVars,
     workVars, turnVars
<1>9. CallInv'
  BY DEF CallInv, TurnInv, Lock, workVars
<1>10. ShownInv'
  BY DEF ShownInv, ConnInv, Making, Settled, TurnInv, Asked, Lock, At, lookVars, workVars,
     turnVars
<1> QED BY <1>1, <1>2, <1>3, <1>4, <1>5, <1>6, <1>7, <1>8, <1>9, <1>10 DEF TypeOK

LEMMA LockStoppedKeeps == ASSUME DaemonInv, LockStopped PROVE DaemonInv'
<1> USE DEF DaemonInv
<1>1. CASE file = None
  <2>1. TypeOfFiles'
    BY <1>1, SayFacts DEF TypeOfFiles, LockStopped, Say, fileVars, TypeOK
  <2>2. TypeOfLook'
    BY <1>1, SayFacts DEF TypeOfLook, Phases, LockStopped, Say, TypeOK
  <2>3. TypeOfWork'
    BY <1>1, SayFacts DEF TypeOfWork, LockStopped, Say, workVars, TypeOK
  <2>4. TypeOfTurns'
    BY <1>1, SayFacts DEF TypeOfTurns, LockStopped, Say, Done, TypeOK
  <2>5. QueueInv'
    BY <1>1, SayFacts DEF QueueInv, AboutDamage, LockStopped, Say, At, fileVars, workVars,
       turnVars
  <2>6. TurnInv'
    BY <1>1, SayFacts DEF TurnInv, Asked, AboutDamage, LockStopped, Say, Done
  <2>7. AgentInv'
    BY <1>1, SayFacts DEF AgentInv, Holding, TurnInv, CallInv, LockStopped, Say, fileVars,
       workVars
  <2>8. ConnInv'
    BY <1>1, SayFacts DEF ConnInv, Making, TurnInv, CallInv, LockStopped, Say, At, Done,
       fileVars, workVars, turnVars
  <2>9. CallInv'
    BY <1>1, SayFacts DEF CallInv, TurnInv, LockStopped, Say, workVars
  <2>10. ShownInv'
    BY <1>1, SayFacts, NamesApart DEF AgentInv, ShownInv, ConnInv, Making, Settled, Holding,
       TurnInv, Asked, Whys, Daemons, LockStopped, Say, workVars
  <2> QED BY <2>1, <2>2, <2>3, <2>4, <2>5, <2>6, <2>7, <2>8, <2>9, <2>10 DEF TypeOK
<1>2. CASE file # None
  <2>1. TypeOfFiles'
    BY <1>2, SayFacts DEF TypeOfFiles, LockStopped, Say, fileVars, TypeOK
  <2>2. TypeOfLook'
    BY <1>2, SayFacts DEF TypeOfLook, Phases, LockStopped, Say, TypeOK
  <2>3. TypeOfWork'
    BY <1>2, SayFacts DEF TypeOfWork, LockStopped, Say, workVars, TypeOK
  <2>4. TypeOfTurns'
    BY <1>2, GotoFacts, SayFacts DEF TypeOfTurns, Places, LockStopped, Say, At, turnVars, TypeOK
  <2>5. QueueInv'
    BY <1>2, SayFacts DEF QueueInv, AboutDamage, LockStopped, Say, At, fileVars, workVars,
       turnVars
  <2>6. TurnInv'
    BY <1>2, GotoFacts, SayFacts DEF AgentInv, TurnInv, Booting, Opening, ComingDown,
       MakingOne, Asked, AboutDamage, Fresh, Holding, Places, LockStopped, Say, At, fileVars,
       workVars, turnVars
  <2>7. AgentInv'
    BY <1>2, SayFacts DEF AgentInv, TurnInv, ComingDown, CallInv, LockStopped, Say, At,
       fileVars, workVars, turnVars
  <2>8. ConnInv'
    BY <1>2, GotoFacts, SayFacts DEF ConnInv, Making, TurnInv, CallInv, Places, LockStopped,
       Say, At, fileVars, workVars, turnVars
  <2>9. CallInv'
    BY <1>2, SayFacts DEF CallInv, TurnInv, LockStopped, Say, workVars
  <2>10. ShownInv'
    BY <1>2, GotoFacts, SayFacts DEF ShownInv, ConnInv, Making, Settled, TurnInv, Asked,
       Places, LockStopped, Say, fileVars, workVars
  <2> QED BY <2>1, <2>2, <2>3, <2>4, <2>5, <2>6, <2>7, <2>8, <2>9, <2>10 DEF TypeOK
<1> QED BY <1>1, <1>2

LEMMA ForgetKeeps == ASSUME DaemonInv, Forget PROVE DaemonInv'
<1> USE DEF DaemonInv
<1>1. TypeOfFiles'
  BY DEF TypeOfFiles, Forget, fileVars, TypeOK
<1>2. TypeOfLook'
  BY DEF TypeOfLook, Phases, Forget, lookVars, TypeOK
<1>3. TypeOfWork'
  BY DEF TypeOfWork, Forget, workVars, TypeOK
<1>4. TypeOfTurns'
  BY GotoFacts DEF TypeOfTurns, Places, Forget, At, Done, turnVars, TypeOK
<1>5. QueueInv'
  BY DEF QueueInv, AboutDamage, Forget, At, fileVars, workVars, turnVars
<1>6. TurnInv'
  BY GotoFacts DEF TurnInv, Booting, Opening, ComingDown, MakingOne, Asked, AboutDamage,
     Fresh, Places, Forget, At, Done, fileVars, turnVars
<1>7. AgentInv'
  BY DEF AgentInv, Holding, Stopping, TurnInv, CallInv, Forget, At, fileVars, lookVars,
     workVars, turnVars
<1>8. ConnInv'
  BY GotoFacts DEF ConnInv, Making, TurnInv, CallInv, Places, Forget, At, Done, fileVars,
     lookVars, workVars, turnVars
<1>9. CallInv'
  BY DEF CallInv, TurnInv, Forget, workVars
<1>10. ShownInv'
  BY DEF ShownInv, ConnInv, Making, Settled, TurnInv, Asked, Forget, At, fileVars, lookVars,
     workVars, turnVars
<1> QED BY <1>1, <1>2, <1>3, <1>4, <1>5, <1>6, <1>7, <1>8, <1>9, <1>10 DEF TypeOK

LEMMA ForgetStoppedKeeps == ASSUME DaemonInv, ForgetStopped PROVE DaemonInv'
<1> USE DEF DaemonInv
<1>1. TypeOfFiles'
  BY SayFacts DEF TypeOfFiles, ForgetStopped, Say, TypeOK
<1>2. TypeOfLook'
  BY SayFacts DEF TypeOfLook, Phases, ForgetStopped, Say, TypeOK
<1>3. TypeOfWork'
  BY SayFacts DEF TypeOfWork, ForgetStopped, Say, workVars, TypeOK
<1>4. TypeOfTurns'
  BY SayFacts DEF TypeOfTurns, ForgetStopped, Say, Done, TypeOK
<1>5. QueueInv'
  BY SayFacts, NamesApart DEF AgentInv, QueueInv, AboutDamage, TurnInv, ComingDown,
     ForgetStopped, Say, At, workVars, turnVars
<1>6. TurnInv'
  BY SayFacts DEF TurnInv, Asked, AboutDamage, ForgetStopped, Say, Done
<1>7. AgentInv'
  BY SayFacts DEF AgentInv, TurnInv, ComingDown, CallInv, ForgetStopped, Say, At, workVars,
     turnVars
<1>8. ConnInv'
  BY SayFacts DEF ConnInv, Making, TurnInv, CallInv, ForgetStopped, Say, At, Done, workVars,
     turnVars
<1>9. CallInv'
  BY SayFacts DEF CallInv, TurnInv, ForgetStopped, Say, workVars
<1>10. ShownInv'
  BY SayFacts, NamesApart DEF AgentInv, ShownInv, ConnInv, Making, Settled, TurnInv,
     ComingDown, Asked, Whys, Daemons, ForgetStopped, Say, At, workVars, turnVars
<1> QED BY <1>1, <1>2, <1>3, <1>4, <1>5, <1>6, <1>7, <1>8, <1>9, <1>10 DEF TypeOK

(* The turns to export and merge, and the giving up of a damaged vault.    *)
LEMMA ExportKeeps == ASSUME DaemonInv, Export PROVE DaemonInv'
<1> USE DEF DaemonInv
<1>1. TypeOfFiles'
  BY DEF TypeOfFiles, Export, fileVars, TypeOK
<1>2. TypeOfLook'
  BY DEF TypeOfLook, Phases, Export, lookVars, TypeOK
<1>3. TypeOfWork'
  BY DEF TypeOfWork, Export, workVars, TypeOK
<1>4. TypeOfTurns'
  BY DEF TypeOfTurns, Export, Done, TypeOK
<1>5. QueueInv'
  BY DEF QueueInv, AboutDamage, Export, At, fileVars, workVars, turnVars
<1>6. TurnInv'
  BY DEF TurnInv, Asked, AboutDamage, Export, Done
<1>7. AgentInv'
  BY DEF AgentInv, Holding, Stopping, TurnInv, CallInv, Export, At, fileVars, lookVars,
     workVars, turnVars
<1>8. ConnInv'
  BY DEF ConnInv, Making, TurnInv, CallInv, Export, At, Done, fileVars, lookVars, workVars,
     turnVars
<1>9. CallInv'
  BY DEF CallInv, TurnInv, Export, workVars
<1>10. ShownInv'
  BY DEF ShownInv, ConnInv, Making, Settled, TurnInv, Asked, Export, At, fileVars, lookVars,
     workVars, turnVars
<1> QED BY <1>1, <1>2, <1>3, <1>4, <1>5, <1>6, <1>7, <1>8, <1>9, <1>10 DEF TypeOK

LEMMA MergeKeeps == ASSUME DaemonInv, Merge PROVE DaemonInv'
<1> USE DEF DaemonInv
<1>1. TypeOfFiles'
  BY DEF TypeOfFiles, Merge, fileVars, TypeOK
<1>2. TypeOfLook'
  BY DEF TypeOfLook, Phases, Merge, lookVars, TypeOK
<1>3. TypeOfWork'
  BY DEF TypeOfWork, Merge, workVars, TypeOK
<1>4. TypeOfTurns'
  BY GotoFacts DEF TypeOfTurns, Places, Merge, At, Done, turnVars, TypeOK
<1>5. QueueInv'
  BY DEF QueueInv, AboutDamage, Merge, At, fileVars, workVars, turnVars
<1>6. TurnInv'
  BY GotoFacts DEF AgentInv, TurnInv, Booting, Opening, ComingDown, MakingOne, Asked,
     AboutDamage, Fresh, Holding, Places, Merge, At, Done, fileVars, lookVars, workVars,
     turnVars
<1>7. AgentInv'
  BY DEF AgentInv, Holding, TurnInv, CallInv, Merge, At, fileVars, lookVars, workVars, turnVars
<1>8. ConnInv'
  BY GotoFacts DEF ConnInv, Making, TurnInv, CallInv, Places, Merge, At, Done, fileVars,
     lookVars, workVars, turnVars
<1>9. CallInv'
  BY DEF CallInv, TurnInv, Merge, workVars
<1>10. ShownInv'
  BY DEF ShownInv, ConnInv, Making, Settled, TurnInv, Asked, Merge, At, lookVars, workVars,
     turnVars
<1> QED BY <1>1, <1>2, <1>3, <1>4, <1>5, <1>6, <1>7, <1>8, <1>9, <1>10 DEF TypeOK

LEMMA MergeDetachedKeeps == ASSUME DaemonInv, MergeDetached PROVE DaemonInv'
<1> USE DEF DaemonInv
<1>1. TypeOfFiles'
  BY CountFacts, NewAgentFacts DEF TypeOfFiles, MergeDetached, Detached, fileVars, TypeOK
<1>2. TypeOfLook'
  BY CountFacts, NewAgentFacts DEF TypeOfLook, Phases, MergeDetached, Detached, lookVars, TypeOK
<1>3. TypeOfWork'
  BY CountFacts, NewAgentFacts DEF TypeOfWork, MergeDetached, Detached, TypeOK
<1>4. TypeOfTurns'
  BY CountFacts, NewAgentFacts DEF TypeOfTurns, MergeDetached, Detached, Done, TypeOK
<1>5. QueueInv'
  BY CountFacts DEF QueueInv, AboutDamage, Fresh, MergeDetached, Detached, At, fileVars,
     turnVars
<1>6. TurnInv'
  BY CountFacts, NewAgentFacts DEF TurnInv, Asked, AboutDamage, MergeDetached, Detached, Done
<1>7. AgentInv'
  BY CountFacts, NewAgentFacts DEF AgentInv, Holding, TurnInv, ComingDown, CallInv,
     MergeDetached, Detached, At, fileVars, lookVars, turnVars
<1>8. ConnInv'
  BY CountFacts, NewAgentFacts DEF ConnInv, Making, TurnInv, ComingDown, CallInv,
     MergeDetached, Detached, At, Done, fileVars, lookVars, turnVars
<1>9. CallInv'
  BY CountFacts, NewAgentFacts DEF CallInv, TurnInv, MergeDetached, Detached
<1>10. ShownInv'
  BY CountFacts, NewAgentFacts DEF ShownInv, ConnInv, Making, Settled, TurnInv, Asked,
     MergeDetached, Detached, At, fileVars, lookVars, turnVars
<1> QED BY <1>1, <1>2, <1>3, <1>4, <1>5, <1>6, <1>7, <1>8, <1>9, <1>10 DEF TypeOK

LEMMA MergeStoppedKeeps == ASSUME DaemonInv, MergeStopped PROVE DaemonInv'
<1> USE DEF DaemonInv
<1>1. TypeOfFiles'
  BY CountFacts DEF TypeOfFiles, MergeStopped, fileVars, TypeOK
<1>2. TypeOfLook'
  BY CountFacts DEF TypeOfLook, Phases, MergeStopped, lookVars, TypeOK
<1>3. TypeOfWork'
  BY CountFacts DEF TypeOfWork, MergeStopped, workVars, TypeOK
<1>4. TypeOfTurns'
  BY GotoFacts, CountFacts DEF TypeOfTurns, Places, MergeStopped, At, turnVars, TypeOK
<1>5. QueueInv'
  BY CountFacts DEF QueueInv, AboutDamage, MergeStopped, At, fileVars, workVars, turnVars
<1>6. TurnInv'
  BY GotoFacts, CountFacts DEF TurnInv, Booting, Opening, ComingDown, MakingOne, Asked,
     AboutDamage, Fresh, Holding, Places, MergeStopped, At, fileVars, lookVars, workVars,
     turnVars
<1>7. AgentInv'
  BY CountFacts DEF AgentInv, TurnInv, ComingDown, CallInv, MergeStopped, At, fileVars,
     lookVars, workVars, turnVars
<1>8. ConnInv'
  BY GotoFacts, CountFacts DEF ConnInv, Making, TurnInv, CallInv, Places, MergeStopped, At,
     fileVars, lookVars, workVars, turnVars
<1>9. CallInv'
  BY CountFacts DEF CallInv, TurnInv, MergeStopped, workVars
<1>10. ShownInv'
  BY GotoFacts, CountFacts DEF ShownInv, ConnInv, Making, Settled, TurnInv, Asked, Places,
     MergeStopped, fileVars, lookVars, workVars
<1> QED BY <1>1, <1>2, <1>3, <1>4, <1>5, <1>6, <1>7, <1>8, <1>9, <1>10 DEF TypeOK

LEMMA GiveUpDamagedKeeps == ASSUME DaemonInv, GiveUpDamaged PROVE DaemonInv'
<1> USE DEF DaemonInv
<1>1. TypeOfFiles'
  BY DEF TypeOfFiles, GiveUpDamaged, fileVars, TypeOK
<1>2. TypeOfLook'
  BY DEF TypeOfLook, Phases, GiveUpDamaged, lookVars, TypeOK
<1>3. TypeOfWork'
  BY DEF TypeOfWork, GiveUpDamaged, workVars, TypeOK
<1>4. TypeOfTurns'
  BY GotoFacts DEF TypeOfTurns, Places, GiveUpDamaged, At, Done, turnVars, TypeOK
<1>5. QueueInv'
  BY DEF QueueInv, AboutDamage, GiveUpDamaged, At, fileVars, workVars, turnVars
<1>6. TurnInv'
  BY GotoFacts DEF AgentInv, TurnInv, Booting, Opening, ComingDown, MakingOne, Asked,
     AboutDamage, Fresh, Places, GiveUpDamaged, At, Done, fileVars, workVars, turnVars
<1>7. AgentInv'
  BY DEF AgentInv, Holding, Stopping, TurnInv, CallInv, GiveUpDamaged, At, fileVars, lookVars,
     workVars, turnVars
<1>8. ConnInv'
  BY GotoFacts DEF ConnInv, Making, TurnInv, CallInv, Places, GiveUpDamaged, At, Done,
     fileVars, lookVars, workVars, turnVars
<1>9. CallInv'
  BY DEF CallInv, TurnInv, GiveUpDamaged, workVars
<1>10. ShownInv'
  BY DEF ShownInv, ConnInv, Making, Settled, TurnInv, Asked, GiveUpDamaged, At, fileVars,
     lookVars, workVars, turnVars
<1> QED BY <1>1, <1>2, <1>3, <1>4, <1>5, <1>6, <1>7, <1>8, <1>9, <1>10 DEF TypeOK

(* The turn that closes the daemon.                                        *)
LEMMA CloseBeginKeeps == ASSUME DaemonInv, CloseBegin PROVE DaemonInv'
<1> USE DEF DaemonInv
<1>1. TypeOfFiles'
  BY DEF TypeOfFiles, CloseBegin, fileVars, TypeOK
<1>2. TypeOfLook'
  BY DEF TypeOfLook, Phases, CloseBegin, lookVars, TypeOK
<1>3. TypeOfWork'
  BY DEF TypeOfWork, CloseBegin, workVars, TypeOK
<1>4. TypeOfTurns'
  BY GotoFacts DEF TypeOfTurns, Places, CloseBegin, At, turnVars, TypeOK
<1>5. QueueInv'
  BY DEF QueueInv, AboutDamage, CloseBegin, At, fileVars, workVars, turnVars
<1>6. TurnInv'
  BY GotoFacts DEF TurnInv, Booting, Opening, ComingDown, MakingOne, Asked, AboutDamage,
     Fresh, Places, CloseBegin, At, turnVars
<1>7. AgentInv'
  BY DEF AgentInv, Holding, Stopping, TurnInv, CallInv, CloseBegin, At, fileVars, lookVars,
     workVars, turnVars
<1>8. ConnInv'
  BY GotoFacts DEF ConnInv, Making, TurnInv, CallInv, Places, CloseBegin, At, fileVars,
     lookVars, workVars, turnVars
<1>9. CallInv'
  BY DEF CallInv, TurnInv, CloseBegin, workVars
<1>10. ShownInv'
  BY DEF ShownInv, ConnInv, Making, Settled, TurnInv, Asked, CloseBegin, At, lookVars, turnVars
<1> QED BY <1>1, <1>2, <1>3, <1>4, <1>5, <1>6, <1>7, <1>8, <1>9, <1>10 DEF TypeOK

LEMMA CloseStoppedKeeps == ASSUME DaemonInv, CloseStopped PROVE DaemonInv'
<1> USE DEF DaemonInv
<1>1. TypeOfFiles'
  BY DEF TypeOfFiles, CloseStopped, TypeOK
<1>2. TypeOfLook'
  BY DEF TypeOfLook, Phases, CloseStopped, TypeOK
<1>3. TypeOfWork'
  BY DEF TypeOfWork, CloseStopped, workVars, TypeOK
<1>4. TypeOfTurns'
  BY DEF TypeOfTurns, CloseStopped, Done, TypeOK
<1>5. QueueInv'
  BY DEF QueueInv, AboutDamage, CloseStopped, At, workVars, turnVars
<1>6. TurnInv'
  BY DEF TurnInv, Asked, AboutDamage, CloseStopped, Done
<1>7. AgentInv'
  BY DEF AgentInv, TurnInv, ComingDown, CallInv, CloseStopped, At, workVars, turnVars
<1>8. ConnInv'
  BY DEF ConnInv, Making, TurnInv, CallInv, CloseStopped, At, Done, workVars, turnVars
<1>9. CallInv'
  BY DEF CallInv, TurnInv, CloseStopped, workVars
<1>10. ShownInv'
  BY DEF ShownInv, ConnInv, Making, Settled, TurnInv, Asked, CloseStopped, At, turnVars
<1> QED BY <1>1, <1>2, <1>3, <1>4, <1>5, <1>6, <1>7, <1>8, <1>9, <1>10 DEF TypeOK

-----------------------------------------------------------------------------
(* Calls over the agent, what is asked for, and what the file is told take *)
(* place beside the turn under way: they leave alone what it relies on.    *)
Askable(op, arg) ==
    /\ op \in Ops \ {"boot"}
    /\ arg \in Nat \cup Callers \cup {None}
    /\ op = "close" => closed'
    /\ op = "damaged" => arg \in 0..count.opened /\ (open = arg => file.rotten)
    /\ op = "export" => arg \in Callers \cup {None}

Beside ==
    /\ UNCHANGED <<conn, seed, taken, lookVars, open, agent, turn>>
    /\ file' = file \/ (file # None /\ file' \in Files /\ file' # None /\ (file.rotten => file'.rotten))
    /\ call' \in [Callers -> Calls \cup {None}]
    /\ \A c \in Callers : call'[c] # None => agent # None /\ agent.id = call'[c].agent
    /\ fetching' \in Nat
    /\ closed' \in BOOLEAN /\ (closed => closed')
    /\ queue' = queue \/ \E op, arg : Askable(op, arg) /\ queue' = Append(queue, Turn(op, arg))
    /\ count' \in Counts /\ count'.opened = count.opened

(* Whatever happens beside the turns keeps the invariant: it moves calls   *)
(* only while an agent runs, and asks only for turns that may wait.        *)
LEMMA BesideKeeps == ASSUME DaemonInv, Beside PROVE DaemonInv'
<1> USE DEF DaemonInv
<1>1. /\ queue' \in Seq(Turns)
      /\ \A i \in 1..Len(queue') :
            \/ i \in 1..Len(queue) /\ queue'[i] = queue[i]
            \/ \E op, arg : Askable(op, arg) /\ queue'[i].op = op /\ queue'[i].arg = arg /\ queue'[i].at = "begin"
  <2>1. CASE queue' = queue
    BY <2>1 DEF TypeOK, TypeOfTurns
  <2>2. CASE \E op, arg : Askable(op, arg) /\ queue' = Append(queue, Turn(op, arg))
    <3>1. PICK op, arg : Askable(op, arg) /\ queue' = Append(queue, Turn(op, arg))
      BY <2>2
    <3>2. /\ queue' \in Seq(Turns)
          /\ \A i \in 1..Len(queue') :
                \/ i \in 1..Len(queue) /\ queue'[i] = queue[i]
                \/ queue'[i].op = op /\ queue'[i].arg = arg /\ queue'[i].at = "begin"
      BY <3>1, AppendFacts DEF Askable
    <3> QED BY <3>1, <3>2
  <2> QED BY <2>1, <2>2 DEF Beside
<1>2. TypeOfFiles' /\ TypeOfLook' /\ TypeOfWork' /\ TypeOfTurns'
  BY <1>1 DEF TypeOK, TypeOfFiles, TypeOfLook, TypeOfWork, TypeOfTurns, Beside, lookVars
<1>3. QueueInv'
  BY <1>1 DEF QueueInv, AboutDamage, Fresh, AgentInv, Holding, Beside, Askable, lookVars
<1>4. TurnInv'
  BY DEF TurnInv, Booting, Opening, ComingDown, MakingOne, Asked, AboutDamage, Fresh,
     AgentInv, Holding, Beside, lookVars
<1>5. AgentInv'
  BY DEF AgentInv, Holding, Stopping, At, Beside, lookVars
<1>6. ConnInv' /\ CallInv'
  BY DEF ConnInv, CallInv, Making, Beside, lookVars
<1>7. ShownInv'
  BY DEF ShownInv, Settled, AgentInv, Holding, Beside, lookVars
<1> QED BY <1>2, <1>3, <1>4, <1>5, <1>6, <1>7 DEF TypeOK

(* A call made over the agent, one that goes on, and one settled.          *)
LEMMA BeginBeside ==
    ASSUME DaemonInv, NEW c \in Callers, NEW kind \in Kinds, NEW at \in CallPlaces, Begin(c, kind, at)
    PROVE  Beside /\ count'.renewed = count.renewed
<1>1. agent # None /\ agent.id \in Nat /\ call \in [Callers -> Calls \cup {None}]
  BY AgentFacts DEF DaemonInv, AgentInv, Begin, TypeOK, TypeOfWork
<1>2. [kind |-> kind, agent |-> agent.id, at |-> at] \in Calls
  BY <1>1 DEF Calls
<1>3. call' \in [Callers -> Calls \cup {None}]
  BY <1>1, <1>2 DEF Begin
<1>4. \A d \in Callers : call'[d] # None => agent.id = call'[d].agent
  BY <1>1 DEF Begin, DaemonInv, CallInv
<1>5. count' \in Counts /\ count'.opened = count.opened /\ count'.renewed = count.renewed
  BY CountFacts DEF DaemonInv, Begin
<1> QED BY <1>1, <1>3, <1>4, <1>5 DEF Beside, Begin, DaemonInv, TypeOK, TypeOfTurns, fileVars,
   lookVars, turnVars

(* A call that moves on stays the same call, and no other moves.           *)
LEMMA MovesFacts ==
    ASSUME TypeOK, NEW c \in Callers, call[c] # None, NEW at \in CallPlaces \cup Callers, call' = [call EXCEPT ![c].at = at]
    PROVE  /\ call' \in [Callers -> Calls \cup {None}]
           /\ call'[c] # None /\ call'[c].kind = call[c].kind /\ call'[c].at = at /\ call'[c].agent = call[c].agent
           /\ \A d \in Callers \ {c} : call'[d] = call[d]
<1>1. call \in [Callers -> Calls \cup {None}] /\ call[c] \in Calls
  BY DEF TypeOK, TypeOfWork
<1>2. [call[c] EXCEPT !.at = at] \in Calls
  BY <1>1 DEF Calls
<1>3. call' = [call EXCEPT ![c] = [call[c] EXCEPT !.at = at]]
  OBVIOUS
<1>4. call'[c] = [call[c] EXCEPT !.at = at] /\ call' \in [Callers -> Calls \cup {None}] /\ \A d \in Callers \ {c} : call'[d] = call[d]
  BY <1>1, <1>2, <1>3
<1> QED BY <1>1, <1>2, <1>4, NamesApart DEF Calls

(* A call that settles is gone, and no other.                              *)
LEMMA SettleFacts ==
    ASSUME TypeOK, NEW c \in Callers, Settle(c)
    PROVE  /\ call' \in [Callers -> Calls \cup {None}]
           /\ call'[c] = None /\ \A d \in Callers \ {c} : call'[d] = call[d]
BY DEF TypeOK, TypeOfWork, Settle

(* The steps of a call are beside the turns.                               *)
LEMMA CallStepBeside ==
    ASSUME DaemonInv, NEW c \in Callers, CallStep(c)
    PROVE  Beside /\ count' = count
<1> USE DEF DaemonInv
<1>1. CASE PublicDidLook(c)
  <2>1. call' = [call EXCEPT ![c].at = IF file.publics > 0 THEN "calling" ELSE "minting"]
    BY <1>1 DEF PublicDidLook
  <2>2. (IF file.publics > 0 THEN "calling" ELSE "minting") \in CallPlaces \cup Callers
    BY DEF CallPlaces
  <2> QED BY <1>1, <2>1, <2>2, MovesFacts DEF PublicDidLook, Beside, CallInv, TypeOK,
     TypeOfTurns, fileVars, lookVars, turnVars
<1>2. CASE PublicDidDisclose(c)
  <2>1. Settle(c) /\ agent # None /\ file # None
    BY <1>2 DEF PublicDidDisclose, CallInv, AgentInv, Holding
  <2>2. file' = file \/ (file' \in Files /\ file' # None /\ (file.rotten => file'.rotten))
    BY <1>2, <2>1, FileFacts DEF PublicDidDisclose
  <2> QED BY <1>2, <2>1, <2>2, SettleFacts DEF PublicDidDisclose, Beside, CallInv, TypeOK,
     TypeOfTurns, lookVars, turnVars
<1>3. CASE CallEnds(c)
  BY <1>3, SettleFacts DEF CallEnds, Beside, CallInv, TypeOK, TypeOfTurns, fileVars, lookVars,
     turnVars
<1> QED BY <1>1, <1>2, <1>3 DEF CallStep

(* So is every request for a turn, and the damage a call meets.            *)
LEMMA AskBeside ==
    ASSUME DaemonInv, Views \/ RestoreFromLinkRead \/ CloseAsked \/ MeetDamage
    PROVE  Beside /\ count'.renewed = count.renewed
<1> USE DEF DaemonInv
<1>1. /\ call' = call => call' \in [Callers -> Calls \cup {None}] /\ \A c \in Callers : call'[c] # None => agent # None /\ agent.id = call'[c].agent
      /\ fetching \in Nat /\ (fetching > 0 => fetching - 1 \in Nat) /\ closed \in BOOLEAN /\ count \in Counts
  BY DEF CallInv, TypeOK, TypeOfWork, TypeOfTurns
<1>2. ASSUME NEW op \in Ops \ {"boot", "close", "damaged"}, NEW arg \in Nat \cup {None}, Ask(op, arg), op = "export" => arg = None
      PROVE  Beside /\ count'.renewed = count.renewed
  <2>1. Askable(op, arg) /\ queue' = Append(queue, Turn(op, arg))
    BY <1>2 DEF Ask, Askable
  <2> QED BY <1>1, <1>2, <2>1, CountFacts DEF Ask, Beside, fileVars, lookVars, workVars
<1>3. CASE Views
  <2>1. \A h \in DOMAIN issued : h \in Nat
    BY DEF TypeOK, TypeOfLook
  <2> QED BY <1>2, <1>3, <2>1 DEF Views, Ops
<1>4. CASE RestoreFromLinkRead
  <2>1. Askable("restore", None)
    BY DEF Askable, Ops
  <2> QED BY <1>1, <1>4, <2>1 DEF RestoreFromLinkRead, Beside, fileVars, lookVars, workVars
<1>5. CASE CloseAsked
  <2>1. Askable("close", None)
    BY <1>5 DEF Askable, Ops, CloseAsked
  <2> QED BY <1>1, <1>5, <2>1 DEF CloseAsked, Beside, fileVars, lookVars, workVars
<1>6. CASE MeetDamage
  <2>1. Askable("damaged", open)
    BY <1>6 DEF Askable, Ops, MeetDamage, AgentInv, TypeOK, TypeOfWork
  <2> QED BY <1>1, <1>6, <2>1 DEF MeetDamage, Beside, fileVars, lookVars, workVars
<1> QED BY <1>3, <1>4, <1>5, <1>6

(* So are the restored vault's explanation and the decay of a file.        *)
LEMMA FileBeside ==
    ASSUME DaemonInv, ExplainedRestore \/ Rot
    PROVE  Beside /\ count'.renewed = count.renewed
<1> USE DEF DaemonInv
<1>1. /\ call' = call => call' \in [Callers -> Calls \cup {None}] /\ \A c \in Callers : call'[c] # None => agent # None /\ agent.id = call'[c].agent
      /\ fetching \in Nat /\ closed \in BOOLEAN /\ count \in Counts
  BY DEF CallInv, TypeOK, TypeOfWork, TypeOfTurns
<1>2. CASE ExplainedRestore
  BY <1>1, <1>2, FileFacts DEF ExplainedRestore, AgentInv, Holding, Beside, lookVars,
     workVars, turnVars
<1>3. CASE Rot
  BY <1>1, <1>3, FileFacts, FaultFacts DEF Rot, Beside, lookVars, workVars, turnVars
<1> QED BY <1>2, <1>3

-----------------------------------------------------------------------------
(* A turn begins with what it was asked with, which still stands.          *)
LEMMA TakeTurnKeeps == ASSUME DaemonInv, TakeTurn PROVE DaemonInv'
<1> USE DEF DaemonInv
<1>1. TypeOK'
  BY TailFacts DEF TakeTurn, TypeOK, TypeOfFiles, TypeOfLook, TypeOfWork, TypeOfTurns,
     fileVars, lookVars, workVars
<1>2. QueueInv'
  BY TailFacts DEF TakeTurn, QueueInv, AboutDamage, Fresh, fileVars, lookVars, workVars
<1>3. TurnInv'
  BY TailFacts, NamesApart DEF TakeTurn, QueueInv, TurnInv, Booting, Opening, ComingDown,
     MakingOne, Asked, AboutDamage, Fresh, fileVars, lookVars, workVars
<1>4. AgentInv'
  BY TailFacts DEF TakeTurn, QueueInv, AgentInv, Holding, At, fileVars, lookVars, workVars
<1>5. ConnInv' /\ CallInv'
  BY TailFacts DEF TakeTurn, QueueInv, ConnInv, CallInv, Making, fileVars, lookVars, workVars
<1>6. ShownInv'
  BY DEF TakeTurn, ShownInv, Settled, fileVars, lookVars, workVars
<1> QED BY <1>1, <1>2, <1>3, <1>4, <1>5, <1>6

(* A turn over with nothing changed.                                       *)
LEMMA TurnOver ==
    ASSUME DaemonInv, turn # None, turn.at \in {"begin", "storage", "find", "detach"}, turn.at = "detach" => agent # None /\ ~agent.ended, ~At("boot", "find"), Done,
           UNCHANGED <<fileVars, lookVars, workVars, fetching, closed, queue, count>>
    PROVE  DaemonInv'
<1> USE DEF DaemonInv
<1>1. TypeOK'
  BY DEF Done, TypeOK, TypeOfFiles, TypeOfLook, TypeOfWork, TypeOfTurns, fileVars, lookVars,
     workVars
<1>2. QueueInv' /\ TurnInv'
  BY DEF Done, QueueInv, TurnInv, AboutDamage, Fresh, fileVars, lookVars, workVars
<1>3. AgentInv'
  BY DEF Done, AgentInv, TurnInv, Booting, Stopping, Holding, At, fileVars, lookVars, workVars
<1>4. ConnInv' /\ CallInv'
  BY DEF Done, ConnInv, CallInv, Making, fileVars, lookVars, workVars
<1>5. ShownInv'
  BY DEF Done, ShownInv, Settled, fileVars, lookVars, workVars
<1> QED BY <1>1, <1>2, <1>3, <1>4, <1>5

(* A turn that may not be taken ends where it began.                       *)
LEMMA RefusedKeeps == ASSUME DaemonInv, NEW op, NEW ok, op # "boot", Refused(op, ok) PROVE DaemonInv'
<1>1. turn # None /\ turn.op = op /\ turn.at = "begin"
  BY DEF Refused, At
<1> QED BY <1>1, TurnOver DEF Refused, At

(* Another daemon that goes leaves the storage to whoever asks.            *)
LEMMA TheyLeaveKeeps == ASSUME DaemonInv, TheyLeave PROVE DaemonInv' /\ count' = count
<1> USE DEF DaemonInv
<1>1. TypeOK' /\ count' = count
  BY DEF TheyLeave, TypeOK, TypeOfFiles, TypeOfLook, TypeOfWork, TypeOfTurns, lookVars,
     workVars, turnVars
<1>2. QueueInv'
  BY NamesApart DEF TheyLeave, QueueInv, AboutDamage, Fresh, Daemons, lookVars, workVars,
     turnVars
<1>3. TurnInv'
  BY NamesApart DEF TheyLeave, TurnInv, Booting, Opening, ComingDown, MakingOne, Asked,
     AboutDamage, Fresh, Holding, AgentInv, Daemons, lookVars, workVars, turnVars
<1>4. AgentInv' /\ ConnInv' /\ CallInv'
  BY NamesApart DEF TheyLeave, AgentInv, Holding, At, ConnInv, CallInv, Making, Daemons,
     lookVars, workVars, turnVars
<1>5. ShownInv'
  BY DEF TheyLeave, ShownInv, Settled, lookVars, workVars, turnVars
<1> QED BY <1>1, <1>2, <1>3, <1>4, <1>5

(* The next process begins with nothing of the one before.                 *)
Begun ==
    /\ InitProcess
    /\ file \in Files \cup {None} /\ seed \in BOOLEAN /\ taken \in Daemons \cup {None} /\ taken # "us"
    /\ issued \in Seq(Nat)
    /\ count \in Counts

(* A daemon that has just begun holds nothing.                             *)
LEMMA BegunKeeps == Begun => DaemonInv
<1> SUFFICES ASSUME Begun PROVE DaemonInv
  OBVIOUS
<1> USE DEF Begun, InitProcess
<1>1. /\ queue \in Seq(Turns) /\ Len(queue) = 1
      /\ queue[1].op = "boot" /\ queue[1].at = "begin"
  <2>1. Turn("boot", None) \in Turns /\ Turn("boot", None).op = "boot" /\ Turn("boot", None).at = "begin"
    BY DEF Turn, Turns, Ops, Places
  <2> QED BY <2>1
<1>2. TypeOK
  BY <1>1 DEF TypeOK, TypeOfFiles, TypeOfLook, TypeOfWork, TypeOfTurns, Phases
<1>3. QueueInv
  <2>1. \A i \in 1..Len(queue) : i = 1
    BY <1>1
  <2> QED BY <1>1, <2>1 DEF QueueInv, Fresh
<1>4. TurnInv /\ AgentInv /\ ConnInv /\ CallInv
  BY DEF TurnInv, AgentInv, ConnInv, CallInv, Making
<1>5. ShownInv
  BY NamesApart DEF ShownInv, Settled, Whys
<1> QED BY <1>2, <1>3, <1>4, <1>5 DEF DaemonInv

(* So does the first.                                                      *)
LEMMA DaemonBegins == ASSUME Init PROVE DaemonInv
<1>1. file \in Files \cup {None}
  <2>1. [id |-> 1, ready |-> TRUE, rotten |-> FALSE, restored |-> FALSE, explained |-> TRUE, told |-> FALSE, publics |-> 0] \in Files
    BY DEF Files
  <2> QED BY <2>1 DEF Init
<1>2. count \in Counts /\ issued \in Seq(Nat)
  BY DEF Init, Counts
<1> QED BY <1>1, <1>2, BegunKeeps DEF Begun, Init, Daemons

(* A daemon that dies leaves the files, and what replaces it has begun.    *)
LEMMA DieKeeps == ASSUME DaemonInv, Die PROVE DaemonInv' /\ count'.renewed = count.renewed
<1> USE DEF DaemonInv
<1>1. count' \in Counts /\ count'.renewed = count.renewed
  BY FaultFacts DEF Die
<1>2. /\ file' \in Files \cup {None} /\ seed' \in BOOLEAN /\ taken' \in Daemons \cup {None} /\ taken' # "us" /\ issued' \in Seq(Nat)
  BY NamesApart DEF Die, TypeOK, TypeOfFiles, TypeOfLook, Daemons
<1>3. Begun'
  BY <1>1, <1>2 DEF Die, Begun, InitProcess
<1>4. Begun' => DaemonInv'
  BY BegunKeeps, PTL
<1> QED BY <1>1, <1>3, <1>4
-----------------------------------------------------------------------------
(* The turns of the queue, whole.                                          *)
LEMMA TurnStepKeeps == ASSUME DaemonInv, TurnStep PROVE DaemonInv'
<1>1. CASE \E op \in {"restore", "vacant"} : Refused(op, Vacant)
  BY <1>1, RefusedKeeps
<1>2. CASE Refused("create", Vacant /\ ~closed) \/ Refused("unlock", inspected) \/ Refused("merge", open # None)
  <2>1. \A op, ok : op # "boot" /\ Refused(op, ok) => DaemonInv'
    BY RefusedKeeps
  <2> QED BY <1>2, <2>1
<1> QED
  BY <1>1, <1>2, TakeTurnKeeps, BootForeignKeeps, BootStorageKeeps, BootFindKeeps,
     LookStepKeeps, RunKeeps, ReadyKeeps, ReadyFailsKeeps,
     DetachBeginKeeps, StopEndKeeps, StoppedKeeps, VacantCheckedKeeps, MakeFileKeeps, MakeVaultKeeps, MadeStartKeeps, UnlockKeeps, LockKeeps,
     LockStoppedKeeps, ForgetKeeps, ForgetStoppedKeeps, ExportKeeps, MergeKeeps, MergeDetachedKeeps, MergeStoppedKeeps, GiveUpDamagedKeeps,
     CloseBeginKeeps, CloseStoppedKeeps
  DEF TurnStep

(* A turn makes no call of its own, and only a merge takes a fresh replica *)
(* ID, with no call under way.                                             *)
LEMMA TurnStepAuthor ==
    ASSUME DaemonInv, TurnStep \/ BootUnreadable \/ MakeFails
    PROVE  /\ call' = call
           /\ \/ count'.renewed = count.renewed
              \/ count'.renewed = count.renewed + 1 /\ \A c \in Callers : call[c] = None
<1> USE DEF DaemonInv
<1>1. CASE MergeStopped
  <2>1. agent = None
    BY <1>1 DEF MergeStopped, At, TurnInv, ComingDown
  <2> QED BY <1>1, <2>1, CountFacts DEF MergeStopped, CallInv, workVars
<1>2. CASE Run \/ MadeStart
  BY <1>2, AttachFacts DEF Run, MadeStart, workVars
<1>3. CASE MakeFile \/ MergeDetached
  BY <1>3, CountFacts DEF MakeFile, MergeDetached, workVars
<1>4. CASE ReadyFails \/ MakeFails \/ BootUnreadable
  BY <1>4, FaultFacts DEF ReadyFails, MakeFails, BootUnreadable, workVars
<1>5. CASE TakeTurn \/ BootForeign \/ BootStorage \/ BootFind \/ LookStep \/ Ready \/ DetachBegin \/ StopEnd \/ Stopped
  BY <1>5 DEF TakeTurn, BootForeign, BootStorage, BootFind, LookStep, Ready, DetachBegin,
     StopEnd, Stopped, workVars
<1>6. CASE VacantChecked \/ MakeVault \/ Unlock \/ Lock \/ LockStopped \/ Forget \/ ForgetStopped \/ Export \/ Merge \/ GiveUpDamaged \/ CloseBegin \/ CloseStopped
  BY <1>6 DEF VacantChecked, MakeVault, Unlock, Lock, LockStopped, Forget, ForgetStopped,
     Export, Merge, GiveUpDamaged, CloseBegin, CloseStopped, workVars
<1>7. \A op, ok : Refused(op, ok) => call' = call /\ count' = count
  BY DEF Refused, workVars
<1> QED BY <1>1, <1>2, <1>3, <1>4, <1>5, <1>6, <1>7 DEF TurnStep

-----------------------------------------------------------------------------
(* What a step that asks nothing of the mediator leaves of the links.      *)
LinksRest == AuthorInv /\ LinksInv

(* Steps that leave the links' records, and put no call where links are    *)
(* made, keep what is said of the links.                                   *)
LEMMA LinksFrame ==
    ASSUME Inv, UNCHANGED linkVars, count'.renewed = count.renewed,
           \A c \in Callers : call'[c] = None \/ call'[c] = call[c] \/ call'[c].at \in {"calling", "looking", "minting"}
    PROVE  LinksRest'
<1>1. AuthorInv'
  BY DEF Inv, AuthorInv, author, linkVars
<1>2. ASSUME NEW c \in Callers, NEW kind, NEW at \in (CallPlaces \cup Callers) \ {"calling", "looking", "minting"}, In(c, kind, at)'
      PROVE  In(c, kind, at)
  BY <1>2 DEF In
<1>3. LinksInv'
  <2> SUFFICES ASSUME NEW c \in Callers PROVE LinksInv!(c)'
    BY DEF LinksInv
  <2> QED
    BY <1>2, NamesApart DEF Inv, LinksInv, Ours, Mine, OnWay, Asks, author, Gone, Quiet,
       Publishing, linkVars, CallPlaces
<1> QED BY <1>1, <1>3 DEF LinksRest

(* With a fresh replica ID nothing at the mediator is under this one's.    *)
LEMMA LinksRenewed ==
    ASSUME Inv, UNCHANGED linkVars, call' = call, count'.renewed = count.renewed + 1, \A c \in Callers : call[c] = None
    PROVE  LinksRest'
<1>1. count.renewed \in Nat
  BY CountFacts DEF Inv, DaemonInv
<1>2. /\ \A c \in Callers : link[c] # None => link[c].author \in Nat /\ link[c].author <= count.renewed
      /\ \A c \in Callers : blob[c] # None => blob[c].author \in Nat /\ blob[c].author <= count.renewed
      /\ \A r \in onway : r.author \in Nat /\ r.author <= count.renewed
  BY DEF Inv, AuthorInv, author, LinksTypeOK, Records, Blobs, Requests
<1>3. AuthorInv'
  BY <1>1, <1>2 DEF AuthorInv, author, linkVars
<1>4. \A c \in Callers : ~Ours(c)' /\ ~Mine(c)' /\ \A what : ~OnWay(what, c)'
  BY <1>1, <1>2 DEF Ours, Mine, OnWay, Asks, author, linkVars
<1>5. LinksInv'
  BY <1>4 DEF Inv, LinksInv, Gone, Quiet, Publishing, In, linkVars
<1> QED BY <1>3, <1>5 DEF LinksRest

-----------------------------------------------------------------------------
(* The steps of a publishing, of a revocation and of the mediator.         *)

(* One call that goes on or settles, and nothing else of the daemon.       *)
LEMMA MovedBeside ==
    ASSUME DaemonInv, NEW c \in Callers, KeepRest, call[c] # None, NEW at \in CallPlaces \cup Callers, Moves(c, at) \/ Settle(c)
    PROVE  Beside
<1> USE DEF DaemonInv
<1>1. /\ call' \in [Callers -> Calls \cup {None}]
      /\ \A d \in Callers : call'[d] # None => call[d] # None /\ call'[d].agent = call[d].agent
  BY MovesFacts, SettleFacts DEF Moves
<1> QED BY <1>1 DEF KeepRest, Beside, CallInv, TypeOK, TypeOfTurns, fileVars, lookVars, turnVars

(* To the daemon every step of a link is beside the turns.                 *)
LEMMA LinkStepBeside ==
    ASSUME DaemonInv, LinksTypeOK, NEW c \in Callers, LinkStep(c)
    PROVE  Beside /\ count' = count
<1> USE DEF DaemonInv
<1>1. CASE PublishExport(c)
  <2>1. call' \in [Callers -> Calls \cup {None}] /\ \A d \in Callers : call'[d] # None => call'[d] = call[d]
    BY <1>1, SettleFacts DEF PublishExport
  <2>2. Askable("export", c)
    BY DEF Askable, Ops
  <2> QED BY <1>1, <2>1, <2>2 DEF PublishExport, Beside, CallInv, TypeOK, TypeOfTurns,
     fileVars, lookVars
<1>2. CASE PublishPut(c)
  <2>1. CASE agent # None /\ agent.id = job[c].agent /\ ~agent.ended
    <3>1. [kind |-> "publish", agent |-> agent.id, at |-> "queued"] \in Calls
      BY <2>1, AgentFacts DEF Calls, Kinds, CallPlaces
    <3>2. call' = [call EXCEPT ![c] = [kind |-> "publish", agent |-> agent.id, at |-> "queued"]]
      BY <1>2, <2>1 DEF PublishPut
    <3>3. call' \in [Callers -> Calls \cup {None}] /\ \A d \in Callers : call'[d] # None => agent.id = call'[d].agent
      BY <2>1, <3>1, <3>2 DEF CallInv, TypeOK, TypeOfWork
    <3> QED BY <1>2, <2>1, <3>3 DEF PublishPut, KeepRest, Beside, TypeOK, TypeOfTurns,
       fileVars, lookVars, turnVars
  <2>2. CASE ~(agent # None /\ agent.id = job[c].agent /\ ~agent.ended)
    BY <1>2, <2>2 DEF PublishPut, KeepRest, Beside, CallInv, TypeOK, TypeOfWork, TypeOfTurns,
       fileVars, lookVars, turnVars
  <2> QED BY <2>1, <2>2
<1>3. CASE PutAsked(c) \/ Placed(c)
  <2>1. call[c] # None /\ KeepRest /\ (Moves(c, "putting") \/ Moves(c, "uploading"))
    BY <1>3 DEF PutAsked, Placed, In
  <2> QED BY <2>1, MovedBeside DEF CallPlaces, KeepRest
<1>4. CASE PutRefused(c) \/ Uploaded(c) \/ Unanswered(c)
  <2>1. call[c] # None /\ KeepRest /\ Settle(c)
    BY <1>4 DEF PutRefused, Uploaded, Unanswered, In
  <2> QED BY <2>1, MovedBeside DEF CallPlaces, KeepRest
<1>5. CASE \E h \in Callers : RevokeAsked(c, h) \/ Revoked(c, h)
  <2>1. PICK h \in Callers : RevokeAsked(c, h) \/ Revoked(c, h)
    BY <1>5
  <2>2. call[c] # None /\ KeepRest /\ (Moves(c, h) \/ Settle(c))
    BY <2>1 DEF RevokeAsked, Revoked, In
  <2> QED BY <2>2, MovedBeside DEF KeepRest
<1> QED BY <1>1, <1>2, <1>3, <1>4, <1>5 DEF LinkStep, KeepRest

(* The links under each step of publishing and revoking one.               *)
LEMMA PublishSnapshotLinkLinks == ASSUME Inv, NEW c \in Callers, PublishSnapshotLink(c) PROVE LinksRest'
<1>1. Beside /\ author' = author
  BY BeginBeside DEF Inv, PublishSnapshotLink, author, Kinds, CallPlaces
<1>2. \A d \in Callers \ {c} : call'[d] = call[d]
  BY DEF Inv, DaemonInv, TypeOK, TypeOfWork, PublishSnapshotLink, Begin
<1>3. call'[c].kind = "publish" /\ call'[c].at = "limits" /\ job[c] = None /\ link[c] = None /\ c \notin revoked
  BY DEF Inv, DaemonInv, TypeOK, TypeOfWork, PublishSnapshotLink, Begin
<1>4. UNCHANGED linkVars
  BY DEF PublishSnapshotLink
<1>5. AuthorInv'
  BY <1>1, <1>4 DEF Inv, AuthorInv, linkVars
<1>6. LinksInv'
  <2> SUFFICES ASSUME NEW d \in Callers PROVE LinksInv!(d)'
    BY DEF LinksInv
  <2>1. CASE d = c
    BY <1>1, <1>3, <1>4, <2>1 DEF Inv, LinksInv, Ours, Mine, OnWay, Asks, Gone, Quiet,
       Publishing, In, linkVars
  <2>2. CASE d # c
    BY <1>1, <1>2, <1>4, <2>2 DEF Inv, LinksInv, Ours, Mine, OnWay, Asks, Gone, Quiet,
       Publishing, In, linkVars
  <2> QED BY <2>1, <2>2
<1> QED BY <1>5, <1>6 DEF LinksRest

LEMMA RevokeSnapshotLinkLinks == ASSUME Inv, NEW c \in Callers, RevokeSnapshotLink(c) PROVE LinksRest'
<1>1. Beside /\ author' = author
  BY BeginBeside DEF Inv, RevokeSnapshotLink, author, Kinds, CallPlaces
<1>2. \A d \in Callers \ {c} : call'[d] = call[d]
  BY DEF Inv, DaemonInv, TypeOK, TypeOfWork, RevokeSnapshotLink, Begin
<1>3. call'[c].kind = "revoke" /\ call'[c].at = "queued" /\ "queued" \notin Callers
  BY NamesApart DEF Inv, DaemonInv, TypeOK, TypeOfWork, RevokeSnapshotLink, Begin, CallPlaces
<1>4. UNCHANGED linkVars /\ call[c] = None
  BY DEF RevokeSnapshotLink, Begin
<1>5. AuthorInv'
  BY <1>1, <1>4 DEF Inv, AuthorInv, linkVars
<1>6. LinksInv'
  <2> SUFFICES ASSUME NEW d \in Callers PROVE LinksInv!(d)'
    BY DEF LinksInv
  <2>1. CASE d = c
    BY <1>1, <1>3, <1>4, <2>1 DEF Inv, LinksInv, Ours, Mine, OnWay, Asks, Gone, Quiet,
       Publishing, In, linkVars
  <2>2. CASE d # c
    BY <1>1, <1>2, <1>4, <2>2 DEF Inv, LinksInv, Ours, Mine, OnWay, Asks, Gone, Quiet,
       Publishing, In, linkVars
  <2> QED BY <2>1, <2>2
<1> QED BY <1>5, <1>6 DEF LinksRest

LEMMA PublishExportLinks == ASSUME Inv, NEW c \in Callers, PublishExport(c) PROVE LinksRest' /\ LinksTypeOK'
<1>1. Beside /\ count' = count
  BY LinkStepBeside DEF Inv, LinkStep
<1>2. call'[c] = None /\ (\A d \in Callers \ {c} : call'[d] = call[d]) /\ call[c].agent \in Nat
  BY SettleFacts DEF Inv, DaemonInv, TypeOK, TypeOfWork, PublishExport, In, Calls
<1>3. job' = job \/ job' = [job EXCEPT ![c] = [agent |-> call[c].agent, at |-> "export"]]
  BY DEF PublishExport
<1>4. job' \in [Callers -> Jobs \cup {None}] /\ \A d \in Callers \ {c} : job'[d] = job[d]
  <2>1. [agent |-> call[c].agent, at |-> "export"] \in Jobs
    BY <1>2 DEF Jobs
  <2> QED BY <1>3, <2>1 DEF Inv, LinksTypeOK
<1>5. UNCHANGED <<link, blob, putting, onway, revoked>> /\ link[c] = None /\ c \notin revoked
  BY DEF PublishExport, Inv, LinksInv, Publishing
<1>6. LinksTypeOK' /\ AuthorInv'
  BY <1>1, <1>4, <1>5, BesideKeeps DEF Inv, DaemonInv, LinksTypeOK, AuthorInv, author
<1>7. LinksInv'
  <2> SUFFICES ASSUME NEW d \in Callers PROVE LinksInv!(d)'
    BY DEF LinksInv
  <2>1. CASE d = c
    BY <1>1, <1>2, <1>5, <2>1 DEF Inv, LinksInv, Ours, Mine, OnWay, Asks, author, Gone, Quiet,
       Publishing, In
  <2>2. CASE d # c
    BY <1>1, <1>2, <1>4, <1>5, <2>2 DEF Inv, LinksInv, Ours, Mine, OnWay, Asks, author, Gone,
       Quiet, Publishing, In
  <2> QED BY <2>1, <2>2
<1> QED BY <1>6, <1>7 DEF LinksRest

LEMMA PublishExportedKeeps == ASSUME Inv, PublishExported PROVE DaemonInv' /\ LinksTypeOK' /\ LinksRest'
<1>1. turn.arg \in Callers /\ turn # None /\ turn.op = "export" /\ turn.at = "begin"
  BY DEF PublishExported, At, Inv, DaemonInv, TurnInv, Asked
<1>2. DaemonInv' /\ call' = call /\ count' = count
  BY <1>1, TurnOver DEF PublishExported, At, Inv, workVars
<1>3. job' \in [Callers -> Jobs \cup {None}] /\ \A d \in Callers : job'[d] # None => job[d] # None
  <2>1. job[turn.arg] # None => [job[turn.arg] EXCEPT !.at = "sealed"] \in Jobs
    BY <1>1 DEF Inv, LinksTypeOK, Jobs
  <2>2. job' = [job EXCEPT ![turn.arg] = IF job[turn.arg] = None \/ open = None THEN None ELSE [job[turn.arg] EXCEPT !.at = "sealed"]]
    BY DEF PublishExported
  <2> QED BY <1>1, <2>1, <2>2 DEF Inv, LinksTypeOK
<1>4. UNCHANGED <<link, blob, putting, onway, revoked>>
  BY DEF PublishExported
<1>5. LinksTypeOK' /\ AuthorInv'
  BY <1>2, <1>3, <1>4 DEF Inv, DaemonInv, LinksTypeOK, AuthorInv, author
<1>6. LinksInv'
  BY <1>2, <1>3, <1>4 DEF Inv, LinksInv, Ours, Mine, OnWay, Asks, author, Gone, Quiet,
     Publishing, In
<1> QED BY <1>2, <1>5, <1>6 DEF LinksRest

LEMMA PublishPutLinks == ASSUME Inv, NEW c \in Callers, PublishPut(c) PROVE LinksRest' /\ LinksTypeOK'
<1>1. Beside /\ count' = count
  BY LinkStepBeside DEF Inv, LinkStep
<1>2. (\A d \in Callers \ {c} : call'[d] = call[d]) /\ (call'[c] = None \/ (call'[c].kind = "publish" /\ call'[c].at = "queued"))
  BY DEF Inv, DaemonInv, TypeOK, TypeOfWork, PublishPut
<1>3. job' \in [Callers -> Jobs \cup {None}] /\ job'[c] = None /\ \A d \in Callers \ {c} : job'[d] = job[d]
  BY DEF Inv, LinksTypeOK, PublishPut
<1>4. UNCHANGED <<link, blob, putting, onway, revoked>> /\ link[c] = None /\ c \notin revoked
  BY DEF PublishPut, Inv, LinksInv, Publishing
<1>5. LinksTypeOK' /\ AuthorInv'
  BY <1>1, <1>3, <1>4, BesideKeeps DEF Inv, DaemonInv, LinksTypeOK, AuthorInv, author
<1>6. LinksInv'
  <2> SUFFICES ASSUME NEW d \in Callers PROVE LinksInv!(d)'
    BY DEF LinksInv
  <2>1. CASE d = c
    BY <1>1, <1>2, <1>3, <1>4, <2>1 DEF Inv, LinksInv, Ours, Mine, OnWay, Asks, author, Gone,
       Quiet, Publishing, In
  <2>2. CASE d # c
    BY <1>1, <1>2, <1>3, <1>4, <2>2 DEF Inv, LinksInv, Ours, Mine, OnWay, Asks, author, Gone,
       Quiet, Publishing, In
  <2> QED BY <2>1, <2>2
<1> QED BY <1>5, <1>6 DEF LinksRest

(* A request of one snapshot is none of another.                           *)
LEMMA AsksFacts ==
    ASSUME TypeOK
    PROVE  /\ \A what \in {"put", "upload", "delete"}, c \in Callers : Asks(what, c) \in Requests
           /\ \A v, w, c, d : Asks(v, c) = Asks(w, d) <=> v = w /\ c = d
           /\ \A v, c : Asks(v, c).what = v /\ Asks(v, c).of = c /\ Asks(v, c).author = author
<1>1. author \in Nat
  BY CountFacts DEF author
<1> QED BY <1>1 DEF Asks, Requests

LEMMA PutAskedLinks == ASSUME Inv, NEW c \in Callers, PutAsked(c) PROVE LinksRest' /\ LinksTypeOK'
<1>1. Beside /\ count' = count /\ author' = author /\ author \in Nat
  BY LinkStepBeside, CountFacts DEF Inv, LinkStep, DaemonInv, author
<1>2. (\A d \in Callers \ {c} : call'[d] = call[d]) /\ call'[c].kind = "publish" /\ call'[c].at = "putting" /\ call'[c] # None
  BY MovesFacts DEF Inv, DaemonInv, PutAsked, In, Moves, CallPlaces
<1>3. link' = [Pruned EXCEPT ![c] = [stage |-> "asked", author |-> author]]
  BY DEF PutAsked
<1>4. [stage |-> "asked", author |-> author] \in Records
  BY <1>1 DEF Records
<1>5. Pruned \in [Callers -> Records \cup {None}] /\ \A d \in Callers : Pruned[d] # link[d] => Pruned[d] = None /\ link[d].author # author
  BY DEF Pruned, Inv, LinksTypeOK
<1>6. /\ link' \in [Callers -> Records \cup {None}]
      /\ link'[c] # None /\ link'[c].author = author
      /\ \A d \in Callers \ {c} : link'[d] # link[d] => link'[d] = None /\ link[d].author # author
  BY <1>3, <1>4, <1>5, LinkNamesApart
<1>7. onway' = onway \cup {Asks("put", c)} /\ UNCHANGED <<job, blob, revoked>> /\ putting = None /\ putting' = c
  BY DEF PutAsked
<1>8. link[c] = None /\ c \notin revoked /\ job[c] = None /\ Gone(c)
  BY DEF PutAsked, Inv, LinksInv, Publishing, Ours
<1>9. LinksTypeOK'
  BY <1>1, <1>6, <1>7, AsksFacts, BesideKeeps DEF Inv, DaemonInv, LinksTypeOK
<1>10. AuthorInv'
  <2>1. Asks("put", c).author = author
    BY DEF Asks
  <2> QED BY <1>1, <1>6, <1>7, <2>1 DEF Inv, AuthorInv
<1>11. \A what, d : OnWay(what, d)' <=> OnWay(what, d) \/ (what = "put" /\ d = c)
  BY <1>1, <1>7, AsksFacts DEF OnWay, Inv, DaemonInv, Asks
<1>12. LinksInv'
  <2> SUFFICES ASSUME NEW d \in Callers PROVE LinksInv!(d)'
    BY DEF LinksInv
  <2>1. CASE d = c
    BY <1>1, <1>2, <1>6, <1>7, <1>8, <1>11, <2>1 DEF Ours, Mine, Gone, Quiet, Publishing, In
  <2>2. CASE d # c
    BY <1>1, <1>2, <1>6, <1>7, <1>11, <2>2, NamesApart DEF Inv, LinksInv, Ours, Mine, Gone,
       Quiet, Publishing, In
  <2> QED BY <2>1, <2>2
<1> QED BY <1>9, <1>10, <1>12 DEF LinksRest

LEMMA PlacedLinks == ASSUME Inv, NEW c \in Callers, Placed(c) PROVE LinksRest' /\ LinksTypeOK'
<1>1. Beside /\ count' = count /\ author' = author /\ author \in Nat
  BY LinkStepBeside, CountFacts DEF Inv, LinkStep, DaemonInv, author
<1>2. (\A d \in Callers \ {c} : call'[d] = call[d]) /\ call'[c].kind = "publish" /\ call'[c].at = "uploading" /\ call'[c] # None
  BY MovesFacts DEF Inv, DaemonInv, Placed, In, Moves, CallPlaces
<1>3. [stage |-> "placed", author |-> author] \in Records
  BY <1>1 DEF Records
<1>4. /\ link' \in [Callers -> Records \cup {None}]
      /\ link'[c] # None /\ link'[c].author = author
      /\ \A d \in Callers \ {c} : link'[d] = link[d]
  BY <1>3, LinkNamesApart DEF Placed, Inv, LinksTypeOK
<1>5. onway' = onway \cup {Asks("upload", c)} /\ UNCHANGED <<job, blob, putting, revoked>> /\ putting = c /\ ~OnWay("put", c) /\ job[c] = None /\ In(c, "publish", "putting")
  BY DEF Placed, Inv, LinksInv, OnWay
<1>6. LinksTypeOK'
  BY <1>1, <1>4, <1>5, AsksFacts, BesideKeeps DEF Inv, DaemonInv, LinksTypeOK
<1>7. AuthorInv'
  <2>1. Asks("upload", c).author = author
    BY DEF Asks
  <2> QED BY <1>1, <1>4, <1>5, <2>1 DEF Inv, AuthorInv
<1>8. \A what, d : OnWay(what, d)' <=> OnWay(what, d) \/ (what = "upload" /\ d = c)
  BY <1>1, <1>5, AsksFacts DEF OnWay, Inv, DaemonInv, Asks
<1>9. LinksInv'
  <2> SUFFICES ASSUME NEW d \in Callers PROVE LinksInv!(d)'
    BY DEF LinksInv
  <2>1. CASE d = c
    BY <1>1, <1>2, <1>4, <1>5, <1>8, <2>1 DEF Ours, Mine, Gone, Quiet, Publishing, In
  <2>2. CASE d # c
    BY <1>1, <1>2, <1>4, <1>5, <1>8, <2>2, NamesApart DEF Inv, LinksInv, Ours, Mine, Gone,
       Quiet, Publishing, In
  <2> QED BY <2>1, <2>2
<1> QED BY <1>6, <1>7, <1>9 DEF LinksRest

LEMMA PutRefusedLinks == ASSUME Inv, NEW c \in Callers, PutRefused(c) PROVE LinksRest' /\ LinksTypeOK'
<1>1. Beside /\ count' = count /\ author' = author
  BY LinkStepBeside DEF Inv, LinkStep, author
<1>2. (\A d \in Callers \ {c} : call'[d] = call[d]) /\ call'[c] = None
  BY SettleFacts DEF Inv, DaemonInv, PutRefused
<1>3. link' \in [Callers -> Records \cup {None}] /\ link'[c] = None /\ \A d \in Callers \ {c} : link'[d] = link[d]
  BY DEF PutRefused, Inv, LinksTypeOK
<1>4. /\ onway' = onway \ {Asks("put", c)} /\ UNCHANGED <<job, blob, revoked>> /\ putting = c /\ putting' = None
      /\ OnWay("put", c) /\ ~Mine(c) /\ ~OnWay("upload", c) /\ job[c] = None /\ In(c, "publish", "putting")
  BY DEF PutRefused, Inv, LinksInv, OnWay
<1>5. LinksTypeOK' /\ AuthorInv'
  BY <1>1, <1>3, <1>4, BesideKeeps DEF Inv, DaemonInv, LinksTypeOK, AuthorInv
<1>6. \A what, d : OnWay(what, d)' <=> OnWay(what, d) /\ ~(what = "put" /\ d = c)
  BY <1>1, <1>4, AsksFacts DEF OnWay, Inv, DaemonInv, Asks
<1>7. LinksInv'
  <2> SUFFICES ASSUME NEW d \in Callers PROVE LinksInv!(d)'
    BY DEF LinksInv
  <2>1. CASE d = c
    BY <1>1, <1>2, <1>3, <1>4, <1>6, <2>1 DEF Ours, Mine, Gone, Quiet, Publishing, In
  <2>2. CASE d # c
    BY <1>1, <1>2, <1>3, <1>4, <1>6, <2>2, NamesApart DEF Inv, LinksInv, Ours, Mine, Gone,
       Quiet, Publishing, In
  <2> QED BY <2>1, <2>2
<1> QED BY <1>5, <1>7 DEF LinksRest

LEMMA UploadedLinks == ASSUME Inv, NEW c \in Callers, Uploaded(c) PROVE LinksRest' /\ LinksTypeOK'
<1>1. Beside /\ count' = count /\ author' = author
  BY LinkStepBeside DEF Inv, LinkStep, author
<1>2. (\A d \in Callers \ {c} : call'[d] = call[d]) /\ call'[c] = None
  BY SettleFacts DEF Inv, DaemonInv, Uploaded
<1>3. Ours(c) /\ putting = c /\ job[c] = None
  BY DEF Uploaded, Inv, LinksInv
<1>4. [link[c] EXCEPT !.stage = "uploaded"] \in Records /\ [link[c] EXCEPT !.stage = "uploaded"].author = link[c].author
  BY <1>3 DEF Ours, Inv, LinksTypeOK, Records
<1>5. link' = [link EXCEPT ![c] = [link[c] EXCEPT !.stage = "uploaded"]]
  BY DEF Uploaded
<1>6. link' \in [Callers -> Records \cup {None}] /\ link'[c] # None /\ link'[c].author = link[c].author /\ \A d \in Callers \ {c} : link'[d] = link[d]
  BY <1>4, <1>5, LinkNamesApart DEF Inv, LinksTypeOK
<1>7. UNCHANGED <<job, blob, onway, revoked>> /\ putting' = None /\ In(c, "publish", "uploading")
  BY DEF Uploaded
<1>8. LinksTypeOK' /\ AuthorInv'
  BY <1>1, <1>3, <1>6, <1>7, BesideKeeps DEF Inv, DaemonInv, LinksTypeOK, AuthorInv, Ours
<1>9. LinksInv'
  <2> SUFFICES ASSUME NEW d \in Callers PROVE LinksInv!(d)'
    BY DEF LinksInv
  <2>1. CASE d = c
    BY <1>1, <1>2, <1>3, <1>6, <1>7, <2>1 DEF Inv, LinksInv, Ours, Mine, OnWay, Asks, Gone,
       Quiet, Publishing, In
  <2>2. CASE d # c
    BY <1>1, <1>2, <1>3, <1>6, <1>7, <2>2, NamesApart DEF Inv, LinksInv, Ours, Mine, OnWay,
       Asks, Gone, Quiet, Publishing, In
  <2> QED BY <2>1, <2>2
<1> QED BY <1>8, <1>9 DEF LinksRest

LEMMA UnansweredLinks == ASSUME Inv, NEW c \in Callers, Unanswered(c) PROVE LinksRest' /\ LinksTypeOK'
<1>1. Beside /\ count' = count /\ author' = author
  BY LinkStepBeside DEF Inv, LinkStep, author
<1>2. (\A d \in Callers \ {c} : call'[d] = call[d]) /\ call'[c] = None
  BY SettleFacts DEF Inv, DaemonInv, Unanswered
<1>3. putting = c /\ putting' = None /\ UNCHANGED <<job, link, blob, onway, revoked>>
  BY DEF Unanswered, Inv, LinksInv
<1>4. LinksTypeOK' /\ AuthorInv'
  BY <1>1, <1>3, BesideKeeps DEF Inv, DaemonInv, LinksTypeOK, AuthorInv
<1>5. LinksInv'
  <2> SUFFICES ASSUME NEW d \in Callers PROVE LinksInv!(d)'
    BY DEF LinksInv
  <2>1. CASE d = c
    BY <1>1, <1>2, <1>3, <2>1 DEF Inv, LinksInv, Ours, Mine, OnWay, Asks, Gone, Quiet,
       Publishing, In
  <2>2. CASE d # c
    BY <1>1, <1>2, <1>3, <2>2, NamesApart DEF Inv, LinksInv, Ours, Mine, OnWay, Asks, Gone,
       Quiet, Publishing, In
  <2> QED BY <2>1, <2>2
<1> QED BY <1>4, <1>5 DEF LinksRest

LEMMA RevokeAskedLinks == ASSUME Inv, NEW c \in Callers, NEW h \in Callers, RevokeAsked(c, h) PROVE LinksRest' /\ LinksTypeOK'
<1>1. Beside /\ count' = count /\ author' = author
  BY LinkStepBeside DEF Inv, LinkStep, author
<1>2. UNCHANGED <<job, link, blob, revoked>> /\ putting = None /\ In(c, "revoke", "queued")
  BY DEF RevokeAsked
<1>3. CASE ~Ours(h)
  <2>1. UNCHANGED linkVars /\ Settle(c)
    BY <1>2, <1>3 DEF RevokeAsked, Ours, linkVars
  <2>2. \A d \in Callers : call'[d] = None \/ call'[d] = call[d]
    BY <2>1, SettleFacts DEF Inv, DaemonInv
  <2>3. LinksTypeOK'
    BY <1>1, <2>1, BesideKeeps DEF Inv, DaemonInv, LinksTypeOK, linkVars
  <2> QED BY <1>1, <2>1, <2>2, <2>3, LinksFrame
<1>4. CASE Ours(h)
  <2>1. onway' = onway \cup {Asks("delete", h)} /\ putting' = c /\ Moves(c, h)
    BY <1>4 DEF RevokeAsked, Ours
  <2>2. (\A d \in Callers \ {c} : call'[d] = call[d]) /\ call'[c].kind = "revoke" /\ call'[c].at = h /\ call'[c] # None
    BY <1>2, <2>1, MovesFacts DEF Inv, DaemonInv, In, Moves
  <2>3. LinksTypeOK'
    BY <1>1, <1>2, <2>1, AsksFacts, BesideKeeps DEF Inv, DaemonInv, LinksTypeOK
  <2>4. AuthorInv'
    <3>1. Asks("delete", h).author = author /\ author <= author
      BY CountFacts DEF Asks, author, Inv, DaemonInv
    <3> QED BY <1>1, <1>2, <2>1, <3>1 DEF Inv, AuthorInv
  <2>5. \A what, d : OnWay(what, d)' <=> OnWay(what, d) \/ (what = "delete" /\ d = h)
    BY <1>1, <2>1, AsksFacts DEF OnWay, Inv, DaemonInv, Asks
  <2>6. LinksInv'
    <3> SUFFICES ASSUME NEW d \in Callers PROVE LinksInv!(d)'
      BY DEF LinksInv
    <3>1. CASE d = c
      BY <1>1, <1>2, <1>4, <2>1, <2>2, <2>5, <3>1 DEF Inv, LinksInv, Ours, Mine, Gone, Quiet,
         Publishing, In
    <3>2. CASE d # c
      BY <1>1, <1>2, <2>1, <2>2, <2>5, <3>2, NamesApart DEF Inv, LinksInv, Ours, Mine, Gone,
         Quiet, Publishing, In
    <3> QED BY <3>1, <3>2
  <2> QED BY <2>3, <2>4, <2>6 DEF LinksRest
<1> QED BY <1>3, <1>4

LEMMA RevokedLinks == ASSUME Inv, NEW c \in Callers, NEW h \in Callers, Revoked(c, h) PROVE LinksRest' /\ LinksTypeOK'
<1>1. Beside /\ count' = count /\ author' = author
  BY LinkStepBeside DEF Inv, LinkStep, author
<1>2. (\A d \in Callers \ {c} : call'[d] = call[d]) /\ call'[c] = None
  BY SettleFacts DEF Inv, DaemonInv, Revoked
<1>3. Ours(h) /\ Quiet(h) /\ putting = c /\ putting' = None /\ UNCHANGED <<job, blob, onway>> /\ revoked' = revoked \cup {h} /\ In(c, "revoke", h)
  BY DEF Revoked, Inv, LinksInv, OnWay
<1>4. link' \in [Callers -> Records \cup {None}] /\ link'[h] = None /\ \A d \in Callers \ {h} : link'[d] = link[d]
  BY DEF Revoked, Inv, LinksTypeOK
<1>5. LinksTypeOK' /\ AuthorInv'
  BY <1>1, <1>3, <1>4, BesideKeeps DEF Inv, DaemonInv, LinksTypeOK, AuthorInv
<1>6. ~Publishing(h) /\ ~In(h, "publish", "putting") /\ ~In(h, "publish", "uploading")
  BY <1>3 DEF Inv, LinksInv, Ours, In
<1>7. LinksInv'
  <2> SUFFICES ASSUME NEW d \in Callers PROVE LinksInv!(d)'
    BY DEF LinksInv
  <2>1. CASE d = h
    BY <1>1, <1>2, <1>3, <1>4, <1>6, <2>1, NamesApart DEF Inv, LinksInv, Ours, Mine, OnWay,
       Asks, Gone, Quiet, Publishing, In
  <2>2. CASE d # h
    BY <1>1, <1>2, <1>3, <1>4, <2>2, NamesApart DEF Inv, LinksInv, Ours, Mine, OnWay, Asks,
       Gone, Quiet, Publishing, In
  <2> QED BY <2>1, <2>2
<1> QED BY <1>5, <1>7 DEF LinksRest

(* The mediator carries a request out for the author it names, on the way  *)
(* or long after it was given up; one of a former author touches nothing   *)
(* of this one.                                                            *)
LEMMA MediatorLinks == ASSUME Inv, NEW r \in onway, Mediator(r) PROVE LinksRest' /\ LinksTypeOK' /\ DaemonInv'
<1> DEFINE d == r.of
           mine == r.author = author
<1>1. UNCHANGED vars /\ call' = call /\ count' = count /\ author' = author /\ UNCHANGED <<job, link, putting, revoked>>
  BY DEF Mediator, vars, author
<1>2. r.what \in {"put", "upload", "delete"} /\ d \in Callers /\ r.author \in Nat /\ r.author <= author /\ (mine => r = Asks(r.what, d))
  BY DEF Inv, LinksTypeOK, Requests, AuthorInv, Asks
<1>3. onway' = onway \ {r} /\ \A e \in Callers \ {d} : blob'[e] = blob[e]
  BY <1>2 DEF Mediator, Inv, LinksTypeOK
<1>4. /\ r.what = "put" => blob'[d] = [stage |-> "granted", author |-> r.author]
      /\ r.what = "upload" => blob'[d] = IF blob[d] # None /\ blob[d].author = r.author THEN [blob[d] EXCEPT !.stage = "uploaded"] ELSE blob[d]
      /\ r.what = "delete" => blob'[d] = IF blob[d] # None /\ blob[d].author = r.author THEN None ELSE blob[d]
      /\ blob' = [blob EXCEPT ![d] = blob'[d]]
  BY <1>2 DEF Mediator, Inv, LinksTypeOK
<1>5. [stage |-> "granted", author |-> r.author] \in Blobs
  BY <1>2 DEF Blobs
<1>6. blob[d] # None => [blob[d] EXCEPT !.stage = "uploaded"] \in Blobs /\ [blob[d] EXCEPT !.stage = "uploaded"].author = blob[d].author
  BY <1>2 DEF Inv, LinksTypeOK, Blobs
<1>7. blob'[d] \in Blobs \cup {None} /\ (blob'[d] # None => blob'[d].author = r.author \/ (blob[d] # None /\ blob'[d].author = blob[d].author))
  <2>1. blob[d] \in Blobs \cup {None}
    BY <1>2 DEF Inv, LinksTypeOK
  <2>2. CASE r.what = "put"
    BY <1>4, <1>5, <2>2
  <2>3. CASE r.what = "upload"
    BY <1>4, <1>6, <2>1, <2>3
  <2>4. CASE r.what = "delete"
    BY <1>4, <2>1, <2>4
  <2> QED BY <1>2, <2>2, <2>3, <2>4
<1>8. DaemonInv'
  BY <1>1 DEF Inv, DaemonInv, TypeOK, TypeOfFiles, TypeOfLook, TypeOfWork, TypeOfTurns,
     QueueInv, AboutDamage, Fresh, TurnInv, Booting, Opening, ComingDown, MakingOne, Asked,
     Holding, AgentInv, At, ConnInv, Making, CallInv, ShownInv, Settled, vars
<1>9. LinksTypeOK'
  BY <1>1, <1>3, <1>4, <1>7, <1>8 DEF Inv, DaemonInv, LinksTypeOK
<1>10. AuthorInv'
  BY <1>1, <1>2, <1>3, <1>7 DEF Inv, AuthorInv
<1>11. \A what, e : OnWay(what, e)' <=> OnWay(what, e) /\ ~(mine /\ what = r.what /\ e = d)
  BY <1>1, <1>2, <1>3, AsksFacts DEF OnWay, Inv, DaemonInv, Asks
<1>12. mine => OnWay(r.what, d)
  BY <1>2 DEF OnWay
<1>13. /\ ~mine => (Mine(d)' => Mine(d) /\ blob'[d] = blob[d])
       /\ mine /\ r.what = "put" => blob'[d].stage = "granted"
       /\ mine /\ r.what = "upload" => (Mine(d)' <=> Mine(d))
       /\ mine /\ r.what = "delete" => ~Mine(d)'
  <2>1. CASE r.what = "put"
    BY <1>1, <1>4, <2>1 DEF Mine
  <2>2. CASE r.what = "upload"
    BY <1>1, <1>4, <1>6, <2>2, LinkNamesApart DEF Mine
  <2>3. CASE r.what = "delete"
    BY <1>1, <1>4, <2>3 DEF Mine
  <2> QED BY <1>2, <2>1, <2>2, <2>3
<1>14. LinksInv'
  <2> SUFFICES ASSUME NEW e \in Callers PROVE LinksInv!(e)'
    BY DEF LinksInv
  <2>1. Ours(e)' = Ours(e) /\ Publishing(e)' = Publishing(e) /\ \A kind, at : In(e, kind, at)' = In(e, kind, at)
    BY <1>1 DEF Ours, Publishing, In
  <2>2. \A h \in Callers : h # d => (Mine(h)' <=> Mine(h)) /\ (Quiet(h) => Quiet(h)') /\ (Gone(h) => Gone(h)')
    BY <1>1, <1>3, <1>11 DEF Mine, Quiet, Gone
  <2>3. Quiet(d) /\ (OnWay("upload", d) => ~OnWay("put", d)) => Quiet(d)'
    BY <1>2, <1>11, <1>12, <1>13 DEF Quiet
  <2>4. Gone(d) => Gone(d)'
    BY <1>2, <1>11, <1>12, <1>13 DEF Gone
  <2>5. mine /\ r.what = "delete" => Quiet(d)'
    BY <1>13 DEF Quiet
  <2>6. In(e, "publish", "putting") => ~OnWay("upload", e)' /\ (OnWay("put", e)' => ~Mine(e)')
    <3>1. In(e, "publish", "putting") => ~OnWay("upload", e) /\ (OnWay("put", e) => ~Mine(e))
      BY DEF Inv, LinksInv
    <3> QED BY <1>2, <1>11, <1>12, <1>13, <2>2, <3>1
  <2>7. \A h \in Callers : In(e, "revoke", h) => Ours(h)' /\ (OnWay("delete", h)' \/ Quiet(h)')
    <3> SUFFICES ASSUME NEW h \in Callers, In(e, "revoke", h) PROVE Ours(h)' /\ (OnWay("delete", h)' \/ Quiet(h)')
      OBVIOUS
    <3>1. Ours(h) /\ (OnWay("delete", h) \/ Quiet(h)) /\ (OnWay("upload", h) => ~OnWay("put", h))
      BY DEF Inv, LinksInv
    <3>2. Ours(h)'
      BY <1>1, <3>1 DEF Ours
    <3> QED BY <1>11, <2>2, <2>3, <2>5, <3>1, <3>2
  <2> QED BY <1>1, <1>11, <2>1, <2>2, <2>3, <2>4, <2>6, <2>7 DEF Inv, LinksInv
<1> QED BY <1>8, <1>9, <1>10, <1>14 DEF LinksRest

(* At first there is no link.                                              *)
LEMMA LinksBegin == ASSUME LinksInit PROVE Inv
<1>1. DaemonInv
  BY DaemonBegins DEF LinksInit
<1>2. LinksTypeOK /\ AuthorInv
  BY <1>1 DEF LinksInit, LinksTypeOK, AuthorInv, DaemonInv
<1>3. LinksInv
  BY DEF LinksInit, Init, InitProcess, LinksInv, Ours, Mine, OnWay, Gone, Quiet, Publishing, In
<1> QED BY <1>1, <1>2, <1>3 DEF Inv

(* A death of the daemon loses the jobs and calls; what was put, recorded  *)
(* and sent stays.                                                         *)
LEMMA LinksDie ==
    ASSUME Inv, Die, job' = [c \in Callers |-> None], putting' = None, UNCHANGED <<link, blob, onway, revoked>>
    PROVE  Inv'
<1>1. DaemonInv' /\ count'.renewed = count.renewed /\ author' = author
  BY DieKeeps DEF Inv, author
<1>2. LinksTypeOK' /\ AuthorInv'
  BY <1>1 DEF Inv, DaemonInv, LinksTypeOK, AuthorInv
<1>3. \A c \in Callers : call'[c] = None
  BY DEF Die
<1>4. LinksInv'
  BY <1>1, <1>3 DEF Inv, LinksInv, Ours, Mine, OnWay, Asks, Gone, Quiet, Publishing, In
<1> QED BY <1>1, <1>2, <1>4 DEF Inv

(* The steps of the daemon that are none of a publishing's.                *)
LEMMA StepsKeep == ASSUME Inv, Steps, UNCHANGED linkVars PROVE Inv'
<1>1. ASSUME DaemonInv', LinksRest' PROVE Inv'
  BY <1>1 DEF Inv, LinksRest, DaemonInv, LinksTypeOK, linkVars
<1>2. CASE TurnStep \/ BootUnreadable \/ MakeFails
  <2>1. DaemonInv'
    BY <1>2, TurnStepKeeps, BootUnreadableKeeps, MakeFailsKeeps DEF Inv
  <2>2. LinksRest'
    BY <1>2, TurnStepAuthor, LinksFrame, LinksRenewed DEF Inv
  <2> QED BY <1>1, <2>1, <2>2
<1>3. ASSUME Beside, count'.renewed = count.renewed, \A c \in Callers : call'[c] = None \/ call'[c] = call[c] \/ call'[c].at \in {"calling", "looking", "minting"}
      PROVE  Inv'
  BY <1>1, <1>3, BesideKeeps, LinksFrame DEF Inv
<1>4. CASE Views \/ RestoreFromLinkRead \/ CloseAsked \/ MeetDamage
  <2>1. call' = call
    BY <1>4 DEF Views, Ask, RestoreFromLinkRead, CloseAsked, MeetDamage, workVars
  <2> QED BY <1>3, <1>4, <2>1, AskBeside DEF Inv
<1>5. CASE ExplainedRestore \/ Rot
  <2>1. call' = call
    BY <1>5 DEF ExplainedRestore, Rot, workVars
  <2> QED BY <1>3, <1>5, <2>1, FileBeside DEF Inv
<1>6. CASE TheyLeave
  <2>1. DaemonInv' /\ call' = call /\ count' = count
    BY <1>6, TheyLeaveKeeps DEF Inv, TheyLeave, workVars
  <2> QED BY <1>1, <2>1, LinksFrame
<1>7. ASSUME NEW c \in Callers, Send(c) \/ Request(c) \/ PublicDid(c) \/ CallStep(c) PROVE Inv'
  <2>1. CASE Send(c) \/ Request(c) \/ PublicDid(c)
    <3>1. PICK kind \in Kinds, at \in {"calling", "looking", "minting"} : Begin(c, kind, at)
      BY <2>1 DEF Send, Request, PublicDid, Kinds
    <3>2. Beside /\ count'.renewed = count.renewed
      BY <3>1, BeginBeside DEF Inv, CallPlaces
    <3>3. \A d \in Callers : call'[d] = call[d] \/ call'[d].at \in {"calling", "looking", "minting"}
      BY <3>1 DEF Begin, Inv, DaemonInv, TypeOK, TypeOfWork
    <3> QED BY <1>3, <3>2, <3>3
  <2>2. CASE CallStep(c)
    <3>1. Beside /\ count' = count
      BY <2>2, CallStepBeside DEF Inv
    <3>2. CASE PublicDidLook(c)
      <4>1. call' = [call EXCEPT ![c].at = IF file.publics > 0 THEN "calling" ELSE "minting"] /\ call[c] # None
        BY <3>2 DEF PublicDidLook
      <4>2. \A d \in Callers : call'[d] = call[d] \/ call'[d].at \in {"calling", "minting"}
        BY <4>1, MovesFacts DEF Inv, DaemonInv, CallPlaces
      <4> QED BY <1>3, <3>1, <4>2
    <3>3. CASE PublicDidDisclose(c) \/ CallEnds(c)
      <4>1. Settle(c)
        BY <3>3 DEF PublicDidDisclose, CallEnds
      <4>2. \A d \in Callers : call'[d] = None \/ call'[d] = call[d]
        BY <4>1, SettleFacts DEF Inv, DaemonInv
      <4> QED BY <1>3, <3>1, <4>2
    <3> QED BY <2>2, <3>2, <3>3 DEF CallStep
  <2> QED BY <1>7, <2>1, <2>2
<1> QED BY <1>2, <1>4, <1>5, <1>6, <1>7 DEF Steps

(* Every step of the daemon and its links keeps the invariant.             *)
LEMMA LinksKeep == ASSUME Inv, [LinksNext]_<<vars, linkVars>> PROVE Inv'
<1>1. CASE Steps /\ UNCHANGED linkVars
  BY <1>1, StepsKeep
<1>2. CASE PublishExported
  BY <1>2, PublishExportedKeeps DEF Inv, LinksRest
<1>3. ASSUME NEW c \in Callers, PublishSnapshotLink(c) \/ RevokeSnapshotLink(c) PROVE Inv'
  <2>1. Beside /\ UNCHANGED linkVars
    BY <1>3, BeginBeside DEF Inv, PublishSnapshotLink, RevokeSnapshotLink, Kinds, CallPlaces
  <2>2. DaemonInv' /\ LinksTypeOK'
    BY <2>1, BesideKeeps DEF Inv, DaemonInv, LinksTypeOK, linkVars
  <2> QED BY <1>3, <2>2, PublishSnapshotLinkLinks, RevokeSnapshotLinkLinks DEF Inv, LinksRest
<1>4. ASSUME NEW c \in Callers, LinkStep(c) PROVE Inv'
  <2>1. DaemonInv'
    BY <1>4, LinkStepBeside, BesideKeeps DEF Inv
  <2>2. LinksRest' /\ LinksTypeOK'
    BY <1>4, PublishExportLinks, PublishPutLinks, PutAskedLinks, PlacedLinks, PutRefusedLinks,
       UploadedLinks, UnansweredLinks, RevokeAskedLinks, RevokedLinks DEF LinkStep
  <2> QED BY <2>1, <2>2 DEF Inv, LinksRest
<1>5. ASSUME NEW r \in onway, Mediator(r) PROVE Inv'
  BY <1>5, MediatorLinks DEF Inv, LinksRest
<1>6. CASE Die /\ job' = [c \in Callers |-> None] /\ putting' = None /\ UNCHANGED <<link, blob, onway, revoked>>
  BY <1>6, LinksDie
<1>7. CASE UNCHANGED <<vars, linkVars>>
  <2>1. DaemonInv' /\ call' = call /\ count' = count /\ UNCHANGED linkVars
    BY <1>7 DEF Inv, DaemonInv, TypeOK, TypeOfFiles, TypeOfLook, TypeOfWork, TypeOfTurns,
       QueueInv, AboutDamage, Fresh, TurnInv, Booting, Opening, ComingDown, MakingOne, Asked,
       Holding, AgentInv, At, ConnInv, Making, CallInv, ShownInv, Settled, vars
  <2> QED BY <2>1, LinksFrame DEF Inv, LinksRest, DaemonInv, LinksTypeOK, linkVars
<1> QED BY <1>1, <1>2, <1>3, <1>4, <1>5, <1>6, <1>7 DEF LinksNext

-----------------------------------------------------------------------------
(* In every behaviour of the daemon and its links the invariant holds:     *)
(* each turn, wherever it is, holds what its next step takes for granted   *)
(* (daemon.ts, snapshot-links.ts).                                         *)
THEOREM DaemonInvariant == LinksSpec => []Inv
<1>1. LinksInit => Inv
  BY LinksBegin
<1>2. Inv /\ [LinksNext]_<<vars, linkVars>> => Inv'
  BY LinksKeep
<1> QED BY <1>1, <1>2, PTL DEF LinksSpec

(* The daemon's variables, and the links', keep their types: no request is *)
(* carried out, no turn taken, over what is not there.                     *)
THEOREM DaemonTypeCorrect == LinksSpec => []LinksTypeOK
<1>1. Inv => LinksTypeOK
  BY DEF Inv
<1> QED BY <1>1, DaemonInvariant, PTL

(* Nothing is closed or removed under another still using it.              *)
THEOREM DaemonNothingUnderUse == LinksSpec => []NothingUnderUse
<1>1. ASSUME Inv PROVE NothingUnderUse
  <2>1. conn # {} => file # None /\ taken = "us"
    BY <1>1 DEF Inv, DaemonInv, ConnInv, AgentInv, Making, TurnInv, MakingOne, Holding
  <2>2. conn = {} \/ \E who : conn = {who}
    BY <1>1 DEF Inv, DaemonInv, ConnInv
  <2>3. Cardinality(conn) <= 1
    BY <2>2, FS_EmptySet, FS_Singleton
  <2>4. \A c \in Callers : call[c] # None => "runtime" \in conn /\ agent # None /\ agent.id = call[c].agent
    BY <1>1 DEF Inv, DaemonInv, ConnInv, CallInv
  <2> QED BY <2>1, <2>3, <2>4 DEF NothingUnderUse
<1>2. Inv => NothingUnderUse
  BY <1>1
<1> QED BY <1>2, DaemonInvariant, PTL

(* What a view is shown is what the files hold once no turn is under way,  *)
(* and whatever the mediator serves under this replica's name is on record *)
(* here, whatever was lost, given up or carried out late.                  *)
THEOREM DaemonShownAndServed == LinksSpec => []ShownAndServed
<1>1. ASSUME Inv PROVE ShownAndServed
  <2>1. ShownTruly
    BY <1>1, NamesApart DEF Inv, DaemonInv, ShownInv, Settled, AgentInv, At, ShownTruly, Whys
  <2>2. LinksAccounted
    BY <1>1 DEF Inv, LinksInv, LinksAccounted, Serves, Ours, Mine, Gone, Quiet
  <2> QED BY <2>1, <2>2 DEF ShownAndServed
<1>2. Inv => ShownAndServed
  BY <1>1
<1> QED BY <1>2, DaemonInvariant, PTL
=============================================================================
