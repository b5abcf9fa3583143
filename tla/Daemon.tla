------------------------------- MODULE Daemon -------------------------------
(***************************************************************************)
(* The daemon over one vault file (daemon/src/daemon.ts): which phase it   *)
(* is in, what of the files it holds, the agent over an open vault and the *)
(* calls and requests under way over it.  Whatever makes, opens, closes or *)
(* removes a file takes a turn in one queue; calls over the agent take     *)
(* none and interleave with the turns, as do a read that meets damage, the *)
(* host closing the daemon and the process dying.  A turn is one step for  *)
(* each stretch that ends in an await others can be seen through.          *)
(***************************************************************************)
EXTENDS Naturals, Sequences, FiniteSets

CONSTANTS
    Callers,     \* callers over the agent, each with one call at a time
    MaxAsks,     \* bound: turns asked for by views, and faults
    MaxCalls,    \* bound: calls made over the agent
    MaxQueue,    \* bound: turns waiting when a view asks for one
    MaxFaults,   \* bound: steps that fail, damage, deaths of the process
    None

ASSUME DaemonAssumption ==
    /\ MaxAsks \in Nat
    /\ MaxCalls \in Nat
    /\ MaxQueue \in Nat
    /\ MaxFaults \in Nat

Phases == {"booting", "elsewhere", "foreign", "unreadable", "onboarding", "locked", "damaged", "open"}

VARIABLES
    file,       \* the vault file, or None
    conn,       \* who of this daemon has a connection to it
    seed,       \* whether the host caches the unlocked seed
    taken,      \* who has the storage as a whole: None, "us" or "them"
    phase,      \* current
    shown,      \* what the publisher last said of the phase and the hold
    hold,       \* held: the name of the vault file, or None
    issued,     \* the vault each hold named was made for
    inspected,  \* whether the locked phase's look at the vault is held
    open,       \* the runtime running, numbered, or None
    agent,      \* the agent attached to it
    call,       \* by caller, the call under way over an agent
    fetching,   \* how many linked snapshots are being read
    closed,     \* close() was called
    queue,      \* turns waiting, in the order asked
    turn,       \* the turn under way
    count       \* vaults made, runtimes opened, replica IDs renewed, turns asked, calls made, faults so far

fileVars == <<file, conn, seed, taken>>
lookVars == <<phase, shown, hold, issued, inspected>>
workVars == <<open, agent, call>>
turnVars == <<queue, turn>>
vars == <<file, conn, seed, taken, phase, shown, hold, issued, inspected, open, agent, call, fetching, closed, queue, turn, count>>

Turn(op, arg) == [op |-> op, arg |-> arg, at |-> "begin"]

(* What the variables hold, where there is something.  publish and revoke  *)
(* are calls of the snapshot links, limits to uploading their places.      *)
Ops == {"boot", "create", "restore", "vacant", "unlock", "lock", "forget", "export", "merge", "damaged", "close"}
Places == {"begin", "storage", "find", "look", "run", "ready", "detach", "stop", "stopDamaged", "stopFailed", "stopped", "failed", "damaged", "making", "made"}
Kinds == {"send", "request", "public", "publish", "revoke"}
CallPlaces == {"calling", "looking", "minting", "limits", "queued", "putting", "uploading"}
Daemons == {"us", "them"}
Whys == {"busy", "closed", "unready", "failed", "damaged"}

Files == [id : Nat, ready : BOOLEAN, rotten : BOOLEAN, restored : BOOLEAN, explained : BOOLEAN, told : BOOLEAN, publics : Nat]
Agents == [id : Nat, ended : BOOLEAN]
Calls == [kind : Kinds, agent : Nat, at : CallPlaces \cup Callers]
Turns == [op : Ops, arg : Nat \cup Callers \cup {None}, at : Places]
Counts == [made : Nat, opened : Nat, renewed : Nat, asks : Nat, calls : Nat, faults : Nat]

ASSUME NamesApart ==
    /\ Callers \cap CallPlaces = {}
    /\ None \notin Nat \cup Callers \cup Daemons \cup Whys
    /\ None \notin Files \cup Agents \cup Calls \cup Turns

NewFile(restored) == [id |-> count.made + 1, ready |-> FALSE, rotten |-> FALSE, restored |-> restored, explained |-> FALSE, told |-> FALSE, publics |-> 0]

TypeOfFiles ==
    /\ file \in Files \cup {None}
    /\ conn \subseteq {"make", "look", "runtime"}
    /\ seed \in BOOLEAN
    /\ taken \in Daemons \cup {None}

TypeOfLook ==
    /\ phase \in Phases
    /\ shown \in [phase : Phases, hold : Nat \cup {None}, why : Whys \cup {None}]
    /\ issued \in Seq(Nat)
    /\ hold \in (1..Len(issued)) \cup {None}
    /\ inspected \in BOOLEAN

TypeOfWork ==
    /\ open \in Nat \cup {None}
    /\ agent \in Agents \cup {None}
    /\ call \in [Callers -> Calls \cup {None}]

TypeOfTurns ==
    /\ fetching \in Nat
    /\ closed \in BOOLEAN
    /\ queue \in Seq(Turns)
    /\ turn \in Turns \cup {None}
    /\ count \in Counts

TypeOK == TypeOfFiles /\ TypeOfLook /\ TypeOfWork /\ TypeOfTurns

(* The publisher as createDaemon makes it, and boot() asked by the host.   *)
InitProcess ==
    /\ conn = {}
    /\ phase = "booting"
    /\ shown = [phase |-> "booting", hold |-> None, why |-> None]
    /\ hold = None
    /\ inspected = FALSE
    /\ open = None
    /\ agent = None
    /\ call = [c \in Callers |-> None]
    /\ fetching = 0
    /\ closed = FALSE
    /\ queue = <<Turn("boot", None)>>
    /\ turn = None

Init ==
    /\ InitProcess
    /\ file \in {None, [id |-> 1, ready |-> TRUE, rotten |-> FALSE, restored |-> FALSE, explained |-> TRUE, told |-> FALSE, publics |-> 0]}
    /\ seed = FALSE
    /\ taken = "them"
    /\ issued = <<0>>      \* a view may still name a vault removed before
    /\ count = [made |-> 1, opened |-> 0, renewed |-> 0, asks |-> 0, calls |-> 0, faults |-> 0]

-----------------------------------------------------------------------------
(* phase(): nothing is said by a daemon that closes.  hold is the hold the *)
(* step leaves.                                                            *)
SayWhy(p, why) ==
    IF closed THEN UNCHANGED <<phase, shown>>
    ELSE /\ phase' = p
         /\ shown' = [phase |-> p, hold |-> hold', why |-> why]

Say(p) == SayWhy(p, None)

At(op, at) == turn # None /\ turn.op = op /\ turn.at = at

Goto(at) == turn' = [turn EXCEPT !.at = at]

Done == turn' = None

Fault == count.faults < MaxFaults /\ count.asks + count.faults < MaxAsks /\ count' = [count EXCEPT !.faults = @ + 1]

(* inTurn(): the next one asked takes its turn.  exclusively() looks once  *)
(* more for a daemon that closed meanwhile; boot, giveUpDamaged and close  *)
(* do not go through it.                                                   *)
TakeTurn ==
    /\ turn = None
    /\ queue # <<>>
    /\ queue' = Tail(queue)
    /\ turn' = IF closed /\ Head(queue).op \notin {"boot", "damaged", "close"} THEN None ELSE Head(queue)
    /\ UNCHANGED <<fileVars, lookVars, workVars, fetching, closed, count>>

(* exclusively(): refused by a daemon that closes or waits for its files.  *)
Ask(op, arg) ==
    /\ ~closed
    /\ phase # "elsewhere"
    /\ count.asks + count.faults < MaxAsks
    /\ Len(queue) < MaxQueue
    /\ count' = [count EXCEPT !.asks = @ + 1]
    /\ queue' = Append(queue, Turn(op, arg))
    /\ UNCHANGED <<fileVars, lookVars, workVars, fetching, closed, turn>>

(* restoreFromLink: whether a restore could do anything is looked at in a  *)
(* turn, the snapshot is read in none, and the restore asked for its own.  *)
RestoreFromLinkRead ==
    /\ fetching > 0
    /\ fetching' = fetching - 1
    /\ \/ UNCHANGED queue
       \/ ~closed /\ phase # "elsewhere" /\ queue' = Append(queue, Turn("restore", None))
    /\ UNCHANGED <<fileVars, lookVars, workVars, closed, turn, count>>

Views ==
    \/ \E op \in {"create", "restore", "vacant", "unlock", "lock", "export", "merge"} : Ask(op, None)
    \/ \E h \in DOMAIN issued : Ask("forget", h)

-----------------------------------------------------------------------------
(* boot(): nothing is taken where a foreign vault stands.                  *)
BootForeign ==
    /\ At("boot", "begin")
    /\ \/ UNCHANGED hold /\ Say("foreign") /\ Done
       \/ Goto("storage") /\ UNCHANGED <<hold, phase, shown>>
    /\ UNCHANGED <<fileVars, issued, inspected, workVars, fetching, closed, queue, count>>

(* owned() over host.storage(): tried again while another daemon has the   *)
(* files; a daemon that closes meanwhile stops asking.                     *)
BootStorage ==
    /\ At("boot", "storage")
    /\ \/ closed /\ Done /\ UNCHANGED <<taken, hold, phase, shown>>
       \/ ~closed /\ taken = "them" /\ phase # "elsewhere" /\ UNCHANGED <<taken, hold, turn>> /\ Say("elsewhere")
       \/ ~closed /\ taken = None /\ taken' = "us" /\ Goto("find") /\ UNCHANGED <<hold, phase, shown>>
    /\ UNCHANGED <<file, conn, seed, issued, inspected, workVars, fetching, closed, queue, count>>

BootUnreadable ==
    /\ At("boot", "storage")
    /\ Fault
    /\ UNCHANGED <<hold, fileVars>>
    /\ SayWhy("unreadable", "failed")
    /\ Done
    /\ UNCHANGED <<issued, inspected, workVars, fetching, closed, queue>>

NewHold(id) ==
    /\ issued' = Append(issued, id)
    /\ hold' = Len(issued) + 1

(* What the files dictate: no vault, one to look at, one the seed opens.   *)
BootFind ==
    /\ At("boot", "find")
    /\ \/ file = None /\ UNCHANGED <<hold, issued>> /\ Say("onboarding") /\ Done
       \/ file # None /\ NewHold(file.id) /\ Goto(IF seed THEN "run" ELSE "look") /\ UNCHANGED <<phase, shown>>
    /\ UNCHANGED <<fileVars, inspected, workVars, fetching, closed, queue, count>>

-----------------------------------------------------------------------------
(* What taking and opening the vault file comes to (takeVault,             *)
(* inspectRuntime, openVault and the look at the damage they met).  The    *)
(* file is busy while this daemon's own connection stands; owned() would   *)
(* say "elsewhere" of that, in a phase that names no file, and so fails.   *)
Opens ==
    IF closed THEN "closed"
    ELSE IF conn # {} THEN "busy"
    ELSE IF ~file.ready THEN "unready"
    ELSE IF file.rotten THEN "damaged"
    ELSE None

Unopened == SayWhy(IF Opens = "damaged" THEN "damaged" ELSE "unreadable", Opens)

(* look(): the vault owned and read without its seed; one that does not    *)
(* open, or is damaged, is let go of.                                      *)
Look ==
    /\ UNCHANGED <<hold, issued>>
    /\ inspected' = (Opens = None)
    /\ conn' = IF Opens = None THEN {"look"} ELSE conn
    /\ IF Opens = None THEN Say("locked") ELSE Unopened

LookStep ==
    /\ turn # None
    /\ turn.at = "look"
    /\ Look
    /\ Done
    /\ UNCHANGED <<file, seed, taken, workVars, fetching, closed, queue, count>>

(* run(), and start() up to the agent attached and the publisher told: the *)
(* runtime is open to calls from here on.  A history known to be damaged,  *)
(* or a file that does not open, is closed again and thrown.               *)
Attach ==
    /\ open' = count.opened + 1
    /\ agent' = [id |-> count.opened + 1, ended |-> FALSE]
    /\ count' = [count EXCEPT !.opened = @ + 1]

Run ==
    /\ turn # None
    /\ turn.at = "run"
    /\ IF Opens = None
       THEN /\ conn' = {"runtime"}
            /\ Attach
            /\ Goto("ready")
            /\ UNCHANGED <<call, lookVars>>
       ELSE /\ IF turn.op = "boot"
               THEN UNCHANGED <<hold, issued, inspected>> /\ Done /\ Unopened
               ELSE Goto("look") /\ UNCHANGED lookVars
            /\ UNCHANGED <<conn, workVars, count>>
    /\ UNCHANGED <<file, seed, taken, fetching, closed, queue>>

(* start()'s wait for the first read: the vault is shown.                  *)
Ready ==
    /\ turn # None
    /\ turn.at = "ready"
    /\ ~file.rotten
    /\ phase' = "open"
    /\ shown' = [phase |-> "open", hold |-> hold, why |-> None]
    /\ seed' = (seed \/ turn.op = "unlock")
    /\ Done
    /\ UNCHANGED <<file, conn, taken, hold, issued, inspected, workVars, fetching, closed, queue, count>>

(* The first read fails: the runtime is stopped, and damage said.          *)
ReadyFails ==
    /\ turn # None
    /\ turn.at = "ready"
    /\ \/ file.rotten /\ UNCHANGED count /\ Goto("stopDamaged")
       \/ ~file.rotten /\ Fault /\ Goto("stopFailed")
    /\ UNCHANGED <<fileVars, lookVars, workVars, fetching, closed, queue>>

-----------------------------------------------------------------------------
(* With a bug: the runtime is closed under the calls still made over it.   *)
DetachedAtOnce == TRUE

(* detach(): once ended the agent starts nothing, and what is under way    *)
(* over it is waited for.                                                  *)
Detached == \A c \in Callers : call[c] # None => call[c].agent # agent.id

Stopping == {"stop", "stopDamaged", "stopFailed", "detach"}

DetachBegin ==
    /\ turn # None
    /\ turn.at \in Stopping
    /\ agent # None
    /\ ~agent.ended
    /\ agent' = [agent EXCEPT !.ended = TRUE]
    /\ open' = IF turn.at = "detach" THEN open ELSE None
    /\ UNCHANGED <<fileVars, lookVars, call, fetching, closed, turnVars, count>>

(* What each turn does once its runtime is stopped.                        *)
AfterStop ==
    CASE turn.at = "stopDamaged"                             -> "damaged"
      [] turn.at = "stopFailed" /\ turn.op \in {"unlock", "merge"} -> "look"
      [] turn.at = "stopFailed" /\ turn.op \notin {"unlock", "merge"} -> "failed"
      [] turn.at = "stop"                                    -> "stopped"

(* stop(): nothing to do with no runtime.                                  *)
StopEnd ==
    /\ turn # None
    /\ turn.at \in Stopping \ {"detach"}
    /\ agent # None => agent.ended /\ Detached
    /\ agent' = None
    /\ conn' = IF agent = None THEN conn ELSE conn \ {"runtime"}
    /\ Goto(AfterStop)
    /\ UNCHANGED <<file, seed, taken, lookVars, open, call, fetching, closed, queue, count>>

(* What is said of a runtime stopped for its damage, or because start()    *)
(* threw: by boot that it is unreadable, over a vault just made nothing.   *)
Stopped ==
    /\ turn # None
    /\ turn.at \in {"failed", "damaged"}
    /\ UNCHANGED hold
    /\ IF turn.at = "damaged" THEN SayWhy("damaged", "damaged")
       ELSE IF turn.op = "boot" THEN SayWhy("unreadable", "failed")
       ELSE UNCHANGED <<phase, shown>>
    /\ Done
    /\ UNCHANGED <<fileVars, issued, inspected, workVars, fetching, closed, queue, count>>

-----------------------------------------------------------------------------
(* refuseOccupied(): a vault is made only where none was found.            *)
Vacant == taken = "us" /\ phase = "onboarding" /\ file = None

Refused(op, ok) ==
    /\ At(op, "begin")
    /\ ~ok
    /\ Done
    /\ UNCHANGED <<fileVars, lookVars, workVars, fetching, closed, queue, count>>

VacantChecked ==
    /\ At("vacant", "begin")
    /\ Vacant
    /\ fetching' = fetching + 1
    /\ Done
    /\ UNCHANGED <<fileVars, lookVars, workVars, closed, queue, count>>

(* createIdentity and the restore up to the destination opened: a file     *)
(* that is not ready yet, held under a name of its own.                    *)
MakeFile ==
    /\ turn # None
    /\ turn.op \in {"create", "restore"}
    /\ turn.at = "begin"
    /\ Vacant
    /\ turn.op = "restore" \/ ~closed
    /\ file' = NewFile(turn.op = "restore")
    /\ count' = [count EXCEPT !.made = @ + 1]
    /\ conn' = {"make"}
    /\ NewHold(count.made + 1)
    /\ Goto("making")
    /\ UNCHANGED <<seed, taken, phase, shown, inspected, workVars, fetching, closed, queue>>

(* createVault, or restoreVault and the keys opened.                       *)
MakeVault ==
    /\ turn # None
    /\ turn.at = "making"
    /\ file' = [file EXCEPT !.ready = TRUE]
    /\ Goto("made")
    /\ UNCHANGED <<conn, seed, taken, lookVars, workVars, fetching, closed, queue, count>>

(* A failure before the vault is made whole: what was made is closed and   *)
(* removed.                                                                *)
MakeFails ==
    /\ turn # None
    /\ turn.at \in {"making", "made"}
    /\ Fault
    /\ conn' = {}
    /\ file' = None
    /\ hold' = None
    /\ Done
    /\ UNCHANGED <<seed, taken, phase, shown, issued, inspected, workVars, fetching, closed, queue>>

(* A created vault needs nothing explained; the seed is cached, and start()*)
(* closes the runtime again when the daemon closed meanwhile.              *)
MadeStart ==
    /\ turn # None
    /\ turn.at = "made"
    /\ file' = [file EXCEPT !.explained = (turn.op = "create")]
    /\ seed' = TRUE
    /\ IF closed
       THEN conn' = {} /\ Done /\ UNCHANGED <<workVars, count>>
       ELSE conn' = {"runtime"} /\ Attach /\ Goto("ready") /\ UNCHANGED call
    /\ UNCHANGED <<taken, lookVars, fetching, closed, queue>>

(* unlock: the look is let go of before the runtime is opened.             *)
Unlock ==
    /\ At("unlock", "begin")
    /\ inspected
    /\ \/ inspected' = FALSE /\ conn' = conn \ {"look"} /\ Goto("run")
       \/ UNCHANGED <<inspected, conn>> /\ Done          \* wrong passphrase
    /\ UNCHANGED <<file, seed, taken, phase, shown, hold, issued, workVars, fetching, closed, queue, count>>

(* lock: a vault locked already stays in the look it is in.                *)
Lock ==
    /\ At("lock", "begin")
    /\ seed' = FALSE
    /\ IF inspected \/ taken # "us" THEN Done ELSE Goto("stop")
    /\ UNCHANGED <<file, conn, taken, lookVars, workVars, fetching, closed, queue, count>>

LockStopped ==
    /\ At("lock", "stopped")
    /\ IF file # None
       THEN Goto("look") /\ UNCHANGED <<hold, phase, shown>>
       ELSE hold' = None /\ Say("onboarding") /\ Done
    /\ UNCHANGED <<fileVars, issued, inspected, workVars, fetching, closed, queue, count>>

(* forgetIdentity: only the vault the view named.                          *)
Forget ==
    /\ At("forget", "begin")
    /\ IF taken = "us" /\ hold # None /\ hold = turn.arg THEN Goto("stop") ELSE Done
    /\ UNCHANGED <<fileVars, lookVars, workVars, fetching, closed, queue, count>>

ForgetStopped ==
    /\ At("forget", "stopped")
    /\ inspected' = FALSE
    /\ conn' = conn \ {"look"}
    /\ seed' = FALSE
    /\ file' = None
    /\ hold' = None
    /\ Say("onboarding")
    /\ Done
    /\ UNCHANGED <<taken, issued, workVars, fetching, closed, queue, count>>

(* exportBackup: the snapshot read off the running vault, nothing changed. *)
Export ==
    /\ At("export", "begin")
    /\ turn.arg = None
    /\ Done
    /\ UNCHANGED <<fileVars, lookVars, workVars, fetching, closed, queue, count>>

(* mergeBackup: after the import another agent takes the place of the one  *)
(* that read the vault before it.  When both wrote under one replica ID    *)
(* nothing was imported: the runtime is stopped and opened under a fresh   *)
(* ID, and the agent comes only once the merge is over.                    *)
Merge ==
    /\ At("merge", "begin")
    /\ open # None
    /\ \/ Done
       \/ Goto("detach")
       \/ Goto("stop")
    /\ UNCHANGED <<fileVars, lookVars, workVars, fetching, closed, queue, count>>

MergeDetached ==
    /\ At("merge", "detach")
    /\ agent.ended
    /\ Detached
    /\ agent' = [id |-> count.opened + 1, ended |-> FALSE]
    /\ count' = [count EXCEPT !.opened = @ + 1]
    /\ Done
    /\ UNCHANGED <<fileVars, lookVars, open, call, fetching, closed, queue>>

MergeStopped ==
    /\ At("merge", "stopped")
    /\ Goto("run")
    /\ count' = [count EXCEPT !.renewed = @ + 1]
    /\ UNCHANGED <<fileVars, lookVars, workVars, fetching, closed, queue>>

(* giveUpDamaged: for the runtime it was said of, and no other.            *)
GiveUpDamaged ==
    /\ At("damaged", "begin")
    /\ IF closed \/ open = None \/ open # turn.arg THEN Done ELSE Goto("stopDamaged")
    /\ UNCHANGED <<fileVars, lookVars, workVars, fetching, closed, queue, count>>

(* close(): the runtime, the look and the files as a whole are let go of.  *)
CloseBegin ==
    /\ At("close", "begin")
    /\ Goto("stop")
    /\ UNCHANGED <<fileVars, lookVars, workVars, fetching, closed, queue, count>>

CloseStopped ==
    /\ At("close", "stopped")
    /\ inspected' = FALSE
    /\ conn' = conn \ {"look"}
    /\ taken' = IF taken = "us" THEN None ELSE taken
    /\ Done
    /\ UNCHANGED <<file, seed, phase, shown, hold, issued, workVars, fetching, closed, queue, count>>

CloseAsked ==
    /\ ~closed
    /\ closed' = TRUE
    /\ queue' = Append(queue, Turn("close", None))
    /\ UNCHANGED <<fileVars, lookVars, workVars, fetching, turn, count>>

-----------------------------------------------------------------------------
(* act() and during(): a call is refused with no runtime, and once the     *)
(* agent is ended; otherwise it is work to wait for until it settles.      *)
Begin(c, kind, at) ==
    /\ open # None
    /\ ~agent.ended
    /\ call[c] = None
    /\ count.calls < MaxCalls
    /\ count' = [count EXCEPT !.calls = @ + 1]
    /\ call' = [call EXCEPT ![c] = [kind |-> kind, agent |-> agent.id, at |-> at]]
    /\ UNCHANGED <<fileVars, lookVars, open, agent, fetching, closed, turnVars>>

Settle(c) == call' = [call EXCEPT ![c] = None]

(* A send, a retry, a completion or a rotation of the user's: refused      *)
(* until the restore was explained.                                        *)
Send(c) == file # None /\ file.explained /\ Begin(c, "send", "calling")

(* Every other call, and a request the agent makes of its own: fetch is    *)
(* refused once the agent ended.                                           *)
Request(c) == Begin(c, "request", "calling")

(* publicDid: a caller while another mints shares the other's outcome.     *)
PublicDid(c) ==
    Begin(c, "public", IF \E d \in Callers : call[d] # None /\ call[d].kind = "public" /\ call[d].at # "calling" THEN "calling" ELSE "looking")

(* A public address already disclosed is handed out again.                 *)
PublicDidLook(c) ==
    /\ call[c] # None
    /\ call[c].at = "looking"
    /\ call' = [call EXCEPT ![c].at = IF file.publics > 0 THEN "calling" ELSE "minting"]
    /\ UNCHANGED <<fileVars, lookVars, open, agent, fetching, closed, turnVars, count>>

PublicDidDisclose(c) ==
    /\ call[c] # None
    /\ call[c].at = "minting"
    /\ \/ file' = [file EXCEPT !.publics = @ + 1]
       \/ UNCHANGED file                       \* the minting threw
    /\ Settle(c)
    /\ UNCHANGED <<conn, seed, taken, lookVars, open, agent, fetching, closed, turnVars, count>>

(* Answered, failed, or past its deadline.                                 *)
CallEnds(c) ==
    /\ call[c] # None
    /\ call[c].at = "calling"
    /\ Settle(c)
    /\ UNCHANGED <<fileVars, lookVars, open, agent, fetching, closed, turnVars, count>>

(* explainedRestore: the person was told.                                  *)
ExplainedRestore ==
    /\ open # None
    /\ ~file.explained
    /\ file' = [file EXCEPT !.explained = TRUE, !.told = TRUE]
    /\ UNCHANGED <<conn, seed, taken, lookVars, workVars, fetching, closed, turnVars, count>>

-----------------------------------------------------------------------------
(* The history turns out damaged; a read or a call meets it and asks for   *)
(* the vault to be given up.                                               *)
Rot ==
    /\ file # None
    /\ file.ready
    /\ ~file.rotten
    /\ Fault
    /\ file' = [file EXCEPT !.rotten = TRUE]
    /\ UNCHANGED <<conn, seed, taken, lookVars, workVars, fetching, closed, turnVars>>

MeetDamage ==
    /\ open # None
    /\ file.rotten
    /\ \A i \in DOMAIN queue : queue[i].op # "damaged"
    /\ turn # None => turn.op # "damaged"
    /\ queue' = Append(queue, Turn("damaged", open))
    /\ UNCHANGED <<fileVars, lookVars, workVars, fetching, closed, turn, count>>

(* The process dies: its locks go with it.  A browser keeps the unlocked   *)
(* seed, a Node process does not; the next process boots.                  *)
Die ==
    /\ Fault
    /\ conn' = {}
    /\ phase' = "booting"
    /\ shown' = [phase |-> "booting", hold |-> None, why |-> None]
    /\ hold' = None
    /\ inspected' = FALSE
    /\ open' = None
    /\ agent' = None
    /\ call' = [c \in Callers |-> None]
    /\ fetching' = 0
    /\ closed' = FALSE
    /\ queue' = <<Turn("boot", None)>>
    /\ turn' = None
    /\ taken' = IF taken = "us" THEN None ELSE taken
    /\ seed' \in {FALSE, seed}
    /\ UNCHANGED <<file, issued>>

(* The other daemon lets go of the files.                                  *)
TheyLeave ==
    /\ taken = "them"
    /\ taken' = None
    /\ UNCHANGED <<file, conn, seed, lookVars, workVars, fetching, closed, turnVars, count>>

TurnStep ==
    \/ TakeTurn \/ BootForeign \/ BootStorage \/ BootFind \/ LookStep \/ Run \/ Ready \/ ReadyFails
    \/ DetachBegin \/ StopEnd \/ Stopped \/ VacantChecked \/ MakeFile \/ MakeVault \/ MadeStart
    \/ \E op \in {"restore", "vacant"} : Refused(op, Vacant)
    \/ Refused("create", Vacant /\ ~closed)
    \/ Refused("unlock", inspected)
    \/ Refused("merge", open # None)
    \/ Unlock \/ Lock \/ LockStopped \/ Forget \/ ForgetStopped \/ Export \/ Merge \/ MergeDetached \/ MergeStopped
    \/ GiveUpDamaged \/ CloseBegin \/ CloseStopped

CallStep(c) == PublicDidLook(c) \/ PublicDidDisclose(c) \/ CallEnds(c)

Steps ==
    \/ TurnStep
    \/ Views
    \/ RestoreFromLinkRead
    \/ BootUnreadable
    \/ MakeFails
    \/ CloseAsked
    \/ \E c \in Callers : Send(c) \/ Request(c) \/ PublicDid(c) \/ CallStep(c)
    \/ ExplainedRestore
    \/ Rot
    \/ MeetDamage
    \/ TheyLeave

Next == Steps \/ Die

(* The event loop runs whatever turn can go on, and a request ends by its  *)
(* deadline; nothing says that a view asks or another daemon leaves.       *)
Spec == Init /\ [][Next]_vars /\ WF_vars(TurnStep) /\ \A c \in Callers : WF_vars(CallStep(c))

-----------------------------------------------------------------------------
(* No file is removed, and no runtime closed, under another still using    *)
(* it: a connection has its file, there is one at most, and whatever is    *)
(* under way over an agent runs over the runtime that is open.  detach()   *)
(* waits for the work, and every turn lets go before the next one takes.   *)
NothingUnderUse ==
    /\ conn # {} => file # None /\ taken = "us"
    /\ Cardinality(conn) <= 1
    /\ \A c \in Callers : call[c] # None => "runtime" \in conn /\ agent # None /\ agent.id = call[c].agent

(* What a view is shown is what the files hold, once no turn is under way: *)
(* an open vault runs, a locked one is held for its passphrase, a vault is *)
(* called damaged or unreadable only when it is, and each phase names the  *)
(* file it stands in, as nonOpen() demands.                                *)
ShownTruly ==
    /\ shown.phase \in {"elsewhere", "onboarding", "foreign"} => shown.hold = None
    /\ shown.phase \in {"damaged", "locked", "open"} => shown.hold # None
    /\ turn = None /\ ~closed =>
         /\ phase = "open" <=> open # None
         /\ phase = "locked" <=> inspected
         /\ phase = "damaged" => file # None /\ file.rotten
         /\ shown.why \notin {"busy", "closed"}
         /\ phase \notin {"booting", "foreign", "elsewhere"} /\ taken = "us" => (hold # None <=> file # None)

(* A daemon told to close comes to hold nothing, whatever was under way or *)
(* waited for: no turn waits on itself, on a call or on another's files.   *)
CloseEnds == closed ~> (~closed \/ (conn = {} /\ taken # "us" /\ turn = None /\ queue = <<>>))

=============================================================================
