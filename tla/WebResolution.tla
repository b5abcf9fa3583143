--------------------------- MODULE WebResolution ---------------------------
(***************************************************************************)
(* A did:web fetched by two processes: an agent, which asks the authority  *)
(* anew for every piece of work under one deadline (agent-core             *)
(* src/resolver.ts), and a mediator, which keeps what it fetched for a     *)
(* while (mediator/src/didcomm/did-resolver.ts).  The authority answers as *)
(* it pleases and replaces its document at any time.                       *)
(*                                                                         *)
(* Documents are numbered versions.  Whether one is strict JSON, calls     *)
(* itself by the name and has the shape the vault retains is one answer of *)
(* the authority's each; how keys and services are spelled is left out.    *)
(* A fetch of the mediator's takes MaxFlight at most.                      *)
(***************************************************************************)
EXTENDS Naturals, FiniteSets, Sequences, SequencesExt

CONSTANTS WebNames,        \* did:web names
          CacheTtl, CacheMax, MaxFlight,
          MaxClock, MaxVersion, MaxAsks,    \* bounds
          None

VARIABLES clock,
          site,         \* what the authority of each name serves: a version
          replaced,     \* when each version was replaced by the next
          attempt,      \* the agent's one resolution
          cache,        \* the mediator's, oldest name first
          asks,         \* the mediator's fetches under way
          served        \* what the mediator last resolved a name to

webVars == <<clock, site, replaced, attempt, cache, asks, served>>

----------------------------------------------------------------------------
(* The agent.                                                              *)

\* Refused before any network is touched.
Refusals == {"misspelled", "private", "loopback", "no transport"}
\* What the transport says for good, found whatever it is wrapped in.
FinalCodes == {"EBLOCKED", "ENXDOMAIN"}
\* By status: a redirect, a missing page or another refusal is final.
Retryable == {"408", "429", "5xx"}
FinalStatus == {"3xx", "404", "4xx"}
\* By what the body turns out to be.
Bodies == {"too large", "no JSON", "another's", "misshapen"}

Definitive == [outcome |-> "definitive", version |-> 0]
Unavailable == [outcome |-> "unavailable", version |-> 0]
Resolved(v) == [outcome |-> "resolved", version |-> v]

NoAttempt == [stage |-> "none", since |-> 0, version |-> 0, trouble |-> None, result |-> None]
Ends(t, result) == attempt' = [attempt EXCEPT !.stage = "none", !.trouble = t, !.result = result]

WebInit ==
    /\ clock = 0
    /\ site = [n \in WebNames |-> 1] /\ replaced = [n \in WebNames |-> <<>>]
    /\ attempt = NoAttempt
    /\ cache = <<>> /\ asks = {} /\ served = None

AgentName == CHOOSE n \in WebNames : TRUE
Agents == UNCHANGED <<clock, site, replaced, cache, asks, served>>

\* The name, the policy and the transport are looked at first.
ResolveWeb ==
    /\ attempt.stage = "none"
    /\ \/ attempt' = [NoAttempt EXCEPT !.stage = "fetch", !.since = clock]
       \/ \E t \in Refusals : attempt' = [NoAttempt EXCEPT !.since = clock, !.trouble = t, !.result = Definitive]
    /\ Agents

\* The fetch fails or brings an answer, whose status may end it.
Fetched ==
    /\ attempt.stage = "fetch"
    /\ \/ \E t \in FinalCodes \cup FinalStatus : Ends(t, Definitive)
       \/ \E t \in Retryable \cup {"broken"} : Ends(t, Unavailable)
       \/ attempt' = [attempt EXCEPT !.stage = "body", !.version = site[AgentName]]
    /\ Agents

\* The body arrives within its bound and reads as the name's own document, ...
ReadBounded ==
    /\ attempt.stage = "body"
    /\ \/ Ends("cut short", Unavailable)
       \/ \E t \in FinalCodes \cup {"too large", "no JSON", "another's"} : Ends(t, Definitive)
       \/ attempt' = [attempt EXCEPT !.stage = "check"]
    /\ Agents

\* ... and has the shape the vault retains, checked slice by slice.
CheckShape ==
    /\ attempt.stage = "check"
    /\ Ends("misshapen", Definitive) \/ Ends(None, Resolved(attempt.version))
    /\ Agents

\* One deadline over it all.
TimedOut == attempt.stage # "none" /\ Ends("late", Unavailable) /\ Agents

----------------------------------------------------------------------------
(* The mediator.                                                           *)

Entry(n) == {i \in 1..Len(cache) : cache[i].name = n}
Cached(n) == {i \in Entry(n) : cache[i].until > clock}
Unexpired(n) == SelectSeq(cache, LAMBDA e : e.name # n \/ e.until > clock)

MediatorSide == UNCHANGED <<clock, site, replaced, attempt>>

\* Kept and not past its time: answered with it.
Hit(n) ==
    /\ Cached(n) # {}
    /\ \E i \in Cached(n) : served' = [name |-> n, version |-> cache[i].version]
    /\ UNCHANGED <<cache, asks>> /\ MediatorSide

\* An entry past its time is dropped, and the name asked for.
Miss(n) ==
    /\ Cached(n) = {} /\ Cardinality(asks) < MaxAsks
    /\ cache' = Unexpired(n)
    /\ \E k \in 1..MaxAsks : (\A a \in asks : a.of # k) /\ asks' = asks \cup {[of |-> k, name |-> n, since |-> clock, version |-> 0]}
    /\ UNCHANGED served /\ MediatorSide

\* The authority is read.
Read(a) ==
    /\ a.version = 0
    /\ asks' = (asks \ {a}) \cup {[a EXCEPT !.version = site[a.name]]}
    /\ UNCHANGED <<cache, served>> /\ MediatorSide

\* Whatever does not resolve is no document, and nothing is kept of it.
Fails(a) ==
    /\ a.version = 0
    /\ asks' = asks \ {a}
    /\ UNCHANGED <<cache, served>> /\ MediatorSide

\* The oldest makes room; a name kept already stays where it is.
Made == IF Len(cache) >= CacheMax THEN Tail(cache) ELSE cache
Put(room, e) ==
    IF \E i \in 1..Len(room) : room[i].name = e.name
    THEN [i \in 1..Len(room) |-> IF room[i].name = e.name THEN e ELSE room[i]]
    ELSE Append(room, e)

\* Fetches end in any order, and each is kept from its end on.
Remember(a) ==
    /\ a.version > 0
    /\ cache' = Put(Made, [name |-> a.name, version |-> a.version, until |-> clock + CacheTtl])
    /\ asks' = asks \ {a}
    /\ served' = [name |-> a.name, version |-> a.version]
    /\ MediatorSide

ClearCache == cache # <<>> /\ cache' = <<>> /\ UNCHANGED <<asks, served>> /\ MediatorSide

----------------------------------------------------------------------------
(* The authority and the time.                                             *)

Publish ==
    /\ \E n \in WebNames :
          /\ site[n] < MaxVersion
          /\ site' = [site EXCEPT ![n] = @ + 1] /\ replaced' = [replaced EXCEPT ![n] = Append(@, clock)]
    /\ UNCHANGED <<clock, attempt, cache, asks, served>>

Pass ==
    /\ clock < MaxClock
    /\ \A a \in asks : clock < a.since + MaxFlight
    /\ clock' = clock + 1 /\ served' = None
    /\ UNCHANGED <<site, replaced, attempt, cache, asks>>

Authority == Publish \/ Pass
AgentNext == Authority \/ ResolveWeb \/ Fetched \/ ReadBounded \/ CheckShape \/ TimedOut
MediatorNext ==
    \/ Authority \/ ClearCache
    \/ \E n \in WebNames : Hit(n) \/ Miss(n)
    \/ \E a \in asks : Read(a) \/ Fails(a) \/ Remember(a)

----------------------------------------------------------------------------
(* Properties.                                                             *)

\* A version that is not the one served now was replaced at a known time.
CurrentSince(n, v, t) == v = site[n] \/ replaced[n][v] >= t

\* The agent's answer was its authority's at some time since it asked; the
\* mediator's at most a fetch and the time it keeps documents ago, however many
\* fetches of one name overtake each other; and no more names are kept than
\* may be, each once ("How long a fetched document is reused", "so a busy
\* endpoint cannot grow it forever").
WebFresh ==
    /\ attempt.result # None /\ attempt.result.outcome = "resolved" => CurrentSince(AgentName, attempt.version, attempt.since)
    /\ served # None => CurrentSince(served.name, served.version, IF clock > CacheTtl + MaxFlight THEN clock - CacheTtl - MaxFlight ELSE 0)
    /\ Len(cache) <= CacheMax
    /\ \A n \in WebNames : Cardinality(Entry(n)) <= 1

\* A resolution is closed for good by an answer that is final and never by the
\* time it took ("`unavailable` -- no answer now, the work stays retryable").
ClosedByAnAnswer ==
    attempt.result = Definitive => attempt.trouble \in Refusals \cup FinalCodes \cup FinalStatus \cup Bodies

=============================================================================
