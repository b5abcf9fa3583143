----------------------------- MODULE Continuity -----------------------------
(***************************************************************************)
(* The continuity model (packages/continuity): what a set of facts about   *)
(* replaced DIDs shows, and which of it an operation may rely on.          *)
(*                                                                         *)
(* A channel is a pair <<local DID, peer DID>>.  A fact is an observation  *)
(* of the peer writing at a channel, with the DID it rotated from or None, *)
(* or a decision of ours to replace the local DID of a channel.  A link    *)
(* <<from, to>> replaces exactly one endpoint.  A graph is a function from *)
(* its links to the facts that support each.  Endings, which the vault     *)
(* never projects, are left out, and so is the listing of the facts behind *)
(* a conflict: an answer is a conflict or it is not.                       *)
(***************************************************************************)
EXTENDS FiniteSets, Naturals, TLC

CONSTANT None

Local(c) == c[1]
Peer(c) == c[2]

Seen(at, prior) == [kind |-> "seen", at |-> at, prior |-> prior]
Decided(at, succ) == [kind |-> "decided", at |-> at, succ |-> succ]

\* What the profile accepts of a fact.
ValidFact(f) ==
    /\ Local(f.at) # Peer(f.at)
    /\ f.kind = "seen" => f.prior \notin {Local(f.at), Peer(f.at)}
    /\ f.kind = "decided" => f.succ \notin {Local(f.at), Peer(f.at)}

----------------------------------------------------------------------------
(* Claims: the change of one endpoint a fact says was made.                *)

Claims(F, side) ==
    {f \in F : IF side = "local" THEN f.kind = "decided"
                                 ELSE f.kind = "seen" /\ f.prior # None}
Leaves(f) == IF f.kind = "seen" THEN <<Local(f.at), f.prior>> ELSE f.at
LeadsTo(f) == IF f.kind = "seen" THEN f.at ELSE <<f.succ, Peer(f.at)>>
Claiming(f) == f.kind = "decided" \/ f.prior # None
LinkOf(f) == <<Leaves(f), LeadsTo(f)>>

\* The pairs a fact sits at, and those with the successor pair it names.
Sites(f) == {f.at} \cup (IF Claiming(f) THEN {Leaves(f)} ELSE {})
Pairs(f) == Sites(f) \cup (IF Claiming(f) THEN {LeadsTo(f)} ELSE {})

----------------------------------------------------------------------------
(* Graphs.                                                                 *)

Side(l) == IF Local(l[1]) # Local(l[2]) THEN "local" ELSE "peer"
SuccessorIn(l) == IF Side(l) = "local" THEN Local(l[2]) ELSE Peer(l[2])
OfSide(g, side) == {l \in DOMAIN g : Side(l) = side}
Ends(g) == UNION {{l[1], l[2]} : l \in DOMAIN g}
Merged(g, h) ==
    [l \in DOMAIN g \cup DOMAIN h |->
        (IF l \in DOMAIN g THEN g[l] ELSE {}) \cup (IF l \in DOMAIN h THEN h[l] ELSE {})]

\* The pairs of opposite replacements that leave one channel.
Opposed(g) ==
    {t \in OfSide(g, "local") \X OfSide(g, "peer") : t[1][1] = t[2][1]}
JoinOf(t) == <<Local(t[1][2]), Peer(t[2][2])>>
Collides(t) == Local(JoinOf(t)) = Peer(JoinOf(t))

\* The links a join adds, and the facts each then rests on as well.
JoinLinks(t) == {<<t[1][2], JoinOf(t)>>, <<t[2][2], JoinOf(t)>>}
Joined(g, masked) ==
    LET ts == {t \in Opposed(g) : ~Collides(t) /\ JoinOf(t) \notin masked}
    IN  [l \in UNION {JoinLinks(t) : t \in ts} |->
            UNION {g[t[1]] \cup g[t[2]] : t \in {u \in ts : l \in JoinLinks(u)}}]

\* Every join the links imply, to a fixpoint.
RECURSIVE Close(_, _)
Closer(g, h, masked) == IF h = g THEN g ELSE Close(h, masked)
Close(g, masked) == Closer(g, Merged(g, Joined(g, masked)), masked)

\* Breadth first from the channels reached so far: each channel with the facts
\* supporting one shortest path to it.
RECURSIVE Spread(_, _)
Spread(g, reached) ==
    LET out == {l \in DOMAIN g : l[1] \in DOMAIN reached /\ l[2] \notin DOMAIN reached}
        Into(l) == reached[l[1]] \cup g[l]
    IN  IF out = {} THEN reached
        ELSE Spread(g, reached @@ [c \in {l[2] : l \in out} |-> Into(CHOOSE l \in out : l[2] = c)])

Restricted(g, side) == [l \in OfSide(g, side) |-> g[l]]
Reach(g, c) == Spread(g, c :> {})

\* The channels links of the set connect c to, whichever way they lead.
RECURSIVE Component(_, _)
Component(links, C) ==
    LET more == UNION {{l[1], l[2]} : l \in {k \in links : k[1] \in C \/ k[2] \in C}}
    IN  IF more \subseteq C THEN C ELSE Component(links, C \cup more)

\* The context a change of `side' applies across: the peer's change applies to
\* the channels local replacements connect, ours to those the peer's connect.
Context(g, c, side) ==
    Component(OfSide(g, IF side = "peer" THEN "local" ELSE "peer"), {c})

----------------------------------------------------------------------------
(* The closure over the facts a decision may rest on.                      *)

\* What confirms that the peer wrote to the address a decision leaves, in the
\* graph built without it: observations at that address by the peer or by one
\* its rotations lead to, each with the path there.
SeenWithin(F, reach) ==
    LET seen == {f \in F : f.kind = "seen" /\ f.at \in DOMAIN reach}
    IN  seen \cup UNION {reach[f.at] : f \in seen}
Confirming(g, F, d) == SeenWithin(F, Reach(Restricted(g, "peer"), d.at))

\* A variant of Built: a pair that two replacements leave is left by none.
BuiltUncontested(F, admitted, masked) ==
    LET fs == Claims(F, "peer") \cup DOMAIN admitted
        alone == {f \in fs : \A e \in fs : Leaves(e) = Leaves(f) => LinkOf(e) = LinkOf(f)}
    IN  Close([l \in {LinkOf(f) : f \in alone} |-> {f \in fs : LinkOf(f) = l}], masked)

\* A variant of Built: a decision's link is supported by the decision alone.
\* The graph of the links the facts claim and the decisions admitted so far,
\* each under its own facts and those that confirmed it.
Built(F, admitted, masked) ==
    LET fs == {f \in Claims(F, "peer") \cup DOMAIN admitted : {Leaves(f), LeadsTo(f)} \cap masked = {}}
    IN  Close([l \in {LinkOf(f) : f \in fs} |->
                  UNION {{f} \cup (IF f \in DOMAIN admitted THEN admitted[f] ELSE {})
                             : f \in {e \in fs : LinkOf(e) = l}}],
              masked)

\* Rounds: every decision still waiting is judged against the graph the round
\* began with, until a round admits none.
RECURSIVE Rounds(_, _, _)
Round(F, admitted, masked, g, judged) ==
    LET new == {d \in DOMAIN judged : judged[d] # {}}
    IN  IF new = {} THEN [graph |-> g, admitted |-> admitted]
        ELSE Rounds(F, admitted @@ [d \in new |-> judged[d]], masked)
Judged(F, admitted, g) == [d \in Claims(F, "local") \ DOMAIN admitted |-> Confirming(g, F, d)]
Rounds(F, admitted, masked) ==
    LET g == Built(F, admitted, masked)
    IN  Round(F, admitted, masked, g, Judged(F, admitted, g))

Closure(F, masked) == Rounds(F, [d \in {} |-> {}], masked)

----------------------------------------------------------------------------
(* Conflicts over the whole graph, and the continuity clear of them.       *)

Changes(F, g, c, side) == {f \in Claims(F, side) : Leaves(f) \in Context(g, c, side)}
SuccessorsNamed(fs) == {SuccessorIn(LinkOf(f)) : f \in fs}

CompetingScopes(F, g, side) ==
    {Context(g, Leaves(f), side) \cup {LeadsTo(e) : e \in Changes(F, g, Leaves(f), side)}
        : f \in {f \in Claims(F, side) :
                    Cardinality(SuccessorsNamed(Changes(F, g, Leaves(f), side))) > 1}}

CycleScopes(g) ==
    LET reach == [c \in Ends(g) |-> DOMAIN Reach(g, c)]
    IN  {{d \in reach[c] : c \in reach[d]} : c \in {b \in Ends(g) : \E d \in reach[b] \ {b} : b \in reach[d]}}

CollisionScopes(g) == {{t[1][1], t[1][2], t[2][2]} : t \in {u \in Opposed(g) : Collides(u)}}

Scopes(F, g) ==
    CompetingScopes(F, g, "peer") \cup CompetingScopes(F, g, "local")
        \cup CycleScopes(g) \cup CollisionScopes(g)

\* The continuity clear of every conflict, over the facts that touch none.
Cleared(F, positive, affected) ==
    LET usable == Closure({f \in F : Pairs(f) \cap affected = {}}, affected)
        Model(u) == [facts |-> F, positive |-> positive, affected |-> affected,
                     usable |-> u.graph, admitted |-> u.admitted]
    IN  Model(usable)
Over(F, positive) == Cleared(F, positive, UNION Scopes(F, positive))
Derive(F) == Over(F, Closure(F, {}).graph)

----------------------------------------------------------------------------
(* Queries.                                                                *)

Known(m, c) == c \in Ends(m.positive) \cup UNION {Sites(f) : f \in m.facts}
Clear(m, f) == Pairs(f) \cap m.affected = {}
LinksTo(g, c) == {l \in DOMAIN g : l[2] = c}
LinksFrom(g, c) == {l \in DOMAIN g : l[1] = c}

FactStatus(m, f) ==
    CASE f \notin m.facts -> "unknown"
      [] f \in m.facts /\ ~Clear(m, f) -> "conflict"
      [] f \in m.facts /\ Clear(m, f) /\ f.kind = "decided" /\ f \notin DOMAIN m.admitted -> "waiting"
      [] OTHER -> "usable"

Established(m, c) == c \in UNION {Sites(f) : f \in m.facts} \/ LinksTo(m.usable, c) # {}

\* The usable links make this change anyway, at another pair of the context.
UsablyEstablished(m, side, c, succ) ==
    \E l \in OfSide(m.usable, side) : SuccessorIn(l) = succ /\ l[1] \in Context(m.usable, c, side)

\* Saved rotations with no usable continuation that the head of c answers for.
Onward(m, c) ==
    {d \in Changes(m.facts, m.positive, c, "local") : ~UsablyEstablished(m, "local", c, d.succ)}

Unusable(m, c) ==
    \E l \in LinksFrom(m.positive, c) :
        l \notin DOMAIN m.usable /\ ~UsablyEstablished(m, Side(l), c, SuccessorIn(l))

\* Why the forward history of a known channel has no authority.
Contradicted(m, c, reach, usable) ==
    \/ reach \cap m.affected # {}
    \/ ~Established(m, c) /\ LinksTo(m.positive, c) # {}
    \/ \E b \in reach \ usable : LinksFrom(m.positive, b) = {} /\ LinksTo(m.positive, b) # {}
    \/ \E b \in reach \cap usable :
          \/ Unusable(m, b)
          \/ \E d \in Onward(m, b) : d.at \notin Context(m.usable, b, "local") \/ ~Clear(m, d)

Waiting(m, reach, usable) ==
    \E b \in reach \cap usable : \E d \in Onward(m, b) :
        d.at \in Context(m.usable, b, "local") /\ d \notin DOMAIN m.admitted

HeadSupport(m, usable) == UNION {m.usable[l] : l \in {k \in DOMAIN m.usable : k[1] \in usable}}

\* A pair no fact sits at and no link reaches: named by a saved decision or not.
UnknownHead(m, c) ==
    LET named == {d \in Claims(m.facts, "local") : LeadsTo(d) = c}
    IN  CASE c \in m.affected \/ \E d \in named : ~Clear(m, d) -> [status |-> "conflict"]
          [] c \notin m.affected /\ named # {} /\ \A d \in named : Clear(m, d) -> [status |-> "unresolved"]
          [] OTHER -> [status |-> "none"]

\* The pairs the usable forward history of c stops at.
UsableEnds(m, c) == {b \in DOMAIN Reach(m.usable, c) : LinksFrom(m.usable, b) = {}}

Head(m, c) ==
    LET reach == DOMAIN Reach(m.positive, c)
        usable == DOMAIN Reach(m.usable, c)
    IN  IF ~Known(m, c) THEN UnknownHead(m, c)
        ELSE IF Contradicted(m, c, reach, usable) THEN [status |-> "conflict"]
        ELSE IF Waiting(m, reach, usable) THEN [status |-> "unresolved"]
        ELSE IF Cardinality(UsableEnds(m, c)) # 1 THEN [status |-> "many"]
        ELSE [status |-> "head", channel |-> CHOOSE b \in UsableEnds(m, c) : TRUE,
              support |-> HeadSupport(m, usable)]

Path(m, from, to) ==
    LET reach == Reach(m.usable, from)
    IN  IF {from, to} \cap m.affected # {} THEN [status |-> "conflict"]
        ELSE IF ~Known(m, from) \/ to \notin DOMAIN reach THEN [status |-> "none"]
        ELSE [status |-> "path", support |-> reach[to]]

\* The usable observations by which the peer, or a usable successor of it, wrote
\* to exactly this local DID; none while a conflict reaches the pair.
Confirmation(m, c) ==
    IF c \in m.affected THEN {}
    ELSE {f \in m.facts : f.kind = "seen" /\ Clear(m, f)
                            /\ f.at \in DOMAIN Reach(Restricted(m.usable, "peer"), c)}
=============================================================================
