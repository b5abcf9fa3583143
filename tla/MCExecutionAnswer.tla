-------------------------- MODULE MCExecutionAnswer --------------------------
(* ExecutionAnswer on a few interchangeable DIDs; and, in scenes of their  *)
(* own, what a vault holds of a peer and proves by it, a did:web fetched   *)
(* by an agent and kept by a mediator, and the names replicas record by.   *)
EXTENDS ExecutionAnswer

CONSTANTS MaxRecorded, WebNames, CacheTtl, CacheMax, MaxFlight, MaxClock, MaxVersion, MaxAsks,
          Replicas, MaxEvents

VARIABLES scene, recorded, objects, seen, cited, token, sender,
          clock, site, replaced, attempt, cache, asks, served, records, subject

peerVars == <<recorded, objects, seen, cited, token, sender>>
siteVars == <<clock, site, replaced, attempt, cache, asks, served>>

PE == INSTANCE PeerEvidence
WR == INSTANCE WebResolution
VS == INSTANCE VaultSchema

recordVars == <<records, subject>>

MCInit ==
    /\ AnswerInit /\ WR!WebInit /\ PE!EvidenceInit /\ VS!SchemaInit
    /\ scene \in {"answer", "evidence", "fetch", "cache", "records"}
    /\ scene # "evidence" => token = PE!Proof /\ sender = "new"
    /\ scene # "records" => subject = "messages"

Answering == scene = "answer" /\ AnswerNext /\ UNCHANGED <<scene, peerVars, siteVars, recordVars>>
Proving == scene = "evidence" /\ PE!EvidenceNext /\ UNCHANGED <<scene, allAnswerVars, siteVars, recordVars>>
Fetching == scene = "fetch" /\ WR!AgentNext /\ UNCHANGED <<scene, allAnswerVars, peerVars, recordVars>>
Keeping == scene = "cache" /\ WR!MediatorNext /\ UNCHANGED <<scene, allAnswerVars, peerVars, recordVars>>
Recording == scene = "records" /\ VS!SchemaNext /\ UNCHANGED <<scene, allAnswerVars, peerVars, siteVars>>

MCNext == Answering \/ Proving \/ Fetching \/ Keeping \/ Recording
MCSpec == MCInit /\ [][MCNext]_<<scene, allAnswerVars, peerVars, siteVars, recordVars>>

PeerSymmetry == Permutations(Peers) \cup Permutations(Replicas)

(* PeerEvidence's: what is proved is true and stands, WebResolution's:     *)
(* documents are fresh and a resolution is closed by an answer, and        *)
(* VaultSchema's: replicas agree on what they record by the same names.    *)
EvidenceHolds ==
    /\ [](scene = "evidence" => PE!ProofsTrue)
    /\ [](scene \in {"fetch", "cache"} => WR!WebFresh /\ WR!ClosedByAnAnswer)
    /\ [](scene = "records" => VS!SchemaSound)
    /\ [][scene = "evidence" => PE!VerdictKept]_<<scene, peerVars>>
=============================================================================
