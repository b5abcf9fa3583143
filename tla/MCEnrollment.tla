---------------------------- MODULE MCEnrollment ----------------------------
(* Two runtimes in one arrangement, the first in another as well; or, in   *)
(* the other scene, a client listing an account at a mediator.  The two    *)
(* are checked side by side and share nothing: a listing needs the order   *)
(* of the DIDs, which enrolling never looks at.                            *)
EXTENDS Enrollment, TLC

CONSTANTS r1, r2, p1, p2, p3, m1, m2, a1

MCFirstId == (r1 :> p1 @@ r2 :> p2)

MCRoute == (a1 :> m1)

MCSought == (r1 :> {m1, m2} @@ r2 :> {m1})

CONSTANTS None, Peers, Mediators, OrdinaryPeers, Forms, MaxActive, MaxRecipients,
          OpenRegistration, MaxPending, Holders, MaxPage, MaxTime, MaxRegistration

VARIABLES accounts, keylist, pending, replicaAccounts, replicas, recipients,
          now, nextRegistration, registration, addedAt, listing, scene

bookVars == <<accounts, keylist, pending, replicaAccounts, replicas, recipients,
              now, nextRegistration, registration, addedAt, listing>>

Book == INSTANCE MediatorListing

ASSUME ListingAssumption ==
    /\ Peers \subseteq Nat
    /\ Holders \subseteq Peers
    /\ MaxPage \in Nat \ {0}

MCInit == EnrollmentInit /\ Book!Init /\ scene \in {"enrolling", "listing"}

Enrolling == scene = "enrolling" /\ EnrollmentNext /\ UNCHANGED <<scene, bookVars>>

ListingBooks == scene = "listing" /\ Book!Next /\ UNCHANGED <<scene, enrollmentVars>>

MCNext == Enrolling \/ ListingBooks

MCSpec == MCInit /\ [][MCNext]_<<scene, enrollmentVars, bookVars>>

(* MediatorListing's ListedExactlyOnce: a listing gives everything once.   *)
ListedExactlyOnce == Book!ListedExactlyOnce
=============================================================================
