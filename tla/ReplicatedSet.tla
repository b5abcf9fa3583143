---------------------------- MODULE ReplicatedSet ----------------------------
(***************************************************************************)
(* What the stores of one vault promise together: each holds a set of      *)
(* events that only grows.  An event enters the vault at one store, once,  *)
(* and reaches another only with a whole snapshot or a copy of the store.  *)
(* A snapshot is begun on a store with no damaged event, while nothing is  *)
(* added to it, and lacks none of its events but such as were damaged      *)
(* between its beginning and its end.                                      *)
(***************************************************************************)
CONSTANT Stores \* the copies of the vault

VARIABLES
    events,    \* what each store holds
    damaged,   \* which of them can no longer be read there
    exporting, \* the stores a snapshot is being made of
    published  \* the cuts of stores that were ever given out

vars == <<events, damaged, exporting, published>>

Init ==
    /\ events = [s \in Stores |-> {}]
    /\ damaged = [s \in Stores |-> {}]
    /\ exporting = {}
    /\ published = {}

(* A store writes events nobody has yet. *)
Write(s) ==
    /\ s \notin exporting
    /\ events[s] \subseteq events'[s]
    /\ events' = [events EXCEPT ![s] = events'[s]]
    /\ \A cut \in published \cup {events[t] : t \in Stores} :
           cut \cap events'[s] \subseteq events[s]
    /\ UNCHANGED <<damaged, exporting, published>>

Begin(s) ==
    /\ s \notin exporting
    /\ damaged[s] = {}
    /\ exporting' = exporting \cup {s}
    /\ UNCHANGED <<events, damaged, published>>

(* Without a snapshot: refused, failed or cut short. *)
End(s) ==
    /\ exporting' = exporting \ {s}
    /\ UNCHANGED <<events, damaged, published>>

Publish(s, cut) ==
    /\ s \in exporting
    /\ events[s] \ cut \subseteq damaged[s]
    /\ exporting' = exporting \ {s}
    /\ published' = published \cup {cut}
    /\ UNCHANGED <<events, damaged>>

(* A store takes a whole cut. *)
Join(s, cut) ==
    /\ s \notin exporting
    /\ events' = [events EXCEPT ![s] = @ \cup cut]
    /\ UNCHANGED <<damaged, exporting, published>>

(* A store begins as a copy of another, with what cannot be read there. *)
Copy(s, t) ==
    /\ events[t] = {}
    /\ {s, t} \cap exporting = {}
    /\ events' = [events EXCEPT ![t] = events[s]]
    /\ damaged' = [damaged EXCEPT ![t] = damaged[s]]
    /\ UNCHANGED <<exporting, published>>

Decay(s) ==
    /\ \E e \in events[s] : damaged' = [damaged EXCEPT ![s] = @ \cup {e}]
    /\ UNCHANGED <<events, exporting, published>>

Next ==
    \E s \in Stores :
        \/ Write(s) \/ Begin(s) \/ End(s) \/ Decay(s)
        \/ \E cut \in SUBSET events[s] : Publish(s, cut)
        \/ \E cut \in published : Join(s, cut)
        \/ \E t \in Stores : Copy(s, t)

Spec == Init /\ [][Next]_vars

=============================================================================
