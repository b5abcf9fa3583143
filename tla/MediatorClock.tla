---------------------------- MODULE MediatorClock ----------------------------
(***************************************************************************)
(* The one clock of a mediator, read by every request that keeps something *)
(* for a time: mail, blobs, execution registrations.  Each of their        *)
(* modules says when it ticks.                                             *)
(***************************************************************************)
EXTENDS MediatorBindings

CONSTANTS MaxTime   \* bound: the clock

ASSUME ClockAssumption == MaxTime \in Nat

VARIABLES now       \* the time a request reads, in ticks
=============================================================================
