-------------------------- MODULE MCInboundReceiver --------------------------
(* One attachment and one direct post, for the same recipient or for two.  *)
EXTENDS InboundReceiver, TLC

CONSTANTS p1, r1, r2

MCRecipientOf == [d \in Deliveries |-> IF d = p1 THEN r1 ELSE r2]
MCSizeOf == [d \in Deliveries |-> 1]
=============================================================================
