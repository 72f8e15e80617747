--------------------------- MODULE MCApsDelivery ---------------------------
(***************************************************************************)
(* Model checking instances of ApsDelivery.                                *)
(***************************************************************************)
EXTENDS ApsDelivery

CONSTANTS P1, P2   \* two peers

TwoPeers == {<<P1, 1>>, <<P2, 1>>}
OnePeer == {<<P1, 1>>}
TwoEndpoints == {<<P1, 1>>, <<P1, 2>>}

\* A message arrives before the sender's acknowledgement timer ends, and no
\* APS counter comes again.
ASSUME InstanceAssumption ==
    MaxDelay < AckWait /\ MaxRequests <= CounterModulus
============================================================================
