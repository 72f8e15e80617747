--------------------------- MODULE MCAlertQueue ---------------------------
(***************************************************************************)
(* Model checking instances of AlertQueue.                                 *)
(***************************************************************************)
EXTENDS AlertQueue

\* Events can fill the queue and one more can happen, and a queue is opened
\* again after an interruption.
ASSUME InstanceAssumption == MaxEvents > Capacity /\ MaxBoots >= 2
=============================================================================
