--------------------------- MODULE MCNwkCounter ---------------------------
(***************************************************************************)
(* Model checking instances of NwkCounter. The bounds are CONSTANTS of the *)
(* specification itself (counter width, key sequence numbers, queue), so   *)
(* the configurations only give them values.                               *)
(***************************************************************************)
EXTENDS NwkCounter

\* The instance exercises a reservation below the end of the counter, so
\* that windows are refilled as well as saturated.
ASSUME InstanceAssumption == Window < MaxCounter
=============================================================================
