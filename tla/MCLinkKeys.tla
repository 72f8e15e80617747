---------------------------- MODULE MCLinkKeys ----------------------------
(***************************************************************************)
(* Model checking instances of LinkKeys.                                   *)
(***************************************************************************)
EXTENDS LinkKeys

\* One key at least replaces another, and a window is refilled before the
\* counter ends.
ASSUME InstanceAssumption == MaxKeys >= 2 /\ Window < MaxCounter
=============================================================================
