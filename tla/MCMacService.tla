---------------------------- MODULE MCMacService ----------------------------
(***************************************************************************)
(* Model checking instances of MacService.                                 *)
(***************************************************************************)
EXTENDS MacService

\* No sequence number comes again: a node builds a frame for each request it
\* accepts or refuses and two for an association.
ASSUME InstanceAssumption == SeqModulus > MaxIds + 2 * MaxAttempts
============================================================================
