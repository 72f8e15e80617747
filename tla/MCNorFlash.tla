---------------------------- MODULE MCNorFlash ----------------------------
(***************************************************************************)
(* Model checking instances of NorFlash.                                   *)
(***************************************************************************)
EXTENDS NorFlash, TLC

CONSTANTS C1, C2   \* two children

\* Two records of one kind.
TwoKeys == {<<"children", C1>>, <<"children", C2>>}

\* Record contents and identifiers are compared for equality only.
Symmetry == Permutations(Values) \cup Permutations({C1, C2})

\* The live records can fill a half, so that both Full and a successful
\* compaction happen.
ASSUME InstanceAssumption == Cardinality(Keys) >= Slots
=============================================================================
