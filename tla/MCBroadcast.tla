---------------------------- MODULE MCBroadcast ----------------------------
(***************************************************************************)
(* Model checking instances of Broadcast: three routers in a line or in    *)
(* a triangle, and two broadcasts from different routers.                  *)
(***************************************************************************)
EXTENDS Broadcast

CONSTANTS R1, R2, R3   \* routers; a broadcast is named by its source

Line == {{R1, R2}, {R2, R3}}
Triangle == Line \cup {{R1, R3}}
LineAndTriangle == {Line, Triangle}
Itself(x) == x

\* A router waits for every other one, also for one that does not hear it.
\* But R1 may wait for nobody, as with passive acknowledgement off, and R2 may
\* have no outgoing cost for R1 yet.
Everyone == [n \in Nodes |-> Nodes]
Fewer == [Everyone EXCEPT ![R1] = {}, ![R2] = {R3}]
EveryoneOrFewer == {Everyone, Fewer}

ASSUME InstanceAssumption == RecordsOutlive
============================================================================
