------------------------- MODULE MCMaintenanceCluster -------------------------
(* Groups of machines that require each other, for TLC. *)
EXTENDS MaintenanceCluster

CONSTANTS m1, m2

AllOthers == [m \in Machine |-> Machine \ {m}]
AllPostpone == [m \in Machine |-> "POSTPONE"]
\* The one stays in maintenance when the other is not in service, the other leaves.
Mixed == [m \in Machine |-> IF m = m1 THEN "TEMPFAIL" ELSE "POSTPONE"]
=============================================================================
