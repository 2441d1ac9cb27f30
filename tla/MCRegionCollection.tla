------------------------ MODULE MCRegionCollection -------------------------
(* Finite instances of RegionCollection and DashboardResponse for TLC.     *)
EXTENDS DashboardResponse, TLC

CONSTANTS rA, rB, routeTables, securityLists

(* A part of what _build_dashboard_snapshot asks for: the tables, the route*)
(* issues, the topology and the posture list a type two or three times.    *)
SomeListings == <<routeTables, routeTables, securityLists, routeTables, securityLists>>

Symmetry == Permutations({rA, rB})
=============================================================================
