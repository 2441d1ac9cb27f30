-------------------------- MODULE MCDashboardPage --------------------------
(* Finite instances of DashboardPage for TLC.                              *)
EXTENDS DashboardPage, TLC

CONSTANTS rA, rB, rC
=============================================================================
