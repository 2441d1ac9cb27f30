---------------------------- MODULE MCActionLog ----------------------------
(* Finite instances of ActionLog for TLC.                                  *)
EXTENDS ActionLog, TLC

CONSTANTS a1, a2, a3, a4, t1, t2

Symmetry == Permutations({a1, a2, a3, a4}) \cup Permutations({t1, t2})
=============================================================================
