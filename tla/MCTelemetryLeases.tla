------------------------- MODULE MCTelemetryLeases -------------------------
(* Finite instances of TelemetryLeases for TLC.                            *)
EXTENDS TelemetryLeases, TLC

CONSTANTS vA, vB, i1, i2, i3, r1, r2

Symmetry == Permutations({vA, vB}) \cup Permutations({i1, i2, i3})
            \cup Permutations({r1, r2})
=============================================================================
