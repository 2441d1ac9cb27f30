-------------------------- MODULE MCSnapshotCache --------------------------
(* Finite instances of SnapshotCache for TLC.                              *)
EXTENDS SnapshotCache, TLC

CONSTANTS kA, kB, h1, h2, j1, j2, j3

(* One region at a time, two regions in one request, and a region named    *)
(* twice (split_csv does not remove duplicates).                           *)
SingleKey == {<<kA>>, <<kA, kA>>}
TwoKeys == {<<kA>>, <<kA, kB>>}

Symmetry == Permutations({h1, h2}) \cup Permutations({j1, j2, j3})
=============================================================================
