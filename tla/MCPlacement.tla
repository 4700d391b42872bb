---------------------------- MODULE MCPlacement ----------------------------
(* Small instances of Placement for TLC.                                   *)
EXTENDS Placement, TLC

CONSTANTS c1, c2, c3, web, db

TwoContainers == {c1, c2}
ThreeContainers == {c1, c2, c3}
TwoNames == {web, db}

Symmetry == Permutations({c1, c2, c3}) \cup Permutations({web, db})
============================================================================
