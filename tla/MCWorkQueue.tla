---------------------------- MODULE MCWorkQueue ----------------------------
(* Small instances of WorkQueue. *)
EXTENDS WorkQueue, TLC

CONSTANTS n1, n2, n3, g1, g2, g3

TwoNames == {n1, n2}
ThreeNames == {n1, n2, n3}
TwoGetters == {g1, g2}
ThreeGetters == {g1, g2, g3}

Symmetry == Permutations(Names) \cup Permutations(Getters)
============================================================================
