---------------------------- MODULE MCEnrollment ----------------------------
(* Small instances of Enrollment for TLC.                                  *)
EXTENDS Enrollment, TLC

CONSTANTS d1, d2, p1, p2, t1, t2, east, west, k1, k2, k3, n1, n2, n3

Directories == {d1, d2}
Processes == {p1, p2}
TwoTokens == {t1, t2}
TwoNames == {east, west}
TwoKeys == {k1, k2}
ThreeKeys == {k1, k2, k3}
TwoNodes == {n1, n2}
ThreeNodes == {n1, n2, n3}

Symmetry ==
    Permutations({d1, d2}) \cup Permutations({p1, p2}) \cup Permutations({t1, t2})
    \cup Permutations({east, west}) \cup Permutations({k1, k2, k3})
    \cup Permutations({n1, n2, n3})
============================================================================
