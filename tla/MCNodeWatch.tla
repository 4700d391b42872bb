---------------------------- MODULE MCNodeWatch ----------------------------
(* Small instances of NodeWatch for TLC.                                   *)
EXTENDS NodeWatch, TLC

CONSTANTS n1, n2, c1, c2, s1, s2, s3

OneNode == {n1}
TwoNodes == {n1, n2}
TwoContainers == {c1, c2}
TwoStreams == {s1, s2}
ThreeStreams == {s1, s2, s3}

Symmetry == Permutations({n1, n2}) \cup Permutations({c1, c2})
            \cup Permutations({s1, s2, s3})
============================================================================
