---------------------------- MODULE MCServerInit ----------------------------
(* A small instance of ServerInit for TLC.                                 *)
EXTENDS ServerInit, TLC

CONSTANTS r1, r2, r3

Symmetry == Permutations({r1, r2, r3})
============================================================================
