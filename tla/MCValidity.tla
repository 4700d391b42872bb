---------------------------- MODULE MCValidity ----------------------------
(* A small instance of Validity for TLC.                                   *)
EXTENDS Validity

CONSTANTS n1

OneNode == {n1}
============================================================================
