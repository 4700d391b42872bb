--------------------------- MODULE MCServeLifecycle ---------------------------
(***************************************************************************)
(* Instances of ServeLifecycle for TLC.                                    *)
(***************************************************************************)
EXTENDS ServeLifecycle

CONSTANTS r1, r2
===============================================================================
