------------------------------ MODULE MCStore ------------------------------
(* Two goroutines on two entries; a caller's change turns 0 into 1 and      *)
(* refuses what is 1.                                                       *)
EXTENDS Store

CONSTANTS c1, c2, k1, k2

MCChange == [v \in Values |-> IF v = 0 THEN 1 ELSE None]

\* Like the functions of the API and the scheduler: a name looked up and then
\* created, a token read and rewritten after another entry was created, and an
\* update of what the same function has deleted.
MCFunctions ==
    { <<[op |-> "list"], [op |-> "create", key |-> k1, value |-> 0]>>,
      <<[op |-> "get", key |-> k1], [op |-> "create", key |-> k2, value |-> 0],
        [op |-> "update", key |-> k1]>>,
      <<[op |-> "get", key |-> k1], [op |-> "delete", key |-> k2],
        [op |-> "update", key |-> k2]>> }
============================================================================
