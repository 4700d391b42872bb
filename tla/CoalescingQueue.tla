-------------------------- MODULE CoalescingQueue --------------------------
(***************************************************************************)
(* What a work queue promises its users, with no lock, no condition        *)
(* variable and no order: a request that arrives before its name starts    *)
(* is merged with the one already pending, a name is never worked on twice *)
(* at a time, and a request that arrives while its name is being worked on *)
(* leads to another round.  internal/queue/queue.go is shown to implement  *)
(* this (WorkQueue.tla).                                                   *)
(***************************************************************************)
CONSTANT Names          \* what can be asked for: container IDs

VARIABLES
    pending,            \* the names some round is still owed to
    active,             \* the names being worked on
    closed              \* no new round starts once this is TRUE

vars == <<pending, active, closed>>

Init ==
    /\ pending = {}
    /\ active = {}
    /\ closed = FALSE

Request(n) ==
    /\ ~closed
    /\ pending' = pending \cup {n}
    /\ UNCHANGED <<active, closed>>

Begin(n) ==
    /\ ~closed
    /\ n \in pending \ active
    /\ pending' = pending \ {n}
    /\ active' = active \cup {n}
    /\ UNCHANGED closed

Finish(n) ==
    /\ n \in active
    /\ active' = active \ {n}
    /\ UNCHANGED <<pending, closed>>

Close ==
    /\ closed' = TRUE
    /\ UNCHANGED <<pending, active>>

Next ==
    \/ \E n \in Names : Request(n) \/ Begin(n) \/ Finish(n)
    \/ Close

Safety == Init /\ [][Next]_vars

Spec == Safety /\ \A n \in Names : WF_vars(Begin(n)) /\ WF_vars(Finish(n))
============================================================================
