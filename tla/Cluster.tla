------------------------------ MODULE Cluster ------------------------------
(***************************************************************************)
(* The way of a container from the request that creates it to the worker   *)
(* that runs it: Placement and NodeWatch in one server process on one      *)
(* store.  NodeWatch alone lets any container be assigned to any node at   *)
(* any time; here its assignments are those the scheduler commits, its     *)
(* Notify is the scheduler's step between the commit and Done, and a crash *)
(* takes the queue, the watch map and the handlers away at the same time.  *)
(* ImplementsNodeWatch shows that nothing else reaches the watch.          *)
(***************************************************************************)
EXTENDS Naturals, Sequences, FiniteSets

CONSTANTS
    Containers, ContainerNames, NumNodes, Streams, None,
    MaxTimers, MaxWire, MaxCrashes      \* bounds: see Placement and NodeWatch

VARIABLES
    \* Placement
    stored, reachable, ready, adding, sched, todo, picked, crashes,
    items, dirty, processing, shuttingDown, waiting, woken, serving, stopped, timers,
    \* NodeWatch
    channel, made, closed, at, of, changed, response, wire, broken, conn, seen

P == INSTANCE Placement

ASSUME ClusterAssumption ==
    /\ None \notin P!ContainerRecord
    /\ None \notin P!Nodes \cup Streams
    /\ NumNodes \in Nat
    /\ MaxWire \in Nat \ {0}
    /\ MaxCrashes \in Nat

(* What the watch sees of the store and of the scheduler. *)
AssignedNode(c) ==
    IF c \in P!Present /\ stored[c].node # P!NoNode THEN stored[c].node ELSE None

W == INSTANCE NodeWatch WITH
        Nodes     <- P!Nodes,
        assigned  <- [c \in Containers |-> AssignedNode(c)],
        notifying <- IF picked = P!NoNode THEN None ELSE picked,
        up        <- P!Up

placement == <<stored, reachable, ready, adding, sched, todo, picked, crashes,
               items, dirty, processing, shuttingDown, waiting, woken, serving,
               stopped, timers>>
watch == <<channel, made, closed, at, of, changed, response, wire, broken, conn, seen>>
vars == <<placement, watch>>

Init ==
    /\ P!Init
    /\ channel = [n \in P!Nodes |-> 0]
    /\ made = 0
    /\ closed = {}
    /\ at = [s \in Streams |-> "off"]
    /\ of = [s \in Streams |-> None]
    /\ changed = [s \in Streams |-> 0]
    /\ response = [s \in Streams |-> {}]
    /\ wire = [s \in Streams |-> <<>>]
    /\ broken = {}
    /\ conn = [n \in P!Nodes |-> None]
    /\ seen = [n \in P!Nodes |-> {}]

----------------------------------------------------------------------------
(* Steps that only one of the two takes. *)

Schedules ==
    P!RunLists \/ P!RunAdds \/ P!RunGets \/ P!Assign \/ P!AssignFails
    \/ P!RunRetries \/ P!RunDone

Creates(c) == P!Create(c) /\ UNCHANGED watch
RetryTimer(c) == P!RetryTimer(c) /\ UNCHANGED watch

Reports(n) ==
    /\ \/ P!Report(n, TRUE) \/ P!Report(n, FALSE)
       \/ P!NewSession(n) \/ P!HeartbeatExpires(n)
    /\ UNCHANGED watch

Handles(s) ==
    /\ UNCHANGED placement
    /\ W!StreamReads(s) \/ W!StreamWrites(s) \/ W!StreamWakes(s) \/ W!StreamEnds(s)

ConnectionBreaks(s) == UNCHANGED placement /\ W!ConnectionBreaks(s)

Connects(n) == UNCHANGED placement /\ W!Connect(n)
Receives(n) == UNCHANGED placement /\ W!Receive(n)
ReadFails(n) == UNCHANGED placement /\ W!ReadFails(n)
WorkerRestarts(n) == UNCHANGED placement /\ W!WorkerRestarts(n)

----------------------------------------------------------------------------
(* Steps of both. *)

\* Faulty: run gives the scheduler one NodeWatcher and the API another.
Notify_OtherWatcher == P!Notify /\ UNCHANGED watch

(* The call of Notify in assign: the scheduler's step and the watcher's. *)
Notify == P!Notify /\ W!Notify

SchedulerStep == Notify \/ (Schedules /\ UNCHANGED watch)

Crash == P!Crash /\ W!Crash
Restart == P!Restart /\ W!Restart

Next ==
    \/ \E c \in Containers : Creates(c) \/ RetryTimer(c)
    \/ SchedulerStep
    \/ \E n \in P!Nodes : \/ Reports(n) \/ Connects(n) \/ Receives(n)
                          \/ ReadFails(n) \/ WorkerRestarts(n)
    \/ \E s \in Streams : Handles(s) \/ ConnectionBreaks(s)
    \/ P!Shutdown /\ UNCHANGED watch
    \/ Crash \/ Restart

(* The fairness of Placement, each action in its composed form.  On the     *)
(* side of the watch goroutines that can run do; nothing obliges a          *)
(* connection to break, or anyone to create, report, crash or restart.      *)
Fairness ==
    /\ WF_vars(SchedulerStep)
    /\ \A c \in Containers :
          /\ WF_vars(P!CreateAdd(c) /\ UNCHANGED watch)
          /\ WF_vars(RetryTimer(c))
          /\ SF_vars(P!Assign /\ P!current = c /\ UNCHANGED watch)
    /\ \A s \in Streams : WF_vars(Handles(s))
    /\ \A n \in P!Nodes : WF_vars(Connects(n)) /\ WF_vars(Receives(n)) /\ WF_vars(ReadFails(n))

Safety == Init /\ [][Next]_vars

Spec == Safety /\ Fairness

----------------------------------------------------------------------------
(* Properties *)

(* What the scheduler and the store do to the watch is what NodeWatch       *)
(* assumes: a container is assigned once, exactly one Notify, for the node  *)
(* just committed, follows before the next assignment, and no assignment    *)
(* is ever taken back (scheduler.go:134-152, watch/nodes.go:36-54).         *)
ImplementsNodeWatch == W!Safety

(* What has been created is seen by the worker of its node in the end,      *)
(* whatever crashes, retries, broken streams and restarts come before, once *)
(* the server stays up, some node stays eligible and the nodes keep a       *)
(* connection.                                                              *)
EveryContainerArrives ==
    /\ <>[](P!Up /\ ~shuttingDown)
    /\ <>[](reachable \cap ready # {})
    /\ \A n \in P!Nodes : <>[](conn[n] # None /\ conn[n] \notin broken)
    => \A c \in Containers :
          P!Unassigned(c) ~> (\E n \in P!Nodes : AssignedNode(c) = n /\ c \in seen[n])
============================================================================
