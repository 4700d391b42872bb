--------------------------- MODULE ClusterProofs ---------------------------
(***************************************************************************)
(* Cluster implements NodeWatch, for any containers, names, number of      *)
(* nodes, streams and bounds: what the scheduler and the store do is what  *)
(* NodeWatch lets happen to the watch, so what is proved of NodeWatch      *)
(* holds of the whole server.                                              *)
(*                                                                         *)
(* In NodeWatch an assignment is a step, and its Notify is due until it    *)
(* comes.  Here a retry, a report, a late Add or a restart may come in     *)
(* between, and the commit may find the container assigned already.  The   *)
(* invariant says that the scheduler owes a notification (picked) only     *)
(* between the commit of an assignment and its Notify.                     *)
(***************************************************************************)
EXTENDS Cluster, TLAPS

StoredOK == stored \in [Containers -> P!ContainerRecord \cup {None}]

OwesOnlyAfterCommit ==
    /\ picked \in P!Nodes \cup {P!NoNode}
    /\ picked # P!NoNode => sched = "notify"

IInv == StoredOK /\ OwesOnlyAfterCommit

(* The node of each container: what NodeWatch calls assigned. *)
assignedNode == [c \in Containers |-> AssignedNode(c)]

(* NodeWatchProofs for the same substitution as W. *)
WP == INSTANCE NodeWatchProofs WITH
        Nodes     <- P!Nodes,
        assigned  <- [c \in Containers |-> AssignedNode(c)],
        notifying <- IF picked = P!NoNode THEN None ELSE picked,
        up        <- P!Up

LEMMA NoNodeIsNotANode == P!NoNode \notin P!Nodes
BY ClusterAssumption DEF P!NoNode, P!Nodes

LEMMA InitIInv == Init => IInv
BY DEF Init, P!Init, IInv, StoredOK, OwesOnlyAfterCommit

----------------------------------------------------------------------------
(* What a step of Placement does to the part that the watch sees. *)

Quiet == UNCHANGED <<assignedNode, picked>> /\ P!Up' = P!Up /\ UNCHANGED crashes

Commits ==
    /\ P!Up /\ P!Up'
    /\ picked = P!NoNode
    /\ \E c \in Containers, n \in P!Nodes :
          /\ assignedNode[c] = None
          /\ assignedNode' = [assignedNode EXCEPT ![c] = n]
          /\ picked' = n
    /\ UNCHANGED crashes

LEMMA SameStoreIsQuiet ==
    ASSUME UNCHANGED <<stored, picked, crashes>>, P!Up' = P!Up
    PROVE  Quiet
BY DEF Quiet, assignedNode, AssignedNode, P!Present

(* A container is stored without a node. *)
LEMMA CreateIsQuiet ==
    ASSUME IInv, NEW c \in Containers, P!Create(c)
    PROVE  IInv' /\ Quiet
<1>1. CASE P!CreateAdd(c)
  BY <1>1, SameStoreIsQuiet
     DEF P!CreateAdd, P!store, P!Up, IInv, StoredOK, OwesOnlyAfterCommit
<1>2. CASE P!CreateCommit(c)
  <2>1. PICK name \in ContainerNames : stored' = [stored EXCEPT ![c] = P!New(name)]
    BY <1>2 DEF P!CreateCommit
  <2>2. P!New(name) \in P!ContainerRecord /\ P!New(name).node = P!NoNode
    BY DEF P!New, P!ContainerRecord
  <2>3. UNCHANGED <<sched, picked, crashes>> /\ stored[c] = None
    BY <1>2 DEF P!CreateCommit, P!Present
  <2>4. IInv'
    BY <2>1, <2>2, <2>3 DEF IInv, StoredOK, OwesOnlyAfterCommit
  <2>5. \A d \in Containers : AssignedNode(d)' = AssignedNode(d)
    BY <2>1, <2>2, <2>3 DEF IInv, StoredOK, AssignedNode, P!Present
  <2>6. QED
    BY <2>3, <2>4, <2>5 DEF Quiet, assignedNode, P!Up
<1>3. QED
  BY <1>1, <1>2 DEF P!Create

(* A report leaves the node of a container alone. *)
LEMMA ReportIsQuiet ==
    ASSUME IInv, NEW n \in P!Nodes,
           \/ P!Report(n, TRUE) \/ P!Report(n, FALSE)
           \/ P!NewSession(n) \/ P!HeartbeatExpires(n)
    PROVE  IInv' /\ Quiet
<1>1. UNCHANGED <<sched, picked, crashes>>
  BY DEF P!Report, P!NewSession, P!HeartbeatExpires
<1>2. CASE UNCHANGED stored
  BY <1>1, <1>2, SameStoreIsQuiet DEF P!Up, IInv, StoredOK, OwesOnlyAfterCommit
<1>3. CASE ~UNCHANGED stored
  <2>1. PICK c \in P!Present, state \in {"pending", "running", "exited"} :
            stored' = [stored EXCEPT ![c] = [@ EXCEPT !.state = state, !.noNode = FALSE]]
    BY <1>3 DEF P!Report, P!NewSession, P!HeartbeatExpires
  <2> DEFINE r == [stored[c] EXCEPT !.state = state, !.noNode = FALSE]
  <2>2. c \in Containers /\ stored[c] # None /\ stored[c] \in P!ContainerRecord
    BY DEF P!Present, IInv, StoredOK
  <2>3. r \in P!ContainerRecord /\ r.node = stored[c].node
    BY <2>2 DEF P!ContainerRecord
  <2>4. r # None
    BY <2>3, ClusterAssumption
  <2>5. stored' = [stored EXCEPT ![c] = r]
    BY <2>1
  <2> HIDE DEF r
  <2>6. IInv'
    BY <1>1, <2>3, <2>5 DEF IInv, StoredOK, OwesOnlyAfterCommit
  <2>7. \A d \in Containers : AssignedNode(d)' = AssignedNode(d)
    BY <2>2, <2>3, <2>4, <2>5 DEF IInv, StoredOK, AssignedNode, P!Present
  <2>8. QED
    BY <1>1, <2>6, <2>7 DEF Quiet, assignedNode, P!Up
<1>4. QED
  BY <1>2, <1>3

(* The transaction of assign looks at the container again, so it either     *)
(* commits an assignment of a container that has no node, or changes        *)
(* nothing that the watch sees.                                             *)
LEMMA AssignCommits ==
    ASSUME IInv, P!Assign
    PROVE  IInv' /\ (Quiet \/ Commits)
<1>1. sched = "assign" /\ picked = P!NoNode /\ UNCHANGED crashes
  BY DEF P!Assign, IInv, OwesOnlyAfterCommit
<1>2. CASE P!AssignSkips
  BY <1>1, <1>2, SameStoreIsQuiet
     DEF P!AssignSkips, P!Up, IInv, StoredOK, OwesOnlyAfterCommit
<1>3. CASE P!Unassigned(P!current) /\ P!AssignPicks
  <2> PICK c \in Containers : c = P!current
    BY <1>3 DEF P!Unassigned, P!Present
  <2>1. PICK n \in P!Nodes :
            /\ stored' = [stored EXCEPT ![c] = [@ EXCEPT !.node = n, !.noNode = FALSE]]
            /\ picked' = n /\ sched' = "notify"
    BY <1>3 DEF P!AssignPicks
  <2> DEFINE r == [stored[c] EXCEPT !.node = n, !.noNode = FALSE]
  <2>2. /\ c \in Containers /\ stored[c] # None /\ stored[c] \in P!ContainerRecord
        /\ stored[c].node = P!NoNode
    BY <1>3 DEF P!Unassigned, P!Present, IInv, StoredOK
  <2>3. r \in P!ContainerRecord /\ r.node = n
    BY <2>2 DEF P!ContainerRecord
  <2>4. r # None /\ n # P!NoNode
    BY <2>3, ClusterAssumption, NoNodeIsNotANode
  <2>5. stored' = [stored EXCEPT ![c] = r]
    BY <2>1
  <2> HIDE DEF r
  <2>6. IInv'
    BY <2>1, <2>2, <2>3, <2>5 DEF IInv, StoredOK, OwesOnlyAfterCommit
  <2>7. AssignedNode(c) = None /\ AssignedNode(c)' = n
    BY <2>2, <2>3, <2>4, <2>5 DEF IInv, StoredOK, AssignedNode, P!Present
  <2>8. \A d \in Containers \ {c} : AssignedNode(d)' = AssignedNode(d)
    BY <2>5 DEF IInv, StoredOK, AssignedNode, P!Present
  <2>9. assignedNode[c] = None /\ assignedNode' = [assignedNode EXCEPT ![c] = n]
    BY <2>2, <2>7, <2>8 DEF assignedNode
  <2>10. Commits
    BY <1>1, <2>1, <2>2, <2>9 DEF Commits, P!Up
  <2>11. QED
    BY <2>6, <2>10
<1>4. CASE P!Unassigned(P!current) /\ P!AssignFindsNone
  <2> PICK c \in Containers : c = P!current
    BY <1>4 DEF P!Unassigned, P!Present
  <2> DEFINE r == [stored[c] EXCEPT !.noNode = TRUE]
  <2>1. stored' = [stored EXCEPT ![c] = r] /\ UNCHANGED picked /\ sched' = "retry"
    BY <1>4 DEF P!AssignFindsNone
  <2>2. c \in Containers /\ stored[c] # None /\ stored[c] \in P!ContainerRecord
    BY <1>4 DEF P!Unassigned, P!Present, IInv, StoredOK
  <2>3. r \in P!ContainerRecord /\ r.node = stored[c].node
    BY <2>2 DEF P!ContainerRecord
  <2>4. r # None
    BY <2>3, ClusterAssumption
  <2> HIDE DEF r
  <2>5. IInv'
    BY <1>1, <2>1, <2>3 DEF IInv, StoredOK, OwesOnlyAfterCommit
  <2>6. \A d \in Containers : AssignedNode(d)' = AssignedNode(d)
    BY <2>1, <2>2, <2>3, <2>4 DEF IInv, StoredOK, AssignedNode, P!Present
  <2>7. QED
    BY <1>1, <2>1, <2>5, <2>6 DEF Quiet, assignedNode, P!Up
<1>5. QED
  BY <1>2, <1>3, <1>4 DEF P!Assign

(* The other steps of the scheduler are quiet, except for Notify. *)
LEMMA ScheduleIsQuiet ==
    ASSUME IInv,
           \/ P!RunLists \/ P!RunAdds \/ P!RunGets
           \/ P!AssignFails \/ P!RunRetries \/ P!RunDone
    PROVE  IInv' /\ Quiet
<1>1. UNCHANGED <<stored, picked, crashes>> /\ picked = P!NoNode /\ P!Up' = P!Up
  BY DEF P!RunLists, P!RunAdds, P!RunGets, P!AssignFails, P!RunRetries, P!RunDone,
         P!store, P!Up, IInv, OwesOnlyAfterCommit
<1>2. QED
  BY <1>1, SameStoreIsQuiet DEF IInv, StoredOK, OwesOnlyAfterCommit

----------------------------------------------------------------------------
(* A quiet step with the watch unchanged is a stutter of NodeWatch, and a   *)
(* commit with the watch unchanged is its CommitAssignment.                 *)

LEMMA WatchStutters ==
    ASSUME Quiet, UNCHANGED watch
    PROVE  UNCHANGED W!vars
BY DEF Quiet, watch, assignedNode, W!vars, W!watcher, W!streams, W!workers

LEMMA WatchCommits ==
    ASSUME IInv, Commits, UNCHANGED watch
    PROVE  W!Next
<1>1. PICK c \in Containers, n \in P!Nodes :
          /\ assignedNode[c] = None
          /\ assignedNode' = [assignedNode EXCEPT ![c] = n]
          /\ picked' = n
  BY DEF Commits
<1>2. n # P!NoNode
  BY NoNodeIsNotANode
<1>3. W!CommitAssignment(c, n)
  BY <1>1, <1>2
     DEF W!CommitAssignment, Commits, watch, assignedNode, W!watcher, W!streams, W!workers
<1>4. QED
  BY <1>1, <1>3 DEF W!Next

LEMMA NextStep ==
    ASSUME IInv, [Next]_vars
    PROVE  IInv' /\ [W!Next]_(W!vars)
<1>1. ASSUME NEW c \in Containers, Creates(c)
      PROVE  IInv' /\ UNCHANGED W!vars
  BY <1>1, CreateIsQuiet, WatchStutters DEF Creates
<1>2. ASSUME NEW c \in Containers, RetryTimer(c)
      PROVE  IInv' /\ UNCHANGED W!vars
  <2>1. UNCHANGED <<stored, sched, picked, crashes, watch>>
    BY <1>2 DEF RetryTimer, P!RetryTimer, P!store
  <2>2. Quiet
    BY <2>1, SameStoreIsQuiet DEF P!Up
  <2>3. QED
    BY <2>1, <2>2, WatchStutters DEF IInv, StoredOK, OwesOnlyAfterCommit
<1>3. ASSUME Schedules, UNCHANGED watch
      PROVE  IInv' /\ [W!Next]_(W!vars)
  BY <1>3, ScheduleIsQuiet, AssignCommits, WatchStutters, WatchCommits DEF Schedules
<1>4. ASSUME Notify
      PROVE  IInv' /\ W!Next
  BY <1>4 DEF Notify, P!Notify, P!store, W!Next, IInv, StoredOK, OwesOnlyAfterCommit
<1>5. ASSUME NEW n \in P!Nodes, Reports(n)
      PROVE  IInv' /\ UNCHANGED W!vars
  BY <1>5, ReportIsQuiet, WatchStutters DEF Reports
<1>6. ASSUME NEW n \in P!Nodes,
             Connects(n) \/ Receives(n) \/ ReadFails(n) \/ WorkerRestarts(n)
      PROVE  IInv' /\ W!Next
  BY <1>6 DEF Connects, Receives, ReadFails, WorkerRestarts, placement, W!Next,
              IInv, StoredOK, OwesOnlyAfterCommit
<1>7. ASSUME NEW s \in Streams, Handles(s) \/ ConnectionBreaks(s)
      PROVE  IInv' /\ W!Next
  BY <1>7 DEF Handles, ConnectionBreaks, placement, W!Next,
              IInv, StoredOK, OwesOnlyAfterCommit
<1>8. ASSUME P!Shutdown, UNCHANGED watch
      PROVE  IInv' /\ UNCHANGED W!vars
  <2>1. UNCHANGED <<stored, sched, picked, crashes>>
    BY <1>8 DEF P!Shutdown, P!store
  <2>2. Quiet
    BY <2>1, SameStoreIsQuiet DEF P!Up
  <2>3. QED
    BY <1>8, <2>1, <2>2, WatchStutters DEF IInv, StoredOK, OwesOnlyAfterCommit
<1>9. ASSUME Crash \/ Restart
      PROVE  IInv' /\ W!Next
  BY <1>9 DEF Crash, Restart, P!Crash, P!Restart, P!store, W!Next,
              IInv, StoredOK, OwesOnlyAfterCommit
<1>10. CASE UNCHANGED vars
  <2>1. UNCHANGED <<stored, sched, picked, crashes, watch>>
    BY <1>10 DEF vars, placement
  <2>2. Quiet
    BY <2>1, SameStoreIsQuiet DEF P!Up
  <2>3. QED
    BY <2>1, <2>2, WatchStutters DEF IInv, StoredOK, OwesOnlyAfterCommit
<1>11. QED
  BY <1>1, <1>2, <1>3, <1>4, <1>5, <1>6, <1>7, <1>8, <1>9, <1>10 DEF Next, SchedulerStep

----------------------------------------------------------------------------
(* A container is assigned once, one Notify for the node just committed     *)
(* follows before the next assignment, and no assignment is ever taken      *)
(* back: the composition of scheduler, store, API and watch does nothing to *)
(* the watch that NodeWatch does not let happen (scheduler.go:134-152,      *)
(* watch/nodes.go:36-54).                                                   *)
THEOREM ClusterImplementsNodeWatch == Safety => ImplementsNodeWatch
<1>1. Init => W!Init
  BY DEF Init, P!Init, W!Init, AssignedNode, P!Present, P!Up
<1>2. IInv /\ [Next]_vars => IInv' /\ [W!Next]_(W!vars)
  BY NextStep
<1>3. QED
  BY <1>1, <1>2, InitIInv, PTL DEF Safety, ImplementsNodeWatch, W!Safety

----------------------------------------------------------------------------
(* Cluster's own instance of NodeWatch is the one NodeWatchProofs is about. *)
LEMMA SameWatch ==
    /\ W!Init <=> WP!Init
    /\ [W!Next]_(W!vars) <=> [WP!Next]_(WP!vars)
    /\ W!NoMissedChange <=> WP!NoMissedChange
    /\ UNCHANGED W!vars <=> UNCHANGED WP!vars
    /\ \A n \in P!Nodes : W!WorkerRestarts(n) <=> WP!WorkerRestarts(n)
<1>1. W!Init <=> WP!Init
  BY DEF W!Init, WP!Init
<1>2. W!Next <=> WP!Next
  BY DEF
     W!CommitAssignment, WP!CommitAssignment, W!Notify, WP!Notify, W!Gone,
     WP!Gone, W!TakeChannel, WP!TakeChannel, W!StreamWatches,
     WP!StreamWatches, W!StreamLists, WP!StreamLists, W!StreamReads,
     WP!StreamReads, W!StreamWrites, WP!StreamWrites, W!StreamWakes,
     WP!StreamWakes, W!StreamEnds, WP!StreamEnds, W!Connect, WP!Connect,
     W!Receive, WP!Receive, W!ReadFails, WP!ReadFails, W!ConnectionBreaks,
     WP!ConnectionBreaks, W!WorkerRestarts, WP!WorkerRestarts, W!Crash,
     WP!Crash, W!Restart, WP!Restart, W!AssignedTo, WP!AssignedTo, W!watcher,
     WP!watcher, W!streams, WP!streams, W!workers, WP!workers, W!vars,
     WP!vars, W!Next, WP!Next
<1>3. UNCHANGED W!vars <=> UNCHANGED WP!vars
  BY DEF W!vars, WP!vars, W!watcher, WP!watcher, W!streams, WP!streams,
         W!workers, WP!workers
<1>4. W!NoMissedChange <=> WP!NoMissedChange
  BY DEF W!NoMissedChange, WP!NoMissedChange, W!AssignedTo, WP!AssignedTo
<1>5. \A n \in P!Nodes : W!WorkerRestarts(n) <=> WP!WorkerRestarts(n)
  BY DEF W!WorkerRestarts, WP!WorkerRestarts, W!watcher, WP!watcher
<1>6. QED
  BY <1>1, <1>2, <1>3, <1>4, <1>5

LEMMA WatchAssumption == WP!NodeWatchAssumption
BY ClusterAssumption DEF WP!NodeWatchAssumption, P!Nodes

LEMMA WatchSafety == Safety => WP!Safety
<1>1. W!Safety => WP!Safety
  BY SameWatch, PTL DEF W!Safety, WP!Safety
<1>2. QED
  BY <1>1, ClusterImplementsNodeWatch DEF ImplementsNodeWatch

(* In the server as a whole, with its scheduler, its retries and its        *)
(* restarts, a watch handler that nobody will wake has written everything   *)
(* its node has (watchNodeHandler takes the channel before it lists).       *)
THEOREM ClusterNoMissedChange == Safety => []W!NoMissedChange
<1>1. WP!Safety => []WP!NoMissedChange
  BY WP!NodeWatchNoMissedChange, WatchAssumption
<1>2. QED
  BY <1>1, WatchSafety, SameWatch, PTL

(* In the server as a whole a worker sees its assignments only grow, unless *)
(* it restarts: assign never takes one back, and no old snapshot overtakes  *)
(* a newer one.                                                             *)
THEOREM ClusterSeenOnlyGrows == Safety => W!SeenOnlyGrows
<1>1. WP!Safety => WP!SeenOnlyGrows
  BY WP!NodeWatchSeenOnlyGrows, WatchAssumption
<1>2. [\A n \in P!Nodes : seen[n] \subseteq seen'[n] \/ WP!WorkerRestarts(n)]_(WP!vars)
      => [\A n \in P!Nodes : seen[n] \subseteq seen'[n] \/ W!WorkerRestarts(n)]_(W!vars)
  BY SameWatch
<1>3. WP!SeenOnlyGrows => W!SeenOnlyGrows
  BY <1>2, PTL DEF W!SeenOnlyGrows, WP!SeenOnlyGrows
<1>4. QED
  BY <1>1, <1>3, WatchSafety

SeenIsPlaced ==
    \A n \in P!Nodes : \A c \in seen[n] :
        c \in Containers /\ stored[c] # None /\ stored[c].node = n

(* What a worker has been told to run is placed on its node in the store,   *)
(* through restarts of the server and handlers that outlive their client.   *)
THEOREM ClusterSeenIsPlaced == Safety => []SeenIsPlaced
<1>1. WP!Safety => []WP!SeenIsAssigned
  BY WP!NodeWatchSeenIsAssigned, WatchAssumption
<1>2. WP!SeenIsAssigned => SeenIsPlaced
  BY ClusterAssumption
     DEF WP!SeenIsAssigned, WP!AssignedTo, SeenIsPlaced, AssignedNode, P!Present
<1>3. QED
  BY <1>1, <1>2, WatchSafety, PTL

NoTwoNodesRunOne ==
    \A m, n \in P!Nodes : m # n => seen[m] \cap seen[n] = {}

(* No two workers are ever told to run the same container: assign gives it  *)
(* a node once, and no worker acts on anything that is not in the store.    *)
THEOREM ClusterNoTwoNodesRunOne == Safety => []NoTwoNodesRunOne
<1>1. SeenIsPlaced => NoTwoNodesRunOne
  BY DEF SeenIsPlaced, NoTwoNodesRunOne
<1>2. QED
  BY <1>1, ClusterSeenIsPlaced, PTL
============================================================================
