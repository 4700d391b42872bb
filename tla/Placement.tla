----------------------------- MODULE Placement -----------------------------
(***************************************************************************)
(* How a container gets a node: the create handler of                      *)
(* internal/api/containers.go stores a container and queues its ID, the    *)
(* scheduler of internal/scheduler/scheduler.go takes IDs from the queue   *)
(* (WorkQueue) and writes the node it picks to the store.  Both run in one *)
(* process, which may crash between any two steps: the store survives, the *)
(* queue, its timers and both goroutines do not, and the scheduler queues  *)
(* what it finds in the store when it starts again.                        *)
(*                                                                         *)
(* A bolt write transaction is one action: bolt runs one at a time, its    *)
(* reads and writes belong together and it is durable once it returns.     *)
(* Node reports are their effect on the store (see reportNodeStatusHandler *)
(* in nodes.go); a report that is stale or refused changes nothing.        *)
(***************************************************************************)
EXTENDS Naturals, Sequences, FiniteSets

CONSTANTS
    Containers,     \* container IDs the create handler may generate
    ContainerNames, \* names users ask for
    NumNodes,       \* the nodes are 1..NumNodes, in the key order of the store
    None,           \* no such entry in the store
    MaxTimers,      \* bound of WorkQueue: retry goroutines of one container
    MaxCrashes      \* bound: how often the server goes down

Nodes == 1..NumNodes
NoNode == 0

ContainerRecord ==
    [name : ContainerNames, node : Nodes \cup {NoNode},
     state : {"pending", "running", "exited"},
     noNode : BOOLEAN]              \* Reason is NoReachableNodes

ASSUME PlacementAssumption ==
    /\ None \notin Containers
    /\ None \notin ContainerRecord
    /\ NumNodes \in Nat
    /\ MaxTimers \in Nat
    /\ MaxCrashes \in Nat

VARIABLES
    stored,         \* containers collection: a record or None
    reachable,      \* nodes whose LastSeenAt is younger than heartbeatMaxAge
    ready,          \* nodes with RuntimeReady
    adding,         \* create handlers between their commit and the Add
    sched,          \* what the scheduler goroutine does next
    todo,           \* entries the startup loop has still to add
    picked,         \* assignedNodeID: the node to notify, or NoNode
    crashes,        \* how often the server went down
    items, dirty, processing, shuttingDown, waiting, woken, serving, stopped, timers

store == <<stored, reachable, ready>>
queue == <<items, dirty, processing, shuttingDown, waiting, woken, serving,
           stopped, timers>>
vars == <<store, adding, sched, todo, picked, crashes, queue>>

Scheduler == "scheduler"
Q == INSTANCE WorkQueue WITH
        Names <- Containers, Getters <- {Scheduler}, NoName <- None

current == serving[Scheduler]       \* containerID in the loop of Run

Present == {c \in Containers : stored[c] # None}

(* The test of the startup loop and, negated, of assign: this container     *)
(* still needs a node.                                                      *)
Unassigned(c) ==
    /\ c \in Present
    /\ stored[c].node = NoNode
    /\ stored[c].state = "pending"

Init ==
    /\ stored = [c \in Containers |-> None]
    /\ reachable = {}
    /\ ready = {}
    /\ adding = {}
    /\ sched = "list"
    /\ todo = {}
    /\ picked = NoNode
    /\ crashes = 0
    /\ Q!Init

----------------------------------------------------------------------------
(* createContainerHandler: the transaction that checks the name and stores  *)
(* the container, then the Add.                                             *)

Up == sched # "off"

NameTaken(name) == \E c \in Present : stored[c].name = name

New(name) == [name |-> name, node |-> NoNode, state |-> "pending", noNode |-> FALSE]

CreateCommit(c) ==
    /\ Up
    /\ c \notin Present
    /\ \E name \in ContainerNames :
          /\ ~NameTaken(name)
          /\ stored' = [stored EXCEPT ![c] = New(name)]
    /\ adding' = adding \cup {c}
    /\ UNCHANGED <<reachable, ready, sched, todo, picked, crashes, queue>>

CreateAdd(c) ==
    /\ Up
    /\ c \in adding
    /\ adding' = adding \ {c}
    /\ Q!Add(c)
    /\ UNCHANGED <<store, sched, todo, picked, crashes>>

\* Faulty: the ID is queued before the container is in the store.
Create_AddFirst(c) ==
    /\ Up
    /\ c \notin Present
    /\ \/ /\ c \notin adding
          /\ adding' = adding \cup {c}
          /\ Q!Add(c)
          /\ UNCHANGED stored
       \/ /\ c \in adding
          /\ adding' = adding \ {c}
          /\ \E name \in ContainerNames :
                /\ ~NameTaken(name)
                /\ stored' = [stored EXCEPT ![c] = New(name)]
          /\ UNCHANGED queue
    /\ UNCHANGED <<reachable, ready, sched, todo, picked, crashes>>

Create(c) == CreateCommit(c) \/ CreateAdd(c)

----------------------------------------------------------------------------
(* Run: the startup loop over one List of the containers.  The API server   *)
(* already serves requests.  The order of the Adds is the key order of      *)
(* random IDs, so any order.                                                *)

RunLists ==
    /\ sched = "list"
    /\ sched' = "hydrate"
    /\ todo' = {c \in Containers : Unassigned(c)}
    /\ UNCHANGED <<store, adding, picked, crashes, queue>>

RunAdds ==
    /\ sched = "hydrate"
    /\ \/ /\ todo = {}
          /\ sched' = "get"
          /\ UNCHANGED <<todo, queue>>
       \/ \E c \in todo :
             /\ todo' = todo \ {c}
             /\ Q!Add(c)
             /\ UNCHANGED sched
    /\ UNCHANGED <<store, adding, picked, crashes>>

RunGets ==
    /\ sched = "get"
    /\ Q!Get(Scheduler)
    /\ sched' = IF serving'[Scheduler] # None THEN "assign"
                ELSE IF Scheduler \in stopped' THEN "returned" ELSE "get"
    /\ UNCHANGED <<store, adding, todo, picked, crashes>>

----------------------------------------------------------------------------
(* assign: the choice of a node. *)

Eligible == reachable \cap ready

\* Faulty: a container that waits to start on its node does not count.
Count_OnlyRunning(n) ==
    Cardinality({c \in Present : stored[c].node = n /\ stored[c].state = "running"})

(* counts[n] *)
Count(n) ==
    Cardinality({c \in Present : stored[c].node = n /\ stored[c].state # "exited"})

Candidate(n) == n \in Eligible

(* The body of the loop over the nodes: selectedNodeID after node i. *)
Better(i, best) ==
    IF Candidate(i) /\ (best = NoNode \/ Count(i) < Count(best)) THEN i ELSE best

(* The loop in key order: selectedNodeID after the first i nodes. *)
Selected[i \in 0..NumNodes] ==
    IF i = 0 THEN NoNode ELSE Better(i, Selected[i - 1])

SelectedNode == Selected[NumNodes]

----------------------------------------------------------------------------
(* assign: the transaction, for the container the scheduler has got. *)

AssignSkips ==
    /\ ~Unassigned(current)
    /\ sched' = "done"
    /\ UNCHANGED <<stored, picked>>

AssignPicks ==
    /\ \E n \in Nodes :
          /\ n = SelectedNode
          /\ stored' = [stored EXCEPT ![current] = [@ EXCEPT !.node = n, !.noNode = FALSE]]
          /\ picked' = n
    /\ sched' = "notify"

AssignFindsNone ==
    /\ SelectedNode = NoNode
    /\ stored' = [stored EXCEPT ![current].noNode = TRUE]
    /\ sched' = "retry"
    /\ UNCHANGED picked

\* Faulty: assigns without looking at the container again.
Assign_NoRecheck ==
    /\ sched = "assign"
    /\ \/ current \in Present /\ (AssignPicks \/ AssignFindsNone)
       \/ current \notin Present /\ AssignSkips
    /\ UNCHANGED <<reachable, ready, adding, todo, crashes, queue>>

Assign ==
    /\ sched = "assign"
    /\ \/ AssignSkips
       \/ Unassigned(current) /\ (AssignPicks \/ AssignFindsNone)
    /\ UNCHANGED <<reachable, ready, adding, todo, crashes, queue>>

(* The transaction fails and is rolled back. *)
AssignFails ==
    /\ sched = "assign"
    /\ sched' = "retry"
    /\ UNCHANGED <<store, adding, todo, picked, crashes, queue>>

(* nodeWatcher.Notify(assignedNodeID), after the commit. *)
Notify ==
    /\ sched = "notify"
    /\ picked' = NoNode
    /\ sched' = "done"
    /\ UNCHANGED <<store, adding, todo, crashes, queue>>

(* AddAfter(containerID, retryDelay), then Done(containerID). *)
RunRetries ==
    /\ sched = "retry"
    /\ Q!AddAfter(current)
    /\ sched' = "done"
    /\ UNCHANGED <<store, adding, todo, picked, crashes>>

RunDone ==
    /\ sched = "done"
    /\ Q!Done(Scheduler)
    /\ sched' = "get"
    /\ UNCHANGED <<store, adding, todo, picked, crashes>>

\* Faulty: the goroutine of AddAfter adds the ID every ten seconds.
RetryTimer_Ticks(c) ==
    /\ timers[c] > 0
    /\ Q!Add(c)
    /\ UNCHANGED <<store, adding, sched, todo, picked, crashes>>

(* The goroutine of AddAfter. *)
RetryTimer(c) ==
    /\ Q!DelayEnds(c)
    /\ UNCHANGED <<store, adding, sched, todo, picked, crashes>>

----------------------------------------------------------------------------
(* What the nodes do to the store. *)

Rank(state) == CASE state = "pending" -> 0
                 [] state = "running" -> 1
                 [] state = "exited"  -> 2

(* Not a backward lifecycle transition. *)
Accepts(c, state) == Rank(state) >= Rank(stored[c].state)

\* Faulty: a state that is not one of the three is stored as it is.
Report_AnyState(n, isReady) ==
    /\ Up
    /\ reachable' = reachable \cup {n}
    /\ ready' = IF isReady THEN ready \cup {n} ELSE ready \ {n}
    /\ \/ UNCHANGED stored
       \/ \E c \in Present :
             /\ stored[c].node = n
             /\ stored' = [stored EXCEPT ![c] = [@ EXCEPT !.state = "paused", !.noNode = FALSE]]
    /\ UNCHANGED <<adding, sched, todo, picked, crashes, queue>>

(* An accepted report of node n, about no container or about one of its     *)
(* own.  A report replaces Reason too.                                      *)
Report(n, isReady) ==
    /\ Up
    /\ reachable' = reachable \cup {n}
    /\ ready' = IF isReady THEN ready \cup {n} ELSE ready \ {n}
    /\ \/ UNCHANGED stored
       \/ \E c \in Present, state \in {"pending", "running", "exited"} :
             /\ stored[c].node = n
             /\ Accepts(c, state)
             /\ stored' = [stored EXCEPT ![c] = [@ EXCEPT !.state = state, !.noNode = FALSE]]
    /\ UNCHANGED <<adding, sched, todo, picked, crashes, queue>>

(* createNodeSessionHandler: a new worker run is not ready yet. *)
NewSession(n) ==
    /\ Up
    /\ n \in ready
    /\ ready' = ready \ {n}
    /\ UNCHANGED <<stored, reachable, adding, sched, todo, picked, crashes, queue>>

(* No report for heartbeatMaxAge. *)
HeartbeatExpires(n) ==
    /\ n \in reachable
    /\ reachable' = reachable \ {n}
    /\ UNCHANGED <<stored, ready, adding, sched, todo, picked, crashes, queue>>

----------------------------------------------------------------------------
(* The server: Shutdown of the queue on the way out, the end of the process *)
(* at any time, and a new process on the same store.                        *)

Shutdown ==
    /\ Up
    /\ crashes < MaxCrashes
    /\ Q!Shutdown
    /\ UNCHANGED <<store, adding, sched, todo, picked, crashes>>

NewQueue ==
    /\ items' = <<>>
    /\ dirty' = {}
    /\ processing' = {}
    /\ shuttingDown' = FALSE
    /\ waiting' = {}
    /\ woken' = {}
    /\ serving' = [g \in {Scheduler} |-> None]
    /\ stopped' = {}
    /\ timers' = [c \in Containers |-> 0]

Crash ==
    /\ Up
    /\ crashes < MaxCrashes
    /\ crashes' = crashes + 1
    /\ sched' = "off"
    /\ adding' = {}
    /\ todo' = {}
    /\ picked' = NoNode
    /\ NewQueue
    /\ UNCHANGED store

\* Faulty: starts with an empty queue.
Restart_NoHydration ==
    /\ sched = "off"
    /\ sched' = "get"
    /\ UNCHANGED <<store, adding, todo, picked, crashes, queue>>

Restart ==
    /\ sched = "off"
    /\ sched' = "list"
    /\ UNCHANGED <<store, adding, todo, picked, crashes, queue>>

----------------------------------------------------------------------------
SchedulerStep ==
    \/ RunLists \/ RunAdds \/ RunGets
    \/ Assign \/ AssignFails \/ Notify \/ RunRetries \/ RunDone

Next ==
    \/ \E c \in Containers : Create(c) \/ RetryTimer(c)
    \/ SchedulerStep
    \/ \E n \in Nodes : \/ Report(n, TRUE) \/ Report(n, FALSE)
                        \/ NewSession(n) \/ HeartbeatExpires(n)
    \/ Shutdown \/ Crash \/ Restart

(* Goroutines that can run do, a timer fires, and a transaction that is     *)
(* retried for ever succeeds some time.  Reports, crashes and restarts are  *)
(* not owed by anybody.                                                     *)
Fairness ==
    /\ WF_vars(SchedulerStep)
    /\ \A c \in Containers : /\ WF_vars(CreateAdd(c))
                             /\ WF_vars(RetryTimer(c))
                             /\ SF_vars(Assign /\ current = c)

Safety == Init /\ [][Next]_vars

Spec == Safety /\ Fairness

----------------------------------------------------------------------------
(* Properties *)

TypeOK ==
    /\ stored \in [Containers -> ContainerRecord \cup {None}]
    /\ reachable \subseteq Nodes
    /\ ready \subseteq Nodes
    /\ adding \subseteq Containers
    /\ sched \in {"off", "list", "hydrate", "get", "assign", "notify", "retry",
                  "done", "returned"}
    /\ todo \subseteq Containers
    /\ picked \in Nodes \cup {NoNode}
    /\ crashes \in 0..MaxCrashes
    /\ Q!TypeOK

(* Somebody in the process will still look at c: the queue, a retry timer,  *)
(* its create handler, the startup loop or the scheduler itself.            *)
InHand(c) ==
    \/ c \in dirty \cup adding \cup todo
    \/ timers[c] > 0
    \/ sched = "list"
    \/ c = current /\ sched \in {"assign", "retry"}

(* A stored container without a node is never forgotten by a server that    *)
(* runs, whatever order the create handler's commit and Add, the startup    *)
(* loop, the retries and a restart come in.                                 *)
NoLostContainer ==
    Up /\ ~shuttingDown => \A c \in Containers : Unassigned(c) => InHand(c)

(* The scheduler works on exactly the ID it took: between Get and Done it   *)
(* holds one, and only then; and it owes a notification exactly while the   *)
(* container it holds is stored with the node it picked.                    *)
SchedulerHoldsOne ==
    /\ current # None <=> sched \in {"assign", "notify", "retry", "done"}
    /\ picked # NoNode <=> sched = "notify"
    /\ sched = "notify" => current \in Present /\ stored[current].node = picked

(* Two containers of the store never share a name (containers.go:55-59).    *)
UniqueNames ==
    \A c, d \in Present : stored[c].name = stored[d].name => c = d

(* A container has at most two retry goroutines, however often the          *)
(* scheduler fails to place it: one from the entry of its create handler,   *)
(* one from the startup loop that read the store before that entry came.    *)
RetriesBounded == \A c \in Containers : timers[c] <= 2

(* A reason that says no node was available is never left on a container    *)
(* that has one.                                                            *)
ReasonIsCurrent == \A c \in Present : stored[c].noNode => stored[c].node = NoNode

(* Only a pending container waits for a node: what runs or has exited is    *)
(* where it was assigned.                                                   *)
StartedIsAssigned ==
    \A c \in Present : stored[c].state # "pending" => stored[c].node # NoNode

(* Once a container has a node it keeps it, also when its ID is queued      *)
(* again by a retry, a late Add or a restart.                               *)
AssignedOnce ==
    [][\A c \in Present : stored[c].node # NoNode =>
          stored'[c] # None /\ stored'[c].node = stored[c].node]_vars

(* A container only ever goes to a node that is reachable and ready and has *)
(* no more containers that have not exited than any other such node.        *)
PicksLeastLoaded ==
    [][\A c \in Present : stored'[c].node # stored[c].node =>
          LET load(n) == Cardinality({d \in Containers : /\ stored[d] # None
                                                         /\ stored[d].node = n
                                                         /\ stored[d].state # "exited"})
          IN  \E n \in reachable \cap ready :
                 /\ stored'[c].node = n
                 /\ \A m \in reachable \cap ready : load(n) <= load(m)]_vars

(* A container never goes back from exited or running.                      *)
LifecycleForward ==
    [][\A c \in Present : /\ stored[c].state = "exited" => stored'[c].state = "exited"
                          /\ stored[c].state = "running" => stored'[c].state # "pending"]_vars

============================================================================
