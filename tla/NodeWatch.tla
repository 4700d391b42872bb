----------------------------- MODULE NodeWatch -----------------------------
(***************************************************************************)
(* How a node learns what is assigned to it: NodeWatcher of                *)
(* internal/watch/nodes.go, watchNodeHandler of internal/api/nodes.go and  *)
(* the loop runWatch of internal/worker/worker.go.                         *)
(*                                                                         *)
(* The scheduler commits an assignment and then calls Notify.  A handler   *)
(* takes the channel of its node, lists the containers, writes what it     *)
(* found to its connection and waits for the channel to be closed.  Each   *)
(* of these is a step of its own: nothing holds a lock across two of them. *)
(* A handler outlives its client until it notices, so a node may have      *)
(* several.  Connections break, workers restart, and the server may crash  *)
(* between a commit and its Notify.                                        *)
(***************************************************************************)
EXTENDS Naturals, Sequences, FiniteSets

CONSTANTS
    Nodes, Containers,
    Streams,        \* handlers that may run at a time
    None,           \* no node, no stream
    MaxWire,        \* bound: snapshots buffered in a connection before Write blocks
    MaxCrashes      \* bound: crashes of the server

ASSUME NodeWatchAssumption ==
    /\ None \notin Nodes \cup Streams
    /\ MaxWire \in Nat \ {0}
    /\ MaxCrashes \in Nat

VARIABLES
    assigned,       \* store: the node of each container, None while it has none
    notifying,      \* scheduler: the node whose Notify is due, or None
    up, crashes,    \* the server runs; how often it crashed
    channel,        \* w.nodes: the channel of a node, 0 if there is none
    made,           \* channels made so far: they are 1..made
    closed,         \* the channels that are closed
    at,             \* at[s]: the next step of handler s, "off" if it does not run
    of,             \* of[s]: its nodeID
    changed,        \* changed[s]: the channel it took
    response,       \* response[s]: the containers it listed last
    wire,           \* wire[s]: snapshots written and not read by the worker
    broken,         \* streams whose connection is broken
    conn,           \* conn[n]: the stream the worker of n reads, or None
    seen            \* seen[n]: the containers of the last snapshot it read

watcher == <<channel, made, closed>>
streams == <<at, of, changed, response, wire, broken>>
workers == <<conn, seen>>
vars == <<assigned, notifying, up, crashes, watcher, streams, workers>>

AssignedTo(n) == {c \in Containers : assigned[c] = n}

Init ==
    /\ assigned = [c \in Containers |-> None]
    /\ notifying = None
    /\ up = TRUE
    /\ crashes = 0
    /\ channel = [n \in Nodes |-> 0]
    /\ made = 0
    /\ closed = {}
    /\ at = [s \in Streams |-> "off"]
    /\ of = [s \in Streams |-> None]
    /\ changed = [s \in Streams |-> 0]
    /\ response = [s \in Streams |-> {}]
    /\ wire = [s \in Streams |-> <<>>]
    /\ broken = {}
    /\ conn = [n \in Nodes |-> None]
    /\ seen = [n \in Nodes |-> {}]

----------------------------------------------------------------------------
(* The scheduler: commit, then Notify. *)

CommitAssignment(c, n) ==
    /\ up
    /\ notifying = None
    /\ assigned[c] = None
    /\ assigned' = [assigned EXCEPT ![c] = n]
    /\ notifying' = n
    /\ UNCHANGED <<up, crashes, watcher, streams, workers>>

\* Faulty: the closed channel stays in the map.
Notify_KeepsChannel ==
    /\ notifying # None
    /\ closed' = closed \cup ({channel[notifying]} \ {0})
    /\ notifying' = None
    /\ UNCHANGED <<assigned, up, crashes, channel, made, streams, workers>>

Notify ==
    /\ notifying # None
    /\ closed' = closed \cup ({channel[notifying]} \ {0})
    /\ channel' = [channel EXCEPT ![notifying] = 0]
    /\ notifying' = None
    /\ UNCHANGED <<assigned, up, crashes, made, streams, workers>>

----------------------------------------------------------------------------
(* The handler of one watch request. *)

Gone(s) ==
    /\ at' = [at EXCEPT ![s] = "off"]
    /\ of' = [of EXCEPT ![s] = None]
    /\ changed' = [changed EXCEPT ![s] = 0]
    /\ response' = [response EXCEPT ![s] = {}]

(* Watch(nodeID): the channel of the node, made if there is none. *)
TakeChannel(s) ==
    \/ /\ channel[of[s]] # 0
       /\ changed' = [changed EXCEPT ![s] = channel[of[s]]]
       /\ UNCHANGED watcher
    \/ /\ channel[of[s]] = 0
       /\ made' = made + 1
       /\ channel' = [channel EXCEPT ![of[s]] = made + 1]
       /\ changed' = [changed EXCEPT ![s] = made + 1]
       /\ UNCHANGED closed

StreamWatches(s) ==
    /\ at[s] = "watch"
    /\ TakeChannel(s)
    /\ at' = [at EXCEPT ![s] = "list"]
    /\ UNCHANGED <<assigned, notifying, up, crashes, of, response, wire, broken,
                   workers>>

StreamLists(s) ==
    /\ at[s] = "list"
    /\ response' = [response EXCEPT ![s] = AssignedTo(of[s])]
    /\ at' = [at EXCEPT ![s] = "write"]
    /\ UNCHANGED <<assigned, notifying, up, crashes, watcher, of, changed, wire,
                   broken, workers>>

\* Faulty: lists first and takes the channel afterwards.
StreamReads_ListFirst(s) ==
    \/ /\ at[s] = "watch"
       /\ response' = [response EXCEPT ![s] = AssignedTo(of[s])]
       /\ at' = [at EXCEPT ![s] = "list"]
       /\ UNCHANGED <<watcher, changed>>
       /\ UNCHANGED <<assigned, notifying, up, crashes, of, wire, broken, workers>>
    \/ /\ at[s] = "list"
       /\ TakeChannel(s)
       /\ at' = [at EXCEPT ![s] = "write"]
       /\ UNCHANGED <<assigned, notifying, up, crashes, of, response, wire,
                      broken, workers>>

\* Faulty: answers with what is new since the last answer.
StreamReads_OnlyChanges(s) ==
    \/ StreamWatches(s)
    \/ /\ at[s] = "list"
       /\ response' = [response EXCEPT ![s] = AssignedTo(of[s]) \ @]
       /\ at' = [at EXCEPT ![s] = "write"]
       /\ UNCHANGED <<assigned, notifying, up, crashes, watcher, of, changed,
                      wire, broken, workers>>

StreamReads(s) == StreamWatches(s) \/ StreamLists(s)

(* stream.Write: blocks while the connection is full and alive; on a broken *)
(* one it may still succeed, and what it wrote goes nowhere.                *)
StreamWrites(s) ==
    /\ at[s] = "write"
    /\ \/ /\ s \in broken
          /\ UNCHANGED wire
       \/ /\ s \notin broken
          /\ Len(wire[s]) < MaxWire
          /\ wire' = [wire EXCEPT ![s] = Append(@, response[s])]
    /\ at' = [at EXCEPT ![s] = "wait"]
    /\ UNCHANGED <<assigned, notifying, up, crashes, watcher, of, changed,
                   response, broken, workers>>

(* case <-changed *)
StreamWakes(s) ==
    /\ at[s] = "wait"
    /\ changed[s] \in closed
    /\ at' = [at EXCEPT ![s] = "watch"]
    /\ UNCHANGED <<assigned, notifying, up, crashes, watcher, of, changed,
                   response, wire, broken, workers>>

(* The handler of a broken connection returns: at the check that starts the *)
(* loop, with the error of Write, or from the select.                       *)
StreamEnds(s) ==
    /\ at[s] \in {"watch", "write", "wait"}
    /\ s \in broken
    /\ Gone(s)
    /\ UNCHANGED <<assigned, notifying, up, crashes, watcher, wire, broken, workers>>

----------------------------------------------------------------------------
(* runWatch of the worker of n. *)

Connect(n) ==
    /\ up
    /\ conn[n] = None
    /\ \E s \in Streams :
          /\ at[s] = "off"
          /\ \A m \in Nodes : conn[m] # s
          /\ conn' = [conn EXCEPT ![n] = s]
          /\ at' = [at EXCEPT ![s] = "watch"]
          /\ of' = [of EXCEPT ![s] = n]
          /\ wire' = [wire EXCEPT ![s] = <<>>]
          /\ broken' = broken \ {s}
    /\ UNCHANGED <<assigned, notifying, up, crashes, watcher, changed, response,
                   seen>>

(* reader.Next returns a snapshot. *)
Receive(n) ==
    /\ conn[n] # None
    /\ wire[conn[n]] # <<>>
    /\ seen' = [seen EXCEPT ![n] = Head(wire[conn[n]])]
    /\ wire' = [wire EXCEPT ![conn[n]] = Tail(@)]
    /\ UNCHANGED <<assigned, notifying, up, crashes, watcher, at, of, changed,
                   response, broken, conn>>

(* reader.Next returns an error: the reader is closed, the loop reconnects. *)
ReadFails(n) ==
    /\ conn[n] # None
    /\ conn[n] \in broken
    /\ conn' = [conn EXCEPT ![n] = None]
    /\ UNCHANGED <<assigned, notifying, up, crashes, watcher, streams, seen>>

----------------------------------------------------------------------------
(* Failures. *)

(* What was on its way is lost; neither end knows yet. *)
ConnectionBreaks(s) ==
    /\ at[s] # "off"
    /\ s \notin broken
    /\ broken' = broken \cup {s}
    /\ wire' = [wire EXCEPT ![s] = <<>>]
    /\ UNCHANGED <<assigned, notifying, up, crashes, watcher, at, of, changed,
                   response, workers>>

(* The worker process restarts and knows nothing. *)
WorkerRestarts(n) ==
    /\ seen' = [seen EXCEPT ![n] = {}]
    /\ conn' = [conn EXCEPT ![n] = None]
    /\ broken' = IF conn[n] = None THEN broken ELSE broken \cup {conn[n]}
    /\ wire' = IF conn[n] = None THEN wire ELSE [wire EXCEPT ![conn[n]] = <<>>]
    /\ UNCHANGED <<assigned, notifying, up, crashes, watcher, at, of, changed,
                   response>>

Crash ==
    /\ up
    /\ crashes < MaxCrashes
    /\ up' = FALSE
    /\ crashes' = crashes + 1
    /\ notifying' = None
    /\ channel' = [n \in Nodes |-> 0]
    /\ made' = 0
    /\ closed' = {}
    /\ at' = [s \in Streams |-> "off"]
    /\ of' = [s \in Streams |-> None]
    /\ changed' = [s \in Streams |-> 0]
    /\ response' = [s \in Streams |-> {}]
    /\ wire' = [s \in Streams |-> <<>>]
    /\ broken' = Streams
    /\ UNCHANGED <<assigned, workers>>

Restart ==
    /\ ~up
    /\ up' = TRUE
    /\ UNCHANGED <<assigned, notifying, crashes, watcher, streams, workers>>

----------------------------------------------------------------------------
Next ==
    \/ \E c \in Containers, n \in Nodes : CommitAssignment(c, n)
    \/ Notify
    \/ \E s \in Streams : \/ StreamReads(s) \/ StreamWrites(s)
                          \/ StreamWakes(s) \/ StreamEnds(s)
                          \/ ConnectionBreaks(s)
    \/ \E n \in Nodes : Connect(n) \/ Receive(n) \/ ReadFails(n) \/ WorkerRestarts(n)
    \/ Crash \/ Restart

(* What must happen in the end is said of both ends together, in Cluster.   *)
Safety == Init /\ [][Next]_vars

----------------------------------------------------------------------------
(* Properties *)

TypeOK ==
    /\ assigned \in [Containers -> Nodes \cup {None}]
    /\ notifying \in Nodes \cup {None}
    /\ up \in BOOLEAN
    /\ crashes \in 0..MaxCrashes
    /\ made \in Nat
    /\ channel \in [Nodes -> 0..made]
    /\ closed \subseteq 1..made
    /\ at \in [Streams -> {"off", "watch", "list", "write", "wait"}]
    /\ of \in [Streams -> Nodes \cup {None}]
    /\ \A s \in Streams : at[s] # "off" => of[s] # None
    /\ changed \in [Streams -> 0..made]
    /\ response \in [Streams -> SUBSET Containers]
    /\ wire \in [Streams -> Seq(SUBSET Containers)]
    /\ broken \subseteq Streams
    /\ conn \in [Nodes -> Streams \cup {None}]
    /\ seen \in [Nodes -> SUBSET Containers]

(* A handler that will not be woken has written everything its node has:    *)
(* no assignment falls between the channel it took, the list it read and    *)
(* the Notify that follows the commit.                                      *)
NoMissedChange ==
    \A s \in Streams :
        at[s] = "wait" /\ changed[s] \notin closed =>
            response[s] = AssignedTo(of[s]) \/ notifying = of[s]

(* The map never holds a closed channel: the next Notify would close it     *)
(* again, which panics, and a Watch would hand it out, which spins.         *)
NoClosedChannelKept == \A n \in Nodes : channel[n] \notin closed

(* A worker never sees an assignment disappear, unless it restarts: an old  *)
(* snapshot never overtakes a newer one, also across a reconnect.           *)
SeenOnlyGrows ==
    [][\A n \in Nodes : seen[n] \subseteq seen'[n] \/ WorkerRestarts(n)]_vars

============================================================================
