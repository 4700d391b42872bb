-------------------------- MODULE NodeWatchProofs --------------------------
(***************************************************************************)
(* Theorems about NodeWatch, for any nodes, containers and handlers.       *)
(*                                                                         *)
(* Two invariants, one on top of the other: WatchInv is about the channels *)
(* and what the handlers have listed, and gives NoMissedChange and         *)
(* NoClosedChannelKept; StreamInv is about the way of the snapshots to the *)
(* worker, and gives SeenOnlyGrows.                                        *)
(***************************************************************************)
EXTENDS NodeWatch, TLAPS

(* The map holds an open channel of its own for each node it has one for. *)
ChannelsAreOwn ==
    /\ NoClosedChannelKept
    /\ \A m, n \in Nodes : channel[m] = channel[n] /\ channel[m] # 0 => m = n

(* The channel of a handler is the one that the next Notify closes, if it   *)
(* is not closed already.                                                   *)
HoldsItsChannel(s) ==
    at[s] \in {"list", "write", "wait"} /\ changed[s] \notin closed =>
        changed[s] = channel[of[s]] /\ changed[s] # 0

(* NoMissedChange, from the moment of the list on. *)
HasListedAll(s) ==
    at[s] \in {"write", "wait"} /\ changed[s] \notin closed =>
        response[s] = AssignedTo(of[s]) \/ notifying = of[s]

WatchInv ==
    /\ TypeOK
    /\ ChannelsAreOwn
    /\ \A s \in Streams : HoldsItsChannel(s) /\ HasListedAll(s)

----------------------------------------------------------------------------
LEMMA InitWatch == Init => WatchInv
BY NodeWatchAssumption DEF Init, WatchInv, TypeOK, ChannelsAreOwn, NoClosedChannelKept,
   HoldsItsChannel, HasListedAll

LEMMA SchedulerTypeOK ==
    ASSUME TypeOK, \/ \E c \in Containers, n \in Nodes : CommitAssignment(c, n)
                   \/ Notify \/ Crash \/ Restart
    PROVE  TypeOK'
<1>1. ASSUME NEW c \in Containers, NEW n \in Nodes, CommitAssignment(c, n) PROVE TypeOK'
  BY <1>1 DEF CommitAssignment, TypeOK, watcher, streams, workers
<1>2. CASE Notify
  <2>1. notifying \in Nodes /\ channel[notifying] \in 0..made
    BY <1>2 DEF Notify, TypeOK
  <2>2. closed' \subseteq 1..made
    <3>1. /\ closed' = closed \cup ({channel[notifying]} \ {0})
          /\ closed \subseteq 1..made
          /\ made \in Nat
      BY <1>2 DEF Notify, TypeOK
    <3>2. channel[notifying] # 0 => channel[notifying] \in 1..made
      BY <2>1, <3>1
    <3>3. QED
      BY <3>1, <3>2
  <2>3. QED
    BY <1>2, <2>1, <2>2 DEF Notify, TypeOK, streams, workers
<1>3. CASE Crash
  <2>1. /\ crashes' \in 0..MaxCrashes /\ made' = 0 /\ made' \in Nat
        /\ channel' = [n \in Nodes |-> 0]
        /\ changed' = [s \in Streams |-> 0]
        /\ closed' = {}
    BY <1>3, NodeWatchAssumption DEF Crash, TypeOK
  <2>2. /\ channel' \in [Nodes -> 0..made']
        /\ changed' \in [Streams -> 0..made']
        /\ closed' \subseteq 1..made'
    BY <2>1
  <2>3. /\ response' \in [Streams -> SUBSET Containers]
        /\ wire' \in [Streams -> Seq(SUBSET Containers)]
    <3>1. <<>> \in Seq(SUBSET Containers)
      OBVIOUS
    <3>2. QED
      BY <1>3, <3>1 DEF Crash
  <2>4. QED
    BY <1>3, <2>1, <2>2, <2>3 DEF Crash, TypeOK, workers
<1>4. CASE Restart
  BY <1>4 DEF Restart, TypeOK, watcher, streams, workers
<1>5. QED
  BY <1>1, <1>2, <1>3, <1>4

LEMMA HandlerTypeOK ==
    ASSUME TypeOK, NEW s \in Streams,
           StreamReads(s) \/ StreamWrites(s) \/ StreamWakes(s) \/ StreamEnds(s)
    PROVE  TypeOK'
<1>1. CASE StreamWatches(s)
  <2>1. of[s] \in Nodes
    BY <1>1 DEF StreamWatches, TypeOK
  <2>2. /\ made' \in Nat /\ made <= made'
        /\ channel' \in [Nodes -> 0..made']
        /\ changed' \in [Streams -> 0..made']
        /\ closed' = closed
    <3>1. CASE channel[of[s]] # 0
      <4>1. UNCHANGED watcher /\ changed' = [changed EXCEPT ![s] = channel[of[s]]]
        BY <1>1, <3>1 DEF StreamWatches, TakeChannel
      <4>2. made \in Nat /\ channel \in [Nodes -> 0..made] /\ changed \in [Streams -> 0..made]
        BY DEF TypeOK
      <4>3. changed' \in [Streams -> 0..made]
        BY <2>1, <4>1, <4>2
      <4>4. QED
        BY <4>1, <4>2, <4>3 DEF watcher
    <3>2. CASE channel[of[s]] = 0
      <4>1. /\ made' = made + 1 /\ closed' = closed
            /\ channel' = [channel EXCEPT ![of[s]] = made + 1]
            /\ changed' = [changed EXCEPT ![s] = made + 1]
        BY <1>1, <3>2 DEF StreamWatches, TakeChannel
      <4>2. made \in Nat /\ channel \in [Nodes -> 0..made] /\ changed \in [Streams -> 0..made]
        BY DEF TypeOK
      <4>3. made + 1 \in 0..(made + 1) /\ \A i \in 0..made : i \in 0..(made + 1)
        BY <4>2
      <4>4. channel' \in [Nodes -> 0..(made + 1)]
        BY <2>1, <4>1, <4>2, <4>3
      <4>5. changed' \in [Streams -> 0..(made + 1)]
        BY <4>1, <4>2, <4>3
      <4>6. made' \in Nat /\ made <= made'
        BY <4>1, <4>2
      <4>7. QED
        BY <4>1, <4>4, <4>5, <4>6
    <3>3. QED
      BY <3>1, <3>2
  <2>3. closed' \subseteq 1..made'
    BY <2>2 DEF TypeOK
  <2>4. QED
    BY <1>1, <2>1, <2>2, <2>3 DEF StreamWatches, TypeOK, workers
<1>2. CASE StreamLists(s)
  BY <1>2 DEF StreamLists, TypeOK, watcher, workers, AssignedTo
<1>3. CASE StreamWrites(s)
  <2>1. wire' \in [Streams -> Seq(SUBSET Containers)]
    <3>1. Append(wire[s], response[s]) \in Seq(SUBSET Containers)
      BY DEF TypeOK
    <3>2. QED
      BY <1>3, <3>1 DEF StreamWrites, TypeOK
  <2>2. QED
    BY <1>3, <2>1 DEF StreamWrites, TypeOK, watcher, workers
<1>4. CASE StreamWakes(s)
  BY <1>4 DEF StreamWakes, TypeOK, watcher, workers
<1>5. CASE StreamEnds(s)
  BY <1>5 DEF StreamEnds, Gone, TypeOK, watcher, workers
<1>6. QED
  BY <1>1, <1>2, <1>3, <1>4, <1>5 DEF StreamReads

LEMMA WorkerTypeOK ==
    ASSUME TypeOK, \/ \E n \in Nodes : Connect(n) \/ Receive(n) \/ ReadFails(n) \/ WorkerRestarts(n)
                   \/ \E s \in Streams : ConnectionBreaks(s)
    PROVE  TypeOK'
<1>1. ASSUME NEW n \in Nodes, Connect(n) PROVE TypeOK'
  BY <1>1, NodeWatchAssumption DEF Connect, TypeOK, watcher
<1>2. ASSUME NEW n \in Nodes, Receive(n) PROVE TypeOK'
  <2>1. conn[n] \in Streams /\ wire[conn[n]] \in Seq(SUBSET Containers) /\ wire[conn[n]] # <<>>
    BY <1>2 DEF Receive, TypeOK
  <2>2. /\ Head(wire[conn[n]]) \in SUBSET Containers
        /\ Tail(wire[conn[n]]) \in Seq(SUBSET Containers)
    BY <2>1
  <2>3. QED
    BY <1>2, <2>1, <2>2 DEF Receive, TypeOK, watcher
<1>3. ASSUME NEW n \in Nodes, ReadFails(n) PROVE TypeOK'
  BY <1>3 DEF ReadFails, TypeOK, watcher, streams
<1>4. ASSUME NEW n \in Nodes, WorkerRestarts(n) PROVE TypeOK'
  BY <1>4 DEF WorkerRestarts, TypeOK, watcher
<1>5. ASSUME NEW s \in Streams, ConnectionBreaks(s) PROVE TypeOK'
  BY <1>5 DEF ConnectionBreaks, TypeOK, watcher, workers
<1>6. QED
  BY <1>1, <1>2, <1>3, <1>4, <1>5

----------------------------------------------------------------------------
(* The channels and the lists. *)

(* A step that touches neither the store nor the map, and with which each   *)
(* handler stays, goes on from its Write to its wait, or forgets its list.  *)
LEMMA QuietStepKeepsWatchInv ==
    ASSUME WatchInv, TypeOK',
           UNCHANGED <<assigned, notifying, channel, closed>>,
           \A t \in Streams :
               \/ at'[t] \in {"off", "watch"}
               \/ /\ at'[t] = at[t] \/ (at[t] = "write" /\ at'[t] = "wait")
                  /\ of'[t] = of[t]
                  /\ changed'[t] = changed[t]
                  /\ response'[t] = response[t]
    PROVE  WatchInv'
<1>1. ChannelsAreOwn'
  BY DEF WatchInv, ChannelsAreOwn, NoClosedChannelKept
<1>2. ASSUME NEW t \in Streams PROVE HoldsItsChannel(t)' /\ HasListedAll(t)'
  BY <1>2 DEF WatchInv, HoldsItsChannel, HasListedAll, AssignedTo
<1>3. QED
  BY <1>1, <1>2 DEF WatchInv

LEMMA CommitKeepsWatchInv ==
    ASSUME WatchInv, TypeOK', NEW c \in Containers, NEW n \in Nodes, CommitAssignment(c, n)
    PROVE  WatchInv'
<1>1. ChannelsAreOwn'
  BY DEF WatchInv, ChannelsAreOwn, NoClosedChannelKept, CommitAssignment, watcher
<1>2. ASSUME NEW t \in Streams PROVE HoldsItsChannel(t)'
  BY <1>2 DEF WatchInv, HoldsItsChannel, CommitAssignment, watcher, streams
<1>3. ASSUME NEW t \in Streams PROVE HasListedAll(t)'
  <2>1. CASE of[t] = n
    BY <2>1 DEF HasListedAll, CommitAssignment, streams
  <2>2. CASE of[t] # n /\ of[t] # None
    <3>1. AssignedTo(of[t])' = AssignedTo(of[t])
      BY <2>2 DEF WatchInv, TypeOK, AssignedTo, CommitAssignment, streams
    <3>2. QED
      BY <2>2, <3>1 DEF WatchInv, HasListedAll, CommitAssignment, watcher, streams
  <2>3. CASE of[t] = None
    BY <2>3 DEF WatchInv, TypeOK, HasListedAll, CommitAssignment, streams
  <2>4. QED
    BY <2>1, <2>2, <2>3
<1>4. QED
  BY <1>1, <1>2, <1>3 DEF WatchInv

(* Who held the channel of the notified node is woken, so nothing is left   *)
(* to say of it; the others hold channels of their own.                     *)
LEMMA NotifyKeepsWatchInv ==
    ASSUME WatchInv, TypeOK', Notify
    PROVE  WatchInv'
<1> DEFINE n == notifying
<1>1. /\ n \in Nodes
      /\ 0 \notin closed
      /\ closed' = closed \cup ({channel[n]} \ {0})
      /\ channel' = [channel EXCEPT ![n] = 0]
      /\ channel \in [Nodes -> 0..made]
      /\ UNCHANGED <<assigned, at, of, changed, response>>
  BY DEF WatchInv, TypeOK, Notify, streams
<1>2. ChannelsAreOwn'
  BY <1>1 DEF WatchInv, ChannelsAreOwn, NoClosedChannelKept
<1>3. ASSUME NEW t \in Streams PROVE HoldsItsChannel(t)' /\ HasListedAll(t)'
  <2>1. SUFFICES ASSUME at[t] \in {"list", "write", "wait"}, changed[t] \notin closed'
                 PROVE  /\ changed[t] = channel'[of[t]] /\ changed[t] # 0
                        /\ at[t] \in {"write", "wait"} => response[t] = AssignedTo(of[t])
    BY <1>1 DEF HoldsItsChannel, HasListedAll, AssignedTo
  <2>2. changed[t] = channel[of[t]] /\ changed[t] # 0
    BY <1>1, <2>1 DEF WatchInv, HoldsItsChannel
  <2>3. of[t] \in Nodes /\ of[t] # n
    BY <1>1, <2>1, <2>2 DEF WatchInv, TypeOK
  <2>4. QED
    BY <1>1, <2>1, <2>2, <2>3 DEF WatchInv, HasListedAll
<1>4. QED
  BY <1>2, <1>3 DEF WatchInv

LEMMA WatchKeepsWatchInv ==
    ASSUME WatchInv, TypeOK', NEW s \in Streams, StreamWatches(s)
    PROVE  WatchInv'
<1>1. /\ of[s] \in Nodes /\ at[s] = "watch"
      /\ at' = [at EXCEPT ![s] = "list"]
      /\ at \in [Streams -> {"off", "watch", "list", "write", "wait"}]
      /\ changed \in [Streams -> 0..made]
      /\ channel \in [Nodes -> 0..made]
      /\ closed \subseteq 1..made /\ made \in Nat
      /\ UNCHANGED <<assigned, notifying, of, response>>
  BY DEF WatchInv, TypeOK, StreamWatches
<1>2. CASE channel[of[s]] # 0 /\ changed' = [changed EXCEPT ![s] = channel[of[s]]]
           /\ UNCHANGED watcher
  <2>1. ChannelsAreOwn'
    BY <1>2 DEF WatchInv, ChannelsAreOwn, NoClosedChannelKept, watcher
  <2>2. ASSUME NEW t \in Streams PROVE HoldsItsChannel(t)' /\ HasListedAll(t)'
    BY <1>1, <1>2, <2>2 DEF WatchInv, HoldsItsChannel, HasListedAll, AssignedTo, watcher
  <2>3. QED
    BY <2>1, <2>2 DEF WatchInv
<1>3. CASE /\ channel[of[s]] = 0
           /\ channel' = [channel EXCEPT ![of[s]] = made + 1]
           /\ changed' = [changed EXCEPT ![s] = made + 1]
           /\ UNCHANGED closed
  <2>1. made + 1 \notin closed /\ made + 1 # 0 /\ \A m \in Nodes : channel[m] # made + 1
    BY <1>1
  <2>2. ChannelsAreOwn'
    BY <1>1, <1>3, <2>1 DEF WatchInv, ChannelsAreOwn, NoClosedChannelKept
  <2>3. ASSUME NEW t \in Streams PROVE HoldsItsChannel(t)' /\ HasListedAll(t)'
    <3>1. CASE t = s
      BY <1>1, <1>3, <2>1, <3>1 DEF HoldsItsChannel, HasListedAll
    <3>2. CASE t # s
      <4>1. UNCHANGED <<at[t], of[t], changed[t], response[t]>>
        BY <1>1, <1>3, <3>2
      <4>2. HoldsItsChannel(t) /\ HasListedAll(t)
        BY DEF WatchInv
      <4>3. QED
        BY <1>1, <1>3, <4>1, <4>2 DEF HoldsItsChannel, HasListedAll, AssignedTo
    <3>3. QED
      BY <3>1, <3>2
  <2>4. QED
    BY <2>2, <2>3 DEF WatchInv
<1>4. QED
  BY <1>2, <1>3 DEF StreamWatches, TakeChannel

LEMMA ListKeepsWatchInv ==
    ASSUME WatchInv, TypeOK', NEW s \in Streams, StreamLists(s)
    PROVE  WatchInv'
<1>1. ChannelsAreOwn'
  BY DEF WatchInv, ChannelsAreOwn, NoClosedChannelKept, StreamLists, watcher
<1>2. ASSUME NEW t \in Streams PROVE HoldsItsChannel(t)' /\ HasListedAll(t)'
  BY <1>2 DEF WatchInv, TypeOK, HoldsItsChannel, HasListedAll, AssignedTo, StreamLists, watcher
<1>3. QED
  BY <1>1, <1>2 DEF WatchInv

----------------------------------------------------------------------------
LEMMA NextTypeOK == ASSUME TypeOK, [Next]_vars PROVE TypeOK'
<1>1. CASE Next
  BY <1>1, SchedulerTypeOK, HandlerTypeOK, WorkerTypeOK DEF Next
<1>2. CASE UNCHANGED vars
  BY <1>2 DEF TypeOK, vars, watcher, streams, workers
<1>3. QED
  BY <1>1, <1>2

LEMMA NextWatchInv == ASSUME WatchInv, [Next]_vars PROVE WatchInv'
<1> DEFINE Stays(t) ==
               \/ at'[t] \in {"off", "watch"}
               \/ /\ at'[t] = at[t] \/ (at[t] = "write" /\ at'[t] = "wait")
                  /\ of'[t] = of[t]
                  /\ changed'[t] = changed[t]
                  /\ response'[t] = response[t]
<1>1. TypeOK'
  BY NextTypeOK DEF WatchInv
<1>2. /\ at \in [Streams -> {"off", "watch", "list", "write", "wait"}]
      /\ of \in [Streams -> Nodes \cup {None}]
      /\ changed \in [Streams -> 0..made]
      /\ response \in [Streams -> SUBSET Containers]
  BY DEF WatchInv, TypeOK
<1>3. CASE \E c \in Containers, n \in Nodes : CommitAssignment(c, n)
  BY <1>1, <1>3, CommitKeepsWatchInv
<1>4. CASE Notify
  BY <1>1, <1>4, NotifyKeepsWatchInv
<1>5. ASSUME NEW s \in Streams, StreamReads(s) PROVE WatchInv'
  BY <1>1, <1>5, WatchKeepsWatchInv, ListKeepsWatchInv DEF StreamReads
<1>6. ASSUME NEW s \in Streams,
             StreamWrites(s) \/ StreamWakes(s) \/ StreamEnds(s) \/ ConnectionBreaks(s)
      PROVE  WatchInv'
  <2>1. UNCHANGED <<assigned, notifying, channel, closed>>
    BY <1>6 DEF StreamWrites, StreamWakes, StreamEnds, ConnectionBreaks, watcher
  <2>2. ASSUME NEW t \in Streams PROVE Stays(t)
    <3>1. CASE t # s
      BY <1>2, <1>6, <3>1 DEF StreamWrites, StreamWakes, StreamEnds, ConnectionBreaks, Gone
    <3>2. CASE t = s
      BY <1>2, <1>6, <3>2 DEF StreamWrites, StreamWakes, StreamEnds, ConnectionBreaks, Gone
    <3>3. QED
      BY <3>1, <3>2
  <2>3. QED
    BY <1>1, <2>1, <2>2, QuietStepKeepsWatchInv
<1>7. ASSUME NEW n \in Nodes, Connect(n) \/ Receive(n) \/ ReadFails(n) \/ WorkerRestarts(n)
      PROVE  WatchInv'
  <2>1. UNCHANGED <<assigned, notifying, channel, closed>>
    BY <1>7 DEF Connect, Receive, ReadFails, WorkerRestarts, watcher
  <2>2. ASSUME NEW t \in Streams PROVE Stays(t)
    <3>1. CASE Connect(n)
      <4>1. PICK s \in Streams : /\ at' = [at EXCEPT ![s] = "watch"]
                                /\ of' = [of EXCEPT ![s] = n]
        BY <3>1 DEF Connect
      <4>2. changed' = changed /\ response' = response
        BY <3>1 DEF Connect
      <4>3. QED
        BY <1>2, <4>1, <4>2
    <3>2. CASE Receive(n) \/ ReadFails(n) \/ WorkerRestarts(n)
      BY <3>2 DEF Receive, ReadFails, WorkerRestarts, streams
    <3>3. QED
      BY <1>7, <3>1, <3>2
  <2>3. QED
    BY <1>1, <2>1, <2>2, QuietStepKeepsWatchInv
<1>8. CASE Crash
  <2>1. /\ channel' = [n \in Nodes |-> 0] /\ closed' = {}
        /\ at' = [s \in Streams |-> "off"]
    BY <1>8 DEF Crash
  <2>2. ChannelsAreOwn'
    BY <2>1 DEF ChannelsAreOwn, NoClosedChannelKept
  <2>3. ASSUME NEW t \in Streams PROVE HoldsItsChannel(t)' /\ HasListedAll(t)'
    BY <2>1 DEF HoldsItsChannel, HasListedAll
  <2>4. QED
    BY <1>1, <2>2, <2>3 DEF WatchInv
<1>9. CASE Restart \/ UNCHANGED vars
  BY <1>1, <1>9, QuietStepKeepsWatchInv DEF Restart, vars, watcher, streams
<1>10. QED
  BY <1>3, <1>4, <1>5, <1>6, <1>7, <1>8, <1>9 DEF Next

(* Every reachable state of the watch is well formed.                       *)
THEOREM NodeWatchTypeOK == Safety => []TypeOK
<1>1. Init => TypeOK
  BY InitWatch DEF WatchInv
<1>2. TypeOK /\ [Next]_vars => TypeOK'
  BY NextTypeOK
<1>3. QED
  BY <1>1, <1>2, PTL DEF Safety

LEMMA WatchInvariant == Safety => []WatchInv
<1>1. WatchInv /\ [Next]_vars => WatchInv'
  BY NextWatchInv
<1>2. QED
  BY <1>1, InitWatch, PTL DEF Safety

(* A handler that waits on an open channel has listed all its node has, or  *)
(* the Notify of what it lacks is still to come (watchNodeHandler takes the *)
(* channel before it lists, the scheduler commits before it notifies).      *)
THEOREM NodeWatchNoMissedChange == Safety => []NoMissedChange
<1>1. WatchInv => NoMissedChange
  BY DEF WatchInv, HasListedAll, NoMissedChange
<1>2. QED
  BY <1>1, WatchInvariant, PTL

(* Notify never leaves the channel it closed in the map, so it closes none  *)
(* twice and Watch hands out none that is closed.                           *)
THEOREM NodeWatchNoClosedChannelKept == Safety => []NoClosedChannelKept
<1>1. WatchInv => NoClosedChannelKept
  BY DEF WatchInv, ChannelsAreOwn
<1>2. QED
  BY <1>1, WatchInvariant, PTL

----------------------------------------------------------------------------
(* The way of the snapshots: the store holds what the handler listed, that  *)
(* holds what is in the connection, the later snapshot the earlier one, and *)
(* the first of them what the worker has seen.                              *)

WireGrows(s) ==
    /\ s \in broken \/ at[s] = "off" => wire[s] = <<>>
    /\ \A i \in 1..Len(wire[s]) : wire[s][i] \subseteq AssignedTo(of[s])
    /\ \A i, j \in 1..Len(wire[s]) : i <= j => wire[s][i] \subseteq wire[s][j]
    /\ at[s] = "write" => /\ response[s] \subseteq AssignedTo(of[s])
                          /\ \A i \in 1..Len(wire[s]) : wire[s][i] \subseteq response[s]

ReaderGrows(n) ==
    /\ seen[n] \subseteq AssignedTo(n)
    /\ conn[n] # None =>
          /\ \A m \in Nodes : conn[m] = conn[n] => m = n
          /\ \A i \in 1..Len(wire[conn[n]]) : seen[n] \subseteq wire[conn[n]][i]
          /\ conn[n] \notin broken =>
                /\ at[conn[n]] # "off" /\ of[conn[n]] = n
                /\ at[conn[n]] = "write" => seen[n] \subseteq response[conn[n]]

StreamInv ==
    /\ TypeOK
    /\ \A s \in Streams : WireGrows(s)
    /\ \A n \in Nodes : ReaderGrows(n)

LEMMA InitStreamInv == Init => StreamInv
<1>1. Init => TypeOK
  BY InitWatch DEF WatchInv
<1>2. ASSUME Init PROVE (\A s \in Streams : WireGrows(s)) /\ \A n \in Nodes : ReaderGrows(n)
  BY <1>2 DEF Init, WireGrows, ReaderGrows
<1>3. QED
  BY <1>1, <1>2 DEF StreamInv

(* What a node has is never taken from it. *)
LEMMA AssignedGrows ==
    ASSUME TypeOK, [Next]_vars, NEW n \in Nodes
    PROVE  AssignedTo(n) \subseteq AssignedTo(n)'
<1>1. CASE UNCHANGED assigned
  BY <1>1 DEF AssignedTo
<1>2. ASSUME NEW c \in Containers, NEW m \in Nodes, CommitAssignment(c, m)
      PROVE  AssignedTo(n) \subseteq AssignedTo(n)'
  BY <1>2, NodeWatchAssumption DEF CommitAssignment, AssignedTo, TypeOK
<1>3. QED
  BY <1>1, <1>2 DEF Next, Notify, StreamReads, StreamWatches, StreamLists, StreamWrites,
     StreamWakes, StreamEnds, ConnectionBreaks, Connect, Receive, ReadFails, WorkerRestarts,
     Crash, Restart, vars

(* A step that leaves the handler s as it is, but for a later step of its   *)
(* loop that is not the Write.                                              *)
LEMMA IdleHandlerGrows ==
    ASSUME StreamInv, [Next]_vars, NEW s \in Streams,
           UNCHANGED <<wire[s], of[s]>>,
           \/ UNCHANGED <<at[s], response[s]>>
           \/ at'[s] \notin {"off", "write"},
           s \in broken' => s \in broken
    PROVE  WireGrows(s)'
<1>1. WireGrows(s) /\ TypeOK
  BY DEF StreamInv
<1>2. CASE of[s] \in Nodes
  <2>1. AssignedTo(of[s]) \subseteq AssignedTo(of[s])'
    BY <1>1, <1>2, AssignedGrows
  <2>2. QED
    BY <1>1, <2>1 DEF WireGrows
<1>3. QED
  BY <1>1, <1>2 DEF WireGrows, TypeOK

(* A connection with nothing left in it. *)
LEMMA EmptyWireGrows ==
    ASSUME StreamInv, NEW s \in Streams, wire'[s] = <<>>,
           \/ at'[s] # "write"
           \/ UNCHANGED <<assigned, at[s], of[s], response[s]>>
    PROVE  WireGrows(s)'
BY DEF StreamInv, WireGrows, AssignedTo

LEMMA WrittenWireGrows ==
    ASSUME StreamInv, NEW s \in Streams, StreamWrites(s), s \notin broken
    PROVE  WireGrows(s)'
<1> DEFINE w == wire[s]
           r == response[s]
<1>1. /\ w \in Seq(SUBSET Containers) /\ r \in SUBSET Containers /\ Len(w) \in Nat
      /\ at[s] = "write" /\ at'[s] = "wait"
      /\ wire'[s] = Append(w, r)
      /\ AssignedTo(of[s])' = AssignedTo(of[s])
  BY DEF StreamInv, TypeOK, StreamWrites, AssignedTo
<1>2. /\ r \subseteq AssignedTo(of[s])
      /\ \A i \in 1..Len(w) : w[i] \subseteq r /\ w[i] \subseteq AssignedTo(of[s])
      /\ \A i, j \in 1..Len(w) : i <= j => w[i] \subseteq w[j]
  BY <1>1 DEF StreamInv, WireGrows
<1>3. /\ Len(wire'[s]) = Len(w) + 1
      /\ wire'[s][Len(w) + 1] = r
      /\ \A i \in 1..Len(w) : wire'[s][i] = w[i]
  <2> HIDE DEF w, r
  <2> QED BY <1>1
<1>4. \A i \in 1..(Len(w) + 1) : i \in 1..Len(w) \/ i = Len(w) + 1
  BY <1>1
<1>5. \A i \in 1..Len(wire'[s]) : wire'[s][i] \subseteq AssignedTo(of[s])
  BY <1>2, <1>3, <1>4
<1>6. ASSUME NEW i \in 1..Len(wire'[s]), NEW j \in 1..Len(wire'[s]), i <= j
      PROVE  wire'[s][i] \subseteq wire'[s][j]
  <2>1. CASE j \in 1..Len(w)
    <3>1. i \in 1..Len(w)
      BY <1>1, <1>6, <2>1
    <3>2. QED
      BY <1>2, <1>3, <1>6, <2>1, <3>1
  <2>2. CASE j = Len(w) + 1
    BY <1>2, <1>3, <1>4, <1>6, <2>2
  <2>3. QED
    BY <1>3, <1>4, <2>1, <2>2
<1>7. s \notin broken' /\ at'[s] = "wait"
  BY <1>1 DEF StreamWrites
<1>8. QED
  BY <1>1, <1>5, <1>6, <1>7 DEF WireGrows

(* What reader.Next takes out of a connection, and what it leaves. *)
LEMMA ReceivedSnapshot ==
    ASSUME StreamInv, NEW n \in Nodes, Receive(n)
    PROVE  LET s == conn[n] IN
           /\ s \in Streams /\ s \notin broken /\ at[s] # "off" /\ of[s] = n
           /\ 1 \in 1..Len(wire[s])
           /\ seen' = [seen EXCEPT ![n] = wire[s][1]]
           /\ wire' = [wire EXCEPT ![s] = Tail(wire[s])]
           /\ wire'[s] = Tail(wire[s])
           /\ \A i \in 1..Len(wire'[s]) :
                  i + 1 \in 1..Len(wire[s]) /\ wire'[s][i] = wire[s][i + 1]
<1> DEFINE s == conn[n]
           w == wire[s]
<1>1. /\ s \in Streams /\ s # None /\ w \in Seq(SUBSET Containers) /\ w # <<>>
      /\ seen' = [seen EXCEPT ![n] = Head(w)]
      /\ wire' = [wire EXCEPT ![s] = Tail(w)]
      /\ wire'[s] = Tail(w)
  BY DEF StreamInv, TypeOK, Receive
<1>2. s \notin broken /\ at[s] # "off" /\ of[s] = n
  BY <1>1 DEF StreamInv, WireGrows, ReaderGrows
<1>3. /\ 1 \in 1..Len(w) /\ Head(w) = w[1]
      /\ \A i \in 1..Len(Tail(w)) : i + 1 \in 1..Len(w) /\ Tail(w)[i] = w[i + 1]
  <2>1. w \in Seq(SUBSET Containers) /\ w # <<>>
    BY <1>1
  <2> HIDE DEF w
  <2>2. QED
    BY <2>1
<1>4. QED
  BY <1>1, <1>2, <1>3

LEMMA ReadWireGrows ==
    ASSUME StreamInv, NEW n \in Nodes, Receive(n)
    PROVE  WireGrows(conn[n])'
<1> DEFINE s == conn[n]
           w == wire[s]
<1>1. /\ s \in Streams /\ s \notin broken /\ at[s] # "off" /\ Len(w) \in Nat
      /\ \A i \in 1..Len(wire'[s]) : i + 1 \in 1..Len(w) /\ wire'[s][i] = w[i + 1]
      /\ Len(wire'[s]) \in Nat
  <2>1. s \in Streams /\ wire[s] # <<>> /\ wire'[s] = Tail(wire[s])
    BY ReceivedSnapshot DEF Receive
  <2>2. wire[s] \in Seq(SUBSET Containers)
    BY <2>1 DEF StreamInv, TypeOK
  <2>3. Len(wire[s]) \in Nat /\ Len(wire'[s]) \in Nat
    <3> HIDE DEF s
    <3> QED BY <2>1, <2>2
  <2>4. QED
    BY <2>3, ReceivedSnapshot
<1>2. UNCHANGED <<assigned, at, of, response, broken>> /\ conn' = conn
  BY DEF Receive
<1>3. WireGrows(s)
  BY <1>1 DEF StreamInv
<1>4. \A i \in 1..Len(wire'[s]) : wire'[s][i] \subseteq AssignedTo(of[s])
  BY <1>1, <1>3 DEF WireGrows
<1>5. ASSUME NEW i \in 1..Len(wire'[s]), NEW j \in 1..Len(wire'[s]), i <= j
      PROVE  wire'[s][i] \subseteq wire'[s][j]
  <2>1. i + 1 <= j + 1
    BY <1>1, <1>5
  <2>2. QED
    BY <1>1, <1>3, <1>5, <2>1 DEF WireGrows
<1>6. at[s] = "write" => /\ response[s] \subseteq AssignedTo(of[s])
                         /\ \A i \in 1..Len(wire'[s]) : wire'[s][i] \subseteq response[s]
  BY <1>1, <1>3 DEF WireGrows
<1>7. QED
  BY <1>1, <1>2, <1>4, <1>5, <1>6 DEF WireGrows, AssignedTo

LEMMA WiresGrow ==
    ASSUME StreamInv, [Next]_vars, NEW t \in Streams
    PROVE  WireGrows(t)'
<1> USE DEF watcher, streams, workers
<1>1. /\ at \in [Streams -> {"off", "watch", "list", "write", "wait"}]
      /\ of \in [Streams -> Nodes \cup {None}]
      /\ response \in [Streams -> SUBSET Containers]
      /\ wire \in [Streams -> Seq(SUBSET Containers)]
      /\ WireGrows(t)
  BY DEF StreamInv, TypeOK
<1>2. CASE UNCHANGED <<at, of, response, wire, broken>>
  BY <1>2, IdleHandlerGrows
<1>3. ASSUME NEW s \in Streams, StreamWatches(s) \/ StreamWakes(s) PROVE WireGrows(t)'
  <2>1. UNCHANGED <<wire, of, broken>> /\ (at'[t] = at[t] \/ at'[t] \notin {"off", "write"})
        /\ response' = response
    BY <1>1, <1>3 DEF StreamWatches, StreamWakes
  <2>2. QED
    BY <2>1, IdleHandlerGrows
<1>4. ASSUME NEW s \in Streams, StreamLists(s) PROVE WireGrows(t)'
  <2>1. CASE t = s
    BY <1>1, <1>4, <2>1 DEF StreamLists, WireGrows, AssignedTo
  <2>2. CASE t # s
    <3>1. UNCHANGED <<wire[t], of[t], at[t], response[t], broken>>
      BY <1>1, <1>4, <2>2 DEF StreamLists
    <3>2. QED
      BY <3>1, IdleHandlerGrows
  <2>3. QED
    BY <2>1, <2>2
<1>5. ASSUME NEW s \in Streams, StreamWrites(s) PROVE WireGrows(t)'
  <2>1. CASE t = s /\ s \notin broken
    BY <1>5, <2>1, WrittenWireGrows
  <2>2. CASE t # s \/ s \in broken
    <3>1. UNCHANGED <<wire[t], of[t], response[t], broken>>
          /\ (at'[t] = at[t] \/ at'[t] \notin {"off", "write"})
      BY <1>1, <1>5, <2>2 DEF StreamWrites
    <3>2. QED
      BY <3>1, IdleHandlerGrows
  <2>3. QED
    BY <2>1, <2>2
<1>6. ASSUME NEW s \in Streams, StreamEnds(s) PROVE WireGrows(t)'
  <2>1. CASE t = s
    <3>1. wire'[t] = <<>> /\ at'[t] # "write"
      BY <1>1, <1>6, <2>1 DEF StreamEnds, Gone, WireGrows
    <3>2. QED
      BY <3>1, EmptyWireGrows
  <2>2. CASE t # s
    <3>1. UNCHANGED <<wire[t], of[t], at[t], response[t], broken>>
      BY <1>1, <1>6, <2>2 DEF StreamEnds, Gone
    <3>2. QED
      BY <3>1, IdleHandlerGrows
  <2>3. QED
    BY <2>1, <2>2
<1>7. ASSUME NEW s \in Streams, ConnectionBreaks(s) PROVE WireGrows(t)'
  <2>1. UNCHANGED <<assigned, of, at, response>>
    BY <1>7 DEF ConnectionBreaks
  <2>2. CASE t = s
    <3>1. wire'[t] = <<>>
      BY <1>1, <1>7, <2>2 DEF ConnectionBreaks
    <3>2. QED
      BY <2>1, <3>1, EmptyWireGrows
  <2>3. CASE t # s
    <3>1. wire'[t] = wire[t] /\ (t \in broken' => t \in broken)
      BY <1>1, <1>7, <2>3 DEF ConnectionBreaks
    <3>2. QED
      BY <2>1, <3>1, IdleHandlerGrows
  <2>4. QED
    BY <2>2, <2>3
<1>8. ASSUME NEW n \in Nodes, Connect(n) PROVE WireGrows(t)'
  <2>1. PICK s \in Streams : /\ at' = [at EXCEPT ![s] = "watch"]
                            /\ of' = [of EXCEPT ![s] = n]
                            /\ wire' = [wire EXCEPT ![s] = <<>>]
                            /\ broken' = broken \ {s}
    BY <1>8 DEF Connect
  <2>2. CASE t = s
    <3>1. wire'[t] = <<>> /\ at'[t] # "write"
      BY <1>1, <2>1, <2>2
    <3>2. QED
      BY <3>1, EmptyWireGrows
  <2>3. CASE t # s
    <3>1. UNCHANGED <<wire[t], of[t], at[t], response[t]>> /\ (t \in broken' => t \in broken)
      BY <1>1, <1>8, <2>1, <2>3 DEF Connect
    <3>2. QED
      BY <3>1, IdleHandlerGrows
  <2>4. QED
    BY <2>2, <2>3
<1>9. ASSUME NEW n \in Nodes, Receive(n) PROVE WireGrows(t)'
  <2>1. CASE t = conn[n]
    BY <1>9, <2>1, ReadWireGrows DEF Receive, WireGrows
  <2>2. CASE t # conn[n]
    <3>1. UNCHANGED <<wire[t], of[t], at[t], response[t], broken>>
      BY <1>1, <1>9, <2>2 DEF Receive
    <3>2. QED
      BY <3>1, IdleHandlerGrows
  <2>3. QED
    BY <2>1, <2>2
<1>10. ASSUME NEW n \in Nodes, WorkerRestarts(n) PROVE WireGrows(t)'
  <2>1. UNCHANGED <<assigned, of, at, response>>
    BY <1>10 DEF WorkerRestarts
  <2>2. CASE t = conn[n] /\ conn[n] # None
    <3>1. wire'[t] = <<>>
      BY <1>1, <1>10, <2>2 DEF WorkerRestarts
    <3>2. QED
      BY <2>1, <3>1, EmptyWireGrows
  <2>3. CASE t # conn[n] \/ conn[n] = None
    <3>1. wire'[t] = wire[t] /\ (t \in broken' => t \in broken)
      BY <1>1, <1>10, <2>3 DEF WorkerRestarts
    <3>2. QED
      BY <2>1, <3>1, IdleHandlerGrows
  <2>4. QED
    BY <2>2, <2>3
<1>11. CASE Crash
  <2>1. wire'[t] = <<>> /\ at'[t] # "write"
    BY <1>11 DEF Crash
  <2>2. QED
    BY <2>1, EmptyWireGrows
<1>12. QED
  BY <1>2, <1>3, <1>4, <1>5, <1>6, <1>7, <1>8, <1>9, <1>10, <1>11
     DEF Next, CommitAssignment, Notify, StreamReads, ReadFails, Restart, vars

----------------------------------------------------------------------------
(* A step that leaves the worker of n where it is, on a stream that is      *)
(* emptied or left alone, and that is broken or does not start to write.    *)
LEMMA IdleReaderGrows ==
    ASSUME StreamInv, [Next]_vars, NEW n \in Nodes,
           UNCHANGED <<seen[n], conn[n]>>,
           \A m \in Nodes : conn'[m] = conn[n] => conn'[m] = conn[m] \/ conn'[m] = None,
           conn[n] # None =>
               /\ UNCHANGED wire[conn[n]] \/ wire'[conn[n]] = <<>>
               /\ \/ conn[n] \in broken'
                  \/ /\ conn[n] \notin broken
                     /\ UNCHANGED of[conn[n]]
                     /\ \/ UNCHANGED <<at[conn[n]], response[conn[n]]>>
                        \/ at'[conn[n]] \notin {"off", "write"}
    PROVE  ReaderGrows(n)'
<1>1. seen'[n] \subseteq AssignedTo(n)'
  BY AssignedGrows DEF StreamInv, ReaderGrows
<1>2. QED
  BY <1>1 DEF StreamInv, ReaderGrows

LEMMA ReadersGrow ==
    ASSUME StreamInv, [Next]_vars, NEW n \in Nodes
    PROVE  ReaderGrows(n)'
<1> USE DEF watcher, streams, workers
<1>1. /\ at \in [Streams -> {"off", "watch", "list", "write", "wait"}]
      /\ of \in [Streams -> Nodes \cup {None}]
      /\ response \in [Streams -> SUBSET Containers]
      /\ wire \in [Streams -> Seq(SUBSET Containers)]
      /\ conn \in [Nodes -> Streams \cup {None}]
      /\ seen \in [Nodes -> SUBSET Containers]
      /\ ReaderGrows(n)
  BY DEF StreamInv, TypeOK
<1>2. CASE UNCHANGED <<at, of, response, wire, broken, conn, seen>>
  BY <1>2, IdleReaderGrows
<1>3. ASSUME NEW s \in Streams, StreamWatches(s) \/ StreamWakes(s) PROVE ReaderGrows(n)'
  <2>1. /\ UNCHANGED <<wire, of, broken, response, conn, seen>>
        /\ \A t \in Streams : at'[t] = at[t] \/ at'[t] \notin {"off", "write"}
    BY <1>1, <1>3 DEF StreamWatches, StreamWakes
  <2>2. QED
    BY <1>1, <2>1, IdleReaderGrows
<1>4. ASSUME NEW s \in Streams, StreamLists(s) PROVE ReaderGrows(n)'
  <2>1. UNCHANGED <<assigned, wire, of, broken, conn, seen>>
    BY <1>4 DEF StreamLists
  <2>2. CASE conn[n] = s
    BY <1>1, <1>4, <2>1, <2>2, NodeWatchAssumption DEF StreamLists, ReaderGrows, AssignedTo
  <2>3. CASE conn[n] # s
    <3>1. conn[n] # None => UNCHANGED <<at[conn[n]], response[conn[n]]>>
      BY <1>1, <1>4, <2>3 DEF StreamLists
    <3>2. QED
      BY <2>1, <3>1, IdleReaderGrows
  <2>4. QED
    BY <2>2, <2>3
<1>5. ASSUME NEW s \in Streams, StreamWrites(s) PROVE ReaderGrows(n)'
  <2>1. UNCHANGED <<assigned, response, of, broken, conn, seen>>
    BY <1>5 DEF StreamWrites
  <2>2. CASE conn[n] = s /\ s \notin broken
    <3>1. /\ wire[s] \in Seq(SUBSET Containers) /\ response[s] \in SUBSET Containers
          /\ wire'[s] = Append(wire[s], response[s])
          /\ at[s] = "write" /\ at'[s] = "wait"
      BY <1>1, <1>5, <2>2 DEF StreamWrites
    <3>2. /\ seen[n] \subseteq response[s] /\ of[s] = n
          /\ \A i \in 1..Len(wire[s]) : seen[n] \subseteq wire[s][i]
          /\ seen[n] \subseteq AssignedTo(n)
          /\ \A m \in Nodes : conn[m] = s => m = n
      BY <1>1, <2>2, <3>1, NodeWatchAssumption DEF ReaderGrows
    <3>3. \A i \in 1..Len(wire'[s]) : seen[n] \subseteq wire'[s][i]
      <4>1. \A i \in 1..Len(wire'[s]) : \/ i \in 1..Len(wire[s]) /\ wire'[s][i] = wire[s][i]
                                       \/ wire'[s][i] = response[s]
        BY <3>1
      <4>2. QED
        BY <3>2, <4>1
    <3>4. QED
      BY <2>1, <2>2, <3>1, <3>2, <3>3 DEF ReaderGrows, AssignedTo
  <2>3. CASE conn[n] # s \/ s \in broken
    <3>1. conn[n] # None =>
              /\ UNCHANGED wire[conn[n]]
              /\ conn[n] \notin broken => UNCHANGED at[conn[n]]
      BY <1>1, <1>5, <2>1, <2>3 DEF StreamWrites
    <3>2. QED
      BY <2>1, <3>1, IdleReaderGrows
  <2>4. QED
    BY <2>2, <2>3
<1>6. ASSUME NEW s \in Streams, StreamEnds(s) PROVE ReaderGrows(n)'
  <2>1. UNCHANGED <<wire, broken, conn, seen>> /\ s \in broken
    BY <1>6 DEF StreamEnds
  <2>2. conn[n] # None /\ conn[n] \notin broken =>
            UNCHANGED <<of[conn[n]], at[conn[n]], response[conn[n]]>>
    BY <1>1, <1>6, <2>1 DEF StreamEnds, Gone
  <2>3. QED
    BY <2>1, <2>2, IdleReaderGrows
<1>7. ASSUME NEW s \in Streams, ConnectionBreaks(s) PROVE ReaderGrows(n)'
  <2>1. UNCHANGED <<of, at, response, conn, seen>>
    BY <1>7 DEF ConnectionBreaks
  <2>2. conn[n] # None =>
            /\ UNCHANGED wire[conn[n]] \/ wire'[conn[n]] = <<>>
            /\ conn[n] \in broken' \/ conn[n] \notin broken
    BY <1>1, <1>7, <2>1 DEF ConnectionBreaks
  <2>3. QED
    BY <2>1, <2>2, IdleReaderGrows
<1>8. ASSUME NEW m \in Nodes, Connect(m) PROVE ReaderGrows(n)'
  <2>1. PICK s \in Streams : /\ \A l \in Nodes : conn[l] # s
                            /\ conn' = [conn EXCEPT ![m] = s]
                            /\ at' = [at EXCEPT ![s] = "watch"]
                            /\ of' = [of EXCEPT ![s] = m]
                            /\ wire' = [wire EXCEPT ![s] = <<>>]
                            /\ broken' = broken \ {s}
    BY <1>8 DEF Connect
  <2>2. UNCHANGED <<assigned, response, seen>> /\ conn[m] = None
    BY <1>8 DEF Connect
  <2>3. CASE m = n
    <3>1. /\ conn'[n] = s /\ at'[s] = "watch" /\ of'[s] = n /\ wire'[s] = <<>>
          /\ \A l \in Nodes : conn'[l] = s => l = n
      BY <1>1, <2>1, <2>3
    <3>2. seen[n] \subseteq AssignedTo(n)
      BY <1>1 DEF ReaderGrows
    <3>3. QED
      BY <2>2, <3>1, <3>2 DEF ReaderGrows, AssignedTo
  <2>4. CASE m # n
    <3>1. /\ conn'[n] = conn[n] /\ conn[n] # s
          /\ \A l \in Nodes : conn'[l] = conn[n] => conn'[l] = conn[l]
      BY <1>1, <2>1, <2>4
    <3>2. conn[n] # None =>
              /\ UNCHANGED <<wire[conn[n]], of[conn[n]], at[conn[n]]>>
              /\ conn[n] \in broken' <=> conn[n] \in broken
      BY <1>1, <2>1, <3>1
    <3>3. QED
      BY <2>2, <3>1, <3>2, IdleReaderGrows
  <2>5. QED
    BY <2>3, <2>4
<1>9. ASSUME NEW m \in Nodes, Receive(m) PROVE ReaderGrows(n)'
  <2>1. UNCHANGED <<assigned, of, at, response, broken, conn>>
    BY <1>9 DEF Receive
  <2>2. CASE m = n
    <3> DEFINE s == conn[n]
    <3>1. /\ s \in Streams /\ s \notin broken /\ at[s] # "off" /\ of[s] = n
          /\ 1 \in 1..Len(wire[s])
          /\ seen'[n] = wire[s][1]
          /\ \A i \in 1..Len(wire'[s]) :
                 i + 1 \in 1..Len(wire[s]) /\ wire'[s][i] = wire[s][i + 1]
      BY <1>1, <1>9, <2>2, ReceivedSnapshot
    <3>2. /\ \A l \in Nodes : conn[l] = s => l = n
          /\ WireGrows(s)
      BY <1>1, <3>1, NodeWatchAssumption DEF StreamInv, ReaderGrows
    <3>3. /\ seen'[n] \subseteq AssignedTo(n)
          /\ at[s] = "write" => seen'[n] \subseteq response[s]
      BY <3>1, <3>2 DEF WireGrows
    <3>4. ASSUME NEW i \in 1..Len(wire'[s]) PROVE seen'[n] \subseteq wire'[s][i]
      <4>1. 1 <= i + 1
        BY <3>1
      <4>2. QED
        BY <3>1, <3>2, <4>1 DEF WireGrows
    <3>5. QED
      BY <2>1, <3>1, <3>2, <3>3, <3>4 DEF ReaderGrows, AssignedTo
  <2>3. CASE m # n
    <3>1. conn[m] # None /\ conn[m] # conn[n] /\ ReaderGrows(m)
      BY <1>9, <2>3 DEF Receive, StreamInv, ReaderGrows
    <3>2. seen'[n] = seen[n] /\ (conn[n] # None => UNCHANGED wire[conn[n]])
      BY <1>1, <1>9, <2>1, <2>3, <3>1 DEF Receive
    <3>3. QED
      BY <2>1, <3>2, IdleReaderGrows
  <2>4. QED
    BY <2>2, <2>3
<1>10. ASSUME NEW m \in Nodes, ReadFails(m) PROVE ReaderGrows(n)'
  <2>1. UNCHANGED <<assigned, wire, of, at, response, broken, seen>>
        /\ conn' = [conn EXCEPT ![m] = None]
    BY <1>10 DEF ReadFails
  <2>2. CASE m = n
    BY <1>1, <2>1, <2>2 DEF ReaderGrows, AssignedTo
  <2>3. CASE m # n
    BY <1>1, <2>1, <2>3, IdleReaderGrows
  <2>4. QED
    BY <2>2, <2>3
<1>11. ASSUME NEW m \in Nodes, WorkerRestarts(m) PROVE ReaderGrows(n)'
  <2>1. UNCHANGED <<assigned, of, at, response>>
        /\ conn' = [conn EXCEPT ![m] = None]
        /\ seen' = [seen EXCEPT ![m] = {}]
    BY <1>11 DEF WorkerRestarts
  <2>2. CASE m = n
    BY <1>1, <2>1, <2>2 DEF ReaderGrows
  <2>3. CASE m # n
    <3>1. conn[m] # None => conn[m] # conn[n]
      BY <2>3 DEF StreamInv, ReaderGrows
    <3>2. conn[n] # None =>
              /\ wire'[conn[n]] = wire[conn[n]]
              /\ conn[n] \in broken' <=> conn[n] \in broken
      BY <1>1, <1>11, <3>1 DEF WorkerRestarts
    <3>3. QED
      BY <1>1, <2>1, <2>3, <3>2, IdleReaderGrows
  <2>4. QED
    BY <2>2, <2>3
<1>12. CASE Crash
  <2>1. UNCHANGED <<conn, seen>> /\ broken' = Streams /\ \A s \in Streams : wire'[s] = <<>>
    BY <1>12 DEF Crash
  <2>2. QED
    BY <1>1, <2>1, IdleReaderGrows
<1>13. QED
  BY <1>2, <1>3, <1>4, <1>5, <1>6, <1>7, <1>8, <1>9, <1>10, <1>11, <1>12
     DEF Next, CommitAssignment, Notify, StreamReads, Restart, vars

LEMMA NextSeenGrows ==
    ASSUME StreamInv, [Next]_vars, NEW n \in Nodes, ~WorkerRestarts(n)
    PROVE  seen[n] \subseteq seen'[n]
<1>1. ASSUME NEW m \in Nodes, Receive(m) PROVE seen[n] \subseteq seen'[n]
  <2>1. CASE m = n
    <3>1. /\ conn[n] # None /\ 1 \in 1..Len(wire[conn[n]])
          /\ seen' = [seen EXCEPT ![n] = wire[conn[n]][1]]
      BY <1>1, <2>1, ReceivedSnapshot DEF Receive
    <3>2. ReaderGrows(n) /\ seen \in [Nodes -> SUBSET Containers]
      BY DEF StreamInv, TypeOK
    <3>3. QED
      BY <3>1, <3>2 DEF ReaderGrows
  <2>2. CASE m # n
    BY <1>1, <2>2 DEF Receive, StreamInv, TypeOK
  <2>3. QED
    BY <2>1, <2>2
<1>2. ASSUME NEW m \in Nodes, WorkerRestarts(m) PROVE seen[n] \subseteq seen'[n]
  BY <1>2 DEF WorkerRestarts, StreamInv, TypeOK
<1>3. CASE UNCHANGED seen
  BY <1>3
<1>4. QED
  BY <1>1, <1>2, <1>3 DEF Next, CommitAssignment, Notify, StreamReads, StreamWatches,
     StreamLists, StreamWrites, StreamWakes, StreamEnds, ConnectionBreaks, Connect, ReadFails,
     Crash, Restart, vars, streams, workers

(* What a worker reads only adds to what it read before, until it restarts: *)
(* across full and broken connections, handlers that outlive their client   *)
(* and crashes of the server.                                               *)
THEOREM NodeWatchSeenOnlyGrows == Safety => SeenOnlyGrows
<1>1. StreamInv /\ [Next]_vars => StreamInv'
  BY NextTypeOK, WiresGrow, ReadersGrow DEF StreamInv
<1>2. StreamInv /\ [Next]_vars =>
          [\A n \in Nodes : seen[n] \subseteq seen'[n] \/ WorkerRestarts(n)]_vars
  BY NextSeenGrows
<1>3. QED
  BY <1>1, <1>2, InitStreamInv, PTL DEF Safety, SeenOnlyGrows

SeenIsAssigned == \A n \in Nodes : seen[n] \subseteq AssignedTo(n)

(* A worker has only seen containers that the store has placed on its node, *)
(* whatever handler wrote to it and whichever server did (runWatch).        *)
THEOREM NodeWatchSeenIsAssigned == Safety => []SeenIsAssigned
<1>1. StreamInv /\ [Next]_vars => StreamInv'
  BY NextTypeOK, WiresGrow, ReadersGrow DEF StreamInv
<1>2. StreamInv => SeenIsAssigned
  BY DEF StreamInv, ReaderGrows, SeenIsAssigned
<1>3. QED
  BY <1>1, <1>2, InitStreamInv, PTL DEF Safety
============================================================================
