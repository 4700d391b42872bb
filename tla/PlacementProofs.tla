-------------------------- MODULE PlacementProofs --------------------------
(***************************************************************************)
(* Proofs about Placement, for any containers, names, number of nodes,     *)
(* timers and crashes.                                                     *)
(*                                                                         *)
(* The queue is not looked into again: every step of Placement is a step   *)
(* of WorkQueue, a stutter of it or a fresh queue, so its invariant comes  *)
(* from WorkQueueProofs.  What a step does to the store is said once, by   *)
(* StoreStep, and the properties of the store follow from that.            *)
(***************************************************************************)
EXTENDS Placement, FiniteSetTheorems, WellFoundedInduction, TLAPS

QP == INSTANCE WorkQueueProofs WITH
        Names <- Containers, Getters <- {Scheduler}, NoName <- None

(* The part of the state that knows neither the queue nor the store. *)
LocalTypeOK ==
    /\ adding \subseteq Containers
    /\ sched \in {"off", "list", "hydrate", "get", "assign", "notify", "retry",
                  "done", "returned"}
    /\ todo \subseteq Containers
    /\ picked \in Nodes \cup {NoNode}
    /\ crashes \in 0..MaxCrashes
    /\ reachable \subseteq Nodes
    /\ ready \subseteq Nodes

StoreTypeOK == stored \in [Containers -> ContainerRecord \cup {None}]

(* The scheduler holds a name exactly between Get and Done. *)
HoldsWhileWorking == current # None <=> sched \in {"assign", "notify", "retry", "done"}

Base == LocalTypeOK /\ StoreTypeOK /\ QP!IInv /\ HoldsWhileWorking

----------------------------------------------------------------------------
(* The queue. *)

LEMMA QueueAssumption == QP!QueueConstants
<1>1. QP!IsFiniteSet({Scheduler})
  <2> DEFINE seq == <<Scheduler>>
  <2>1. /\ seq \in Seq({Scheduler})
        /\ Len(seq) = 1
        /\ seq[1] = Scheduler
    OBVIOUS
  <2> HIDE DEF seq
  <2>2. \A s \in {Scheduler} : \E n \in 1..Len(seq) : seq[n] = s
    BY <2>1
  <2> QED
    BY <2>1, <2>2 DEF QP!IsFiniteSet
<1> QED
  BY <1>1, PlacementAssumption DEF PlacementAssumption, QP!QueueConstants

(* Placement's own instance of WorkQueue is the one WorkQueueProofs is about. *)
LEMMA SameQueue ==
    /\ \A c \in Containers : /\ Q!Add(c) => QP!Add(c)
                             /\ Q!AddAfter(c) => QP!AddAfter(c)
                             /\ Q!DelayEnds(c) => QP!DelayEnds(c)
    /\ Q!GetWaits(Scheduler) => QP!GetWaits(Scheduler)
    /\ Q!GetShutdown(Scheduler) => QP!GetShutdown(Scheduler)
    /\ Q!GetName(Scheduler) => QP!GetName(Scheduler)
    /\ Q!Done(Scheduler) => QP!Done(Scheduler)
    /\ Q!Shutdown => QP!Shutdown
    /\ Q!Init <=> QP!Init
    /\ Q!TypeOK <=> QP!TypeOK
<1>1. ASSUME NEW c \in Containers
      PROVE  /\ Q!Add(c) => QP!Add(c)
             /\ Q!AddAfter(c) => QP!AddAfter(c)
             /\ Q!DelayEnds(c) => QP!DelayEnds(c)
  BY DEF Q!Add, QP!Add, Q!AddAfter, QP!AddAfter, Q!DelayEnds, QP!DelayEnds,
     Q!AddBody, QP!AddBody, Q!Enqueue, QP!Enqueue, Q!Signal, QP!Signal,
     Q!qvars, QP!qvars, Q!cond, QP!cond
<1>2. Q!GetWaits(Scheduler) => QP!GetWaits(Scheduler)
  BY DEF Q!GetWaits, QP!GetWaits, Q!Running, QP!Running, Q!qvars, QP!qvars
<1>3. Q!GetShutdown(Scheduler) => QP!GetShutdown(Scheduler)
  BY DEF Q!GetShutdown, QP!GetShutdown, Q!Running, QP!Running, Q!qvars, QP!qvars
<1>4. Q!GetName(Scheduler) => QP!GetName(Scheduler)
  BY DEF Q!GetName, QP!GetName, Q!Running, QP!Running
<1>5. Q!Done(Scheduler) => QP!Done(Scheduler)
  BY DEF Q!Done, QP!Done, Q!Enqueue, QP!Enqueue, Q!Signal, QP!Signal, Q!cond, QP!cond
<1>6. Q!Shutdown => QP!Shutdown
  BY DEF Q!Shutdown, QP!Shutdown
<1>7. Q!Init <=> QP!Init
  BY DEF Q!Init, QP!Init
<1>8. Q!TypeOK <=> QP!TypeOK
  BY DEF Q!TypeOK, QP!TypeOK
<1> QED
  BY <1>1, <1>2, <1>3, <1>4, <1>5, <1>6, <1>7, <1>8

QueueStep == [QP!Next]_(QP!vars)

LEMMA NextQueueStep ==
    LocalTypeOK /\ (sched = "retry" => current \in Containers) /\ [Next]_vars => QueueStep \/ NewQueue
<1> SUFFICES ASSUME LocalTypeOK, sched = "retry" => current \in Containers,
                    [Next]_vars
             PROVE  QueueStep \/ NewQueue
  OBVIOUS
<1>1. CASE UNCHANGED queue
  BY <1>1 DEF queue, QueueStep, QP!vars, QP!qvars, QP!cond
<1>2. ASSUME NEW c \in Containers, Q!Add(c) \/ Q!AddAfter(c) \/ Q!DelayEnds(c)
      PROVE  QueueStep \/ NewQueue
  BY <1>2, SameQueue DEF QueueStep, QP!Next
<1>3. CASE Q!Get(Scheduler) \/ Q!Done(Scheduler)
  BY <1>3, SameQueue DEF Q!Get, QueueStep, QP!Next
<1>4. CASE Q!Shutdown
  BY <1>4, SameQueue DEF QueueStep, QP!Next
<1>5. ASSUME NEW c \in Containers, Create(c) \/ RetryTimer(c)
      PROVE  QueueStep \/ NewQueue
  <2>1. UNCHANGED queue \/ Q!Add(c) \/ Q!DelayEnds(c)
    BY <1>5 DEF Create, CreateCommit, CreateAdd, RetryTimer
  <2> QED
    BY <1>1, <1>2, <2>1
<1>6. CASE RunAdds
  <2>1. UNCHANGED queue \/ \E c \in Containers : Q!Add(c)
    BY <1>6 DEF RunAdds, LocalTypeOK
  <2> QED
    BY <1>1, <1>2, <2>1
<1>7. CASE RunRetries
  BY <1>2, <1>7 DEF RunRetries
<1>8. CASE Crash
  BY <1>8 DEF Crash
<1>9. CASE \E c \in Containers : Create(c) \/ RetryTimer(c)
  BY <1>5, <1>9
<1>10. CASE SchedulerStep
  <2>1. UNCHANGED queue \/ RunAdds \/ Q!Get(Scheduler) \/ Q!Done(Scheduler)
        \/ RunRetries
    BY <1>10 DEF SchedulerStep, RunLists, RunGets, Assign, AssignFails, Notify,
       RunDone
  <2> QED
    BY <1>1, <1>3, <1>6, <1>7, <2>1
<1>11. CASE Shutdown
  BY <1>4, <1>11 DEF Shutdown
<1>12. ASSUME NEW n \in Nodes,
              Report(n, TRUE) \/ Report(n, FALSE) \/ NewSession(n)
              \/ HeartbeatExpires(n)
       PROVE  UNCHANGED queue
  BY <1>12 DEF Report, NewSession, HeartbeatExpires
<1>13. Restart \/ UNCHANGED vars => UNCHANGED queue
  BY DEF Restart, vars
<1> QED
  BY <1>1, <1>8, <1>9, <1>10, <1>11, <1>12, <1>13 DEF Next

----------------------------------------------------------------------------
(* The scheduler's hold on the queue. *)

LEMMA ServingKept ==
    ASSUME NEW c \in Containers,
           Q!Add(c) \/ Q!AddAfter(c) \/ Q!DelayEnds(c) \/ Q!Shutdown
    PROVE  serving' = serving
BY DEF Q!Add, Q!AddAfter, Q!DelayEnds, Q!Shutdown

LEMMA CurrentType == QP!IInv => current \in Containers \cup {None}
BY DEF QP!IInv, QP!TypeOK, current

(* A step outside RunGets and RunDone leaves the scheduler with what it holds. *)
LEMMA NextHolds ==
    ASSUME Base, Next
    PROVE  HoldsWhileWorking'
<1> USE DEF Base
<1>1. ASSUME NEW c \in Containers, Create(c) \/ RetryTimer(c)
      PROVE  serving' = serving /\ sched' = sched
  BY <1>1, ServingKept DEF Create, CreateCommit, CreateAdd, RetryTimer, queue
<1>2. CASE RunLists \/ RunAdds
  <2>1. UNCHANGED queue \/ \E c \in Containers : Q!Add(c)
    BY <1>2 DEF RunLists, RunAdds, LocalTypeOK
  <2>2. serving' = serving
    BY <2>1, ServingKept DEF queue
  <2>3. sched \in {"list", "hydrate"} /\ sched' \in {"hydrate", "get"}
    BY <1>2 DEF RunLists, RunAdds
  <2> QED
    BY <2>2, <2>3 DEF HoldsWhileWorking, current
<1>3. CASE RunGets
  <2>1. CASE Q!GetWaits(Scheduler)
    <3>1. serving' = serving /\ stopped' = stopped /\ current = None
          /\ Scheduler \notin stopped
      BY <2>1 DEF Q!GetWaits, Q!Running, current
    <3>2. sched' = "get"
      BY <1>3, <3>1 DEF RunGets, current
    <3> QED
      BY <3>1, <3>2 DEF HoldsWhileWorking, current
  <2>2. CASE Q!GetShutdown(Scheduler)
    <3>1. serving' = serving /\ Scheduler \in stopped' /\ current = None
      BY <2>2 DEF Q!GetShutdown, Q!Running, current
    <3>2. sched' = "returned"
      BY <1>3, <3>1 DEF RunGets, current
    <3> QED
      BY <3>1, <3>2 DEF HoldsWhileWorking, current
  <2>3. CASE Q!GetName(Scheduler)
    <3>1. items \in Seq(Containers) /\ items # <<>>
      BY <2>3 DEF QP!IInv, QP!TypeOK, Q!GetName
    <3>2. Head(items) \in Containers
      BY <3>1
    <3>3. serving' = [serving EXCEPT ![Scheduler] = Head(items)]
      BY <2>3 DEF Q!GetName
    <3>4. serving'[Scheduler] \in Containers
      BY <3>2, <3>3 DEF QP!IInv, QP!TypeOK
    <3>5. serving'[Scheduler] # None
      BY <3>4, PlacementAssumption DEF PlacementAssumption
    <3>6. sched' = "assign"
      BY <1>3, <3>5 DEF RunGets
    <3> QED
      BY <3>5, <3>6 DEF HoldsWhileWorking, current
  <2> QED
    BY <1>3, <2>1, <2>2, <2>3 DEF RunGets, Q!Get
<1>4. CASE Assign \/ AssignFails \/ Notify
  <2>1. /\ sched \in {"assign", "notify"}
        /\ sched' \in {"done", "notify", "retry"}
        /\ serving' = serving
    BY <1>4 DEF Assign, AssignSkips, AssignPicks, AssignFindsNone, AssignFails,
       Notify, queue
  <2> QED
    BY <2>1 DEF HoldsWhileWorking, current
<1>5. CASE RunRetries
  <2>1. sched = "retry" /\ sched' = "done" /\ Q!AddAfter(current)
    BY <1>5 DEF RunRetries
  <2>2. current \in Containers
    BY <2>1, CurrentType DEF HoldsWhileWorking
  <2>3. serving' = serving
    BY <2>1, <2>2, ServingKept
  <2> QED
    BY <2>1, <2>3 DEF HoldsWhileWorking, current
<1>6. CASE RunDone
  <2>1. serving' = [serving EXCEPT ![Scheduler] = None] /\ sched' = "get"
    BY <1>6 DEF RunDone, Q!Done
  <2> QED
    BY <2>1 DEF HoldsWhileWorking, current, QP!IInv, QP!TypeOK
<1>7. ASSUME NEW n \in Nodes,
             Report(n, TRUE) \/ Report(n, FALSE) \/ NewSession(n)
             \/ HeartbeatExpires(n)
      PROVE  serving' = serving /\ sched' = sched
  BY <1>7 DEF Report, NewSession, HeartbeatExpires, queue
<1>8. CASE Shutdown
  BY <1>8 DEF Shutdown, Q!Shutdown, HoldsWhileWorking, current
<1>9. CASE Crash
  BY <1>9 DEF Crash, NewQueue, HoldsWhileWorking, current
<1>10. CASE Restart
  BY <1>10 DEF Restart, queue, HoldsWhileWorking, current
<1>11. serving' = serving /\ sched' = sched => HoldsWhileWorking'
  BY DEF HoldsWhileWorking, current
<1> QED
  BY <1>1, <1>2, <1>3, <1>4, <1>5, <1>6, <1>7, <1>8, <1>9, <1>10, <1>11
     DEF Next, SchedulerStep

----------------------------------------------------------------------------
(* What a step does to the store: nothing, add a container under a free     *)
(* name, or move one container on.                                          *)

MovesOn(old, new) ==
    /\ new \in ContainerRecord
    /\ new.name = old.name
    /\ old.node # NoNode => new.node = old.node
    /\ old.state = "exited" => new.state = "exited"
    /\ old.state = "running" => new.state # "pending"
    /\ new.noNode => new.node = NoNode
    /\ new.state # "pending" => new.node # NoNode

StoreStep ==
    \/ UNCHANGED stored
    \/ \E c \in Containers, name \in ContainerNames :
          /\ stored[c] = None
          /\ ~NameTaken(name)
          /\ stored' = [stored EXCEPT ![c] = New(name)]
    \/ \E c \in Containers, r \in ContainerRecord :
          /\ stored[c] # None
          /\ MovesOn(stored[c], r)
          /\ stored' = [stored EXCEPT ![c] = r]

LEMMA PresentRecord ==
    ASSUME StoreTypeOK, NEW c \in Present
    PROVE  c \in Containers /\ stored[c] \in ContainerRecord
BY DEF StoreTypeOK, Present

LEMMA AssignStore ==
    ASSUME Base, Assign, Unassigned(current)
    PROVE  StoreStep
<1>1. current \in Present /\ current \in Containers
      /\ stored[current] \in ContainerRecord /\ stored[current] # None
  BY PresentRecord DEF Base, Unassigned, Present
<1>2. stored[current].node = NoNode /\ stored[current].state = "pending"
  BY DEF Unassigned
<1>3. stored \in [Containers -> ContainerRecord \cup {None}]
  BY DEF Base, StoreTypeOK
<1>4. ASSUME NEW n \in Nodes,
             stored' = [stored EXCEPT ![current] = [@ EXCEPT !.node = n, !.noNode = FALSE]]
      PROVE  StoreStep
  <2> DEFINE r == [stored[current] EXCEPT !.node = n, !.noNode = FALSE]
  <2>1. stored' = [stored EXCEPT ![current] = r]
    BY <1>1, <1>3, <1>4
  <2>2. /\ r \in ContainerRecord /\ r.name = stored[current].name
        /\ r.state = "pending" /\ r.noNode = FALSE /\ r.node = n
    BY <1>1, <1>2 DEF ContainerRecord
  <2>3. MovesOn(stored[current], r)
    BY <1>2, <2>2 DEF MovesOn
  <2> QED
    BY <1>1, <2>1, <2>2, <2>3 DEF StoreStep
<1>5. ASSUME stored' = [stored EXCEPT ![current].noNode = TRUE]
      PROVE  StoreStep
  <2> DEFINE r == [stored[current] EXCEPT !.noNode = TRUE]
  <2>1. stored' = [stored EXCEPT ![current] = r]
    BY <1>1, <1>3, <1>5
  <2>2. /\ r \in ContainerRecord /\ r.name = stored[current].name
        /\ r.state = "pending" /\ r.noNode = TRUE /\ r.node = NoNode
    BY <1>1, <1>2 DEF ContainerRecord
  <2>3. MovesOn(stored[current], r)
    BY <1>2, <2>2 DEF MovesOn
  <2> QED
    BY <1>1, <2>1, <2>2, <2>3 DEF StoreStep
<1> QED
  BY <1>4, <1>5 DEF Assign, AssignSkips, AssignPicks, AssignFindsNone

LEMMA ReportStore ==
    ASSUME Base, NEW n \in Nodes, Report(n, TRUE) \/ Report(n, FALSE)
    PROVE  StoreStep
<1>1. CASE UNCHANGED stored
  BY <1>1 DEF StoreStep
<1>2. ASSUME NEW c \in Present, NEW state \in {"pending", "running", "exited"},
             stored[c].node = n, Accepts(c, state),
             stored' = [stored EXCEPT ![c] = [@ EXCEPT !.state = state, !.noNode = FALSE]]
      PROVE  StoreStep
  <2> DEFINE r == [stored[c] EXCEPT !.state = state, !.noNode = FALSE]
  <2>1. /\ c \in Containers /\ stored[c] \in ContainerRecord /\ stored[c] # None
        /\ stored \in [Containers -> ContainerRecord \cup {None}]
    BY PresentRecord DEF Base, Present, StoreTypeOK
  <2>2. stored' = [stored EXCEPT ![c] = r]
    BY <1>2, <2>1
  <2>3. /\ r \in ContainerRecord /\ r.name = stored[c].name
        /\ r.state = state /\ r.noNode = FALSE /\ r.node = n
    BY <1>2, <2>1 DEF ContainerRecord
  <2>4. n # NoNode
    BY PlacementAssumption DEF PlacementAssumption, Nodes, NoNode
  <2>5. /\ stored[c].state = "exited" => state = "exited"
        /\ stored[c].state = "running" => state # "pending"
    BY <1>2 DEF Accepts, Rank
  <2>6. MovesOn(stored[c], r)
    BY <1>2, <2>3, <2>4, <2>5 DEF MovesOn
  <2> QED
    BY <2>1, <2>2, <2>3, <2>6 DEF StoreStep
<1> QED
  BY <1>1, <1>2 DEF Report

LEMMA NextStoreStep == Base /\ [Next]_vars => StoreStep
<1> SUFFICES ASSUME Base, [Next]_vars
             PROVE  StoreStep
  OBVIOUS
<1>1. CASE UNCHANGED stored
  BY <1>1 DEF StoreStep
<1>2. ASSUME NEW c \in Containers, Create(c)
      PROVE  StoreStep
  <2>1. CASE CreateCommit(c)
    BY <2>1 DEF CreateCommit, StoreStep, Present
  <2>2. CASE CreateAdd(c)
    BY <1>1, <2>2 DEF CreateAdd, store
  <2> QED
    BY <1>2, <2>1, <2>2 DEF Create
<1>3. CASE Assign
  <2>1. CASE Unassigned(current)
    BY <1>3, <2>1, AssignStore
  <2>2. CASE ~Unassigned(current)
    BY <1>1, <1>3, <2>2 DEF Assign, AssignSkips
  <2> QED
    BY <2>1, <2>2
<1>4. ASSUME NEW n \in Nodes, Report(n, TRUE) \/ Report(n, FALSE)
      PROVE  StoreStep
  BY <1>4, ReportStore
<1>5. CASE SchedulerStep /\ ~Assign
  BY <1>1, <1>5 DEF SchedulerStep, RunLists, RunAdds, RunGets, AssignFails, Notify,
     RunRetries, RunDone, store
<1>6. ASSUME NEW n \in Nodes, NewSession(n) \/ HeartbeatExpires(n)
      PROVE  UNCHANGED stored
  BY <1>6 DEF NewSession, HeartbeatExpires
<1>7. ASSUME NEW c \in Containers, RetryTimer(c)
      PROVE  UNCHANGED stored
  BY <1>7 DEF RetryTimer, store
<1>8. Shutdown \/ Crash \/ Restart \/ UNCHANGED vars => UNCHANGED stored
  BY DEF Shutdown, Crash, Restart, vars, store
<1> QED
  BY <1>1, <1>2, <1>3, <1>4, <1>5, <1>6, <1>7, <1>8 DEF Next

LEMMA StoreStepType == StoreTypeOK /\ StoreStep => StoreTypeOK'
<1>1. \A name \in ContainerNames : New(name) \in ContainerRecord
  BY DEF New, ContainerRecord
<1> QED
  BY <1>1 DEF StoreTypeOK, StoreStep

----------------------------------------------------------------------------
(* Base is inductive. *)

LEMMA FreshQueue == NewQueue => QP!IInv'
<1>1. QP!Init => QP!IInv
  BY QP!InitIInv, QueueAssumption
<1>2. QP!Init' => QP!IInv'
  BY <1>1, PTL
<1>3. NewQueue => QP!Init'
  BY DEF NewQueue, QP!Init
<1> QED
  BY <1>2, <1>3

LEMMA InitBase == Init => Base
<1> SUFFICES ASSUME Init
             PROVE  Base
  OBVIOUS
<1>1. LocalTypeOK
  BY PlacementAssumption DEF PlacementAssumption, Init, LocalTypeOK
<1>2. StoreTypeOK
  BY DEF Init, StoreTypeOK
<1>3. QP!IInv
  BY SameQueue, QueueAssumption, QP!InitIInv DEF Init
<1>4. HoldsWhileWorking
  BY SameQueue DEF Init, QP!Init, HoldsWhileWorking, current
<1> QED
  BY <1>1, <1>2, <1>3, <1>4 DEF Base

LEMMA NextLocal == LocalTypeOK /\ [Next]_vars => LocalTypeOK'
<1> SUFFICES ASSUME LocalTypeOK, [Next]_vars
             PROVE  LocalTypeOK'
  OBVIOUS
<1> USE DEF LocalTypeOK
<1>1. ASSUME NEW c \in Containers, Create(c) \/ RetryTimer(c)
      PROVE  LocalTypeOK'
  BY <1>1 DEF Create, CreateCommit, CreateAdd, RetryTimer, store
<1>2. CASE RunLists \/ RunAdds \/ RunGets
  BY <1>2 DEF RunLists, RunAdds, RunGets, store
<1>3. CASE Assign
  BY <1>3 DEF Assign, AssignSkips, AssignPicks, AssignFindsNone
<1>4. CASE AssignFails \/ Notify \/ RunRetries \/ RunDone
  BY <1>4 DEF AssignFails, Notify, RunRetries, RunDone, store
<1>5. ASSUME NEW n \in Nodes,
             Report(n, TRUE) \/ Report(n, FALSE) \/ NewSession(n)
             \/ HeartbeatExpires(n)
      PROVE  LocalTypeOK'
  BY <1>5 DEF Report, NewSession, HeartbeatExpires
<1>6. CASE Crash
  BY <1>6, PlacementAssumption DEF PlacementAssumption, Crash, store
<1>7. CASE Shutdown \/ Restart \/ UNCHANGED vars
  BY <1>7 DEF Shutdown, Restart, vars, store
<1> QED
  BY <1>1, <1>2, <1>3, <1>4, <1>5, <1>6, <1>7 DEF Next, SchedulerStep

LEMMA NextBase == Base /\ [Next]_vars => Base'
<1> SUFFICES ASSUME Base, [Next]_vars
             PROVE  Base'
  OBVIOUS
<1>1. LocalTypeOK'
  BY NextLocal DEF Base
<1>2. StoreTypeOK'
  BY NextStoreStep, StoreStepType DEF Base
<1>3. QP!IInv'
  <2>1. sched = "retry" => current \in Containers
    BY CurrentType DEF Base, HoldsWhileWorking
  <2>2. CASE QueueStep
    BY <2>2, QP!NextIInv, QueueAssumption DEF Base, QueueStep
  <2> QED
    BY <2>1, <2>2, NextQueueStep, FreshQueue DEF Base
<1>4. HoldsWhileWorking'
  <2>1. CASE UNCHANGED vars
    BY <2>1 DEF vars, queue, Base, HoldsWhileWorking, current
  <2> QED
    BY <2>1, NextHolds
<1> QED
  BY <1>1, <1>2, <1>3, <1>4 DEF Base

LEMMA SafetyBase == Safety => []Base
BY InitBase, NextBase, PTL DEF Safety

(* The store, the scheduler and its queue keep their types through every    *)
(* create, report, retry, crash and restart.                                *)
THEOREM PlacementTypeOK == Spec => []TypeOK
<1>1. Base => TypeOK
  BY SameQueue DEF Base, LocalTypeOK, StoreTypeOK, QP!IInv, TypeOK
<1> QED
  BY <1>1, SafetyBase, PTL DEF Spec

----------------------------------------------------------------------------
(* The store. *)

StoreInv == UniqueNames /\ ReasonIsCurrent /\ StartedIsAssigned

LEMMA StoreStepInv == StoreTypeOK /\ StoreInv /\ StoreStep => StoreInv'
<1> SUFFICES ASSUME StoreTypeOK, StoreInv, StoreStep
             PROVE  StoreInv'
  OBVIOUS
<1> USE DEF StoreInv
<1>1. CASE UNCHANGED stored
  BY <1>1 DEF UniqueNames, ReasonIsCurrent, StartedIsAssigned, Present
<1>2. ASSUME NEW c \in Containers, NEW name \in ContainerNames,
             stored[c] = None, ~NameTaken(name),
             stored' = [stored EXCEPT ![c] = New(name)]
      PROVE  StoreInv'
  <2>1. /\ Present' \subseteq Present \cup {c}
        /\ \A d \in Present : d # c /\ stored'[d] = stored[d]
        /\ stored'[c] = New(name)
    BY <1>2 DEF StoreTypeOK, Present
  <2>2. /\ New(name).name = name /\ New(name).noNode = FALSE
        /\ New(name).state = "pending"
    BY DEF New
  <2>3. UniqueNames'
    BY <1>2, <2>1, <2>2 DEF UniqueNames, NameTaken
  <2>4. ReasonIsCurrent' /\ StartedIsAssigned'
    BY <2>1, <2>2 DEF ReasonIsCurrent, StartedIsAssigned
  <2> QED
    BY <2>3, <2>4
<1>3. ASSUME NEW c \in Containers, NEW r \in ContainerRecord,
             stored[c] # None, MovesOn(stored[c], r),
             stored' = [stored EXCEPT ![c] = r]
      PROVE  StoreInv'
  <2>1. /\ c \in Present
        /\ Present' \subseteq Present
        /\ stored'[c] = r
        /\ \A d \in Present : d # c => stored'[d] = stored[d]
    BY <1>3 DEF StoreTypeOK, Present
  <2>2. UniqueNames'
    BY <1>3, <2>1 DEF UniqueNames, MovesOn
  <2>3. ReasonIsCurrent' /\ StartedIsAssigned'
    BY <1>3, <2>1 DEF ReasonIsCurrent, StartedIsAssigned, MovesOn
  <2> QED
    BY <2>2, <2>3
<1> QED
  BY <1>1, <1>2, <1>3 DEF StoreStep

LEMMA SafetyStoreInv == Safety => []StoreInv
<1>1. Init => StoreInv
  BY DEF Init, StoreInv, UniqueNames, ReasonIsCurrent, StartedIsAssigned, Present
<1>2. Base /\ StoreInv /\ [Next]_vars => StoreInv'
  BY NextStoreStep, StoreStepInv DEF Base
<1> QED
  BY <1>1, <1>2, SafetyBase, PTL DEF Safety

(* The transaction of createContainerHandler never stores a second          *)
(* container under a name (containers.go:55-59).                            *)
THEOREM PlacementUniqueNames == Spec => []UniqueNames
<1>1. StoreInv => UniqueNames
  BY DEF StoreInv
<1> QED
  BY <1>1, SafetyStoreInv, PTL DEF Spec

(* assign and the reports leave no stale reason on a container that has a   *)
(* node, and no container without one has started (scheduler.go:120-142,    *)
(* nodes.go:417-462).                                                       *)
THEOREM PlacementStoreConsistent == Spec => [](ReasonIsCurrent /\ StartedIsAssigned)
<1>1. StoreInv => ReasonIsCurrent /\ StartedIsAssigned
  BY DEF StoreInv
<1> QED
  BY <1>1, SafetyStoreInv, PTL DEF Spec

(* No retry, late Add, report or restart moves a container that has a node  *)
(* (the check at the head of the transaction of assign).                    *)
THEOREM PlacementAssignedOnce == Spec => AssignedOnce
<1> DEFINE Once == \A c \in Present : stored[c].node # NoNode =>
                      stored'[c] # None /\ stored'[c].node = stored[c].node
<1>1. ASSUME Base, [Next]_vars
      PROVE  [Once]_vars
  <2>1. StoreStep
    BY <1>1, NextStoreStep
  <2>2. None \notin ContainerRecord
    BY PlacementAssumption DEF PlacementAssumption
  <2> QED
    BY <1>1, <2>1, <2>2 DEF Base, StoreTypeOK, StoreStep, MovesOn, Present
<1> QED
  BY <1>1, SafetyBase, PTL DEF Spec, Safety, AssignedOnce

(* No report takes a container back (the backward check of                  *)
(* reportNodeStatusHandler, nodes.go:433-446).                              *)
THEOREM PlacementLifecycleForward == Spec => LifecycleForward
<1> DEFINE Forward ==
      \A c \in Present : /\ stored[c].state = "exited" => stored'[c].state = "exited"
                         /\ stored[c].state = "running" => stored'[c].state # "pending"
<1>1. ASSUME Base, [Next]_vars
      PROVE  [Forward]_vars
  <2>1. StoreStep
    BY <1>1, NextStoreStep
  <2> QED
    BY <1>1, <2>1 DEF Base, StoreTypeOK, StoreStep, MovesOn, Present
<1> QED
  BY <1>1, SafetyBase, PTL DEF Spec, Safety, LifecycleForward

----------------------------------------------------------------------------
(* Nobody is forgotten. *)

(* The critical section of Add leaves its name in dirty.                    *)
LEMMA AddMarks ==
    ASSUME NEW d \in Containers, Q!AddBody(d)
    PROVE  dirty \subseteq dirty' /\ (shuttingDown \/ d \in dirty')
BY DEF Q!AddBody

(* A container that waits for a node did so before, or is new.              *)
LEMMA WaitedBefore ==
    ASSUME StoreTypeOK, StoreStep, NEW c \in Containers, Unassigned(c)'
    PROVE  Unassigned(c) \/ stored[c] = None
<1>1. CASE UNCHANGED stored
  BY <1>1 DEF Unassigned, Present
<1>2. ASSUME NEW d \in Containers, NEW name \in ContainerNames,
             stored[d] = None, stored' = [stored EXCEPT ![d] = New(name)]
      PROVE  Unassigned(c) \/ stored[c] = None
  BY <1>2 DEF StoreTypeOK, Unassigned, Present
<1>3. ASSUME NEW d \in Containers, NEW r \in ContainerRecord,
             stored[d] # None, MovesOn(stored[d], r),
             stored' = [stored EXCEPT ![d] = r]
      PROVE  Unassigned(c) \/ stored[c] = None
  <2>1. CASE d # c
    BY <1>3, <2>1 DEF StoreTypeOK, Unassigned, Present
  <2>2. CASE d = c
    <3>1. stored'[c] = r /\ stored[c] \in ContainerRecord
      BY <1>3, <2>2 DEF StoreTypeOK
    <3>2. r.node = NoNode /\ r.state = "pending"
      BY <3>1 DEF Unassigned
    <3>3. stored[c].state \in {"pending", "running", "exited"}
      BY <3>1 DEF ContainerRecord
    <3>4. stored[c].node = NoNode /\ stored[c].state = "pending"
      BY <1>3, <2>2, <3>2, <3>3 DEF MovesOn
    <3> QED
      BY <1>3, <2>2, <3>4 DEF Unassigned, Present
  <2> QED
    BY <2>1, <2>2
<1> QED
  BY <1>1, <1>2, <1>3 DEF StoreStep

LEMMA NextNoLost ==
    ASSUME Base, NoLostContainer, [Next]_vars
    PROVE  NoLostContainer'
<1> SUFFICES ASSUME Up', ~shuttingDown', NEW c \in Containers, Unassigned(c)'
             PROVE  InHand(c)'
  BY DEF NoLostContainer
<1>1. Unassigned(c) \/ stored[c] = None
  BY NextStoreStep, WaitedBefore DEF Base
<1>2. Up /\ ~shuttingDown /\ Unassigned(c) => InHand(c)
  BY DEF NoLostContainer
<1>3. CASE UNCHANGED vars
  BY <1>2, <1>3 DEF vars, store, queue, Up, Unassigned, Present, InHand, current
<1>4. ASSUME NEW d \in Containers, CreateCommit(d)
      PROVE  InHand(c)'
  <2>1. CASE c = d
    BY <1>4, <2>1 DEF CreateCommit, InHand
  <2>2. CASE c # d
    <3>1. stored[c] # None
      BY <1>4, <2>2 DEF CreateCommit, Base, StoreTypeOK, Unassigned, Present
    <3> QED
      BY <1>1, <1>2, <1>4, <3>1 DEF CreateCommit, InHand, queue, Up, current
  <2> QED
    BY <2>1, <2>2
<1>5. ASSUME stored' = stored
      PROVE  Unassigned(c)
  BY <1>5 DEF Unassigned, Present
<1>6. ASSUME NEW d \in Containers, CreateAdd(d)
      PROVE  InHand(c)'
  <2>1. dirty \subseteq dirty' /\ (shuttingDown \/ d \in dirty')
    BY <1>6, AddMarks DEF CreateAdd, Q!Add
  <2>2. /\ Up /\ adding' = adding \ {d} /\ stored' = stored
        /\ todo' = todo /\ timers' = timers /\ sched' = sched
        /\ serving' = serving /\ shuttingDown' = shuttingDown
    BY <1>6 DEF CreateAdd, Q!Add, store
  <2> QED
    BY <1>2, <1>5, <2>1, <2>2 DEF InHand, current
<1>7. ASSUME NEW d \in Containers, RetryTimer(d)
      PROVE  InHand(c)'
  <2>1. dirty \subseteq dirty' /\ (shuttingDown \/ d \in dirty')
    BY <1>7, AddMarks DEF RetryTimer, Q!DelayEnds
  <2>2. /\ timers' = [timers EXCEPT ![d] = @ - 1] /\ stored' = stored
        /\ adding' = adding /\ todo' = todo /\ sched' = sched
        /\ serving' = serving /\ shuttingDown' = shuttingDown
    BY <1>7 DEF RetryTimer, Q!DelayEnds, store
  <2>3. c # d => timers'[c] = timers[c]
    BY <2>2 DEF Base, QP!IInv, QP!TypeOK
  <2> QED
    BY <1>2, <1>5, <2>1, <2>2, <2>3 DEF InHand, current, Up
<1>8. CASE RunLists
  BY <1>5, <1>8 DEF RunLists, store, InHand
<1>9. CASE RunAdds
  <2>1. CASE todo = {} /\ UNCHANGED queue
    BY <1>2, <1>5, <1>9, <2>1 DEF RunAdds, queue, store, InHand, current, Up
  <2>2. ASSUME NEW d \in todo, todo' = todo \ {d}, Q!Add(d)
        PROVE  InHand(c)'
    <3>1. dirty \subseteq dirty' /\ (shuttingDown \/ d \in dirty')
      BY <2>2, AddMarks DEF Q!Add, Base, LocalTypeOK
    <3>2. /\ sched = "hydrate" /\ stored' = stored /\ adding' = adding
          /\ timers' = timers /\ shuttingDown' = shuttingDown
      BY <1>9, <2>2 DEF RunAdds, Q!Add, store
    <3> QED
      BY <1>2, <1>5, <2>2, <3>1, <3>2 DEF InHand, Up
  <2> QED
    BY <1>9, <2>1, <2>2 DEF RunAdds
<1>10. CASE RunGets
  <2>1. /\ sched = "get" /\ stored' = stored /\ adding' = adding
        /\ todo' = todo /\ timers' = timers /\ shuttingDown' = shuttingDown
    BY <1>10 DEF RunGets, store, Q!Get, Q!GetWaits, Q!GetShutdown, Q!GetName, Q!qvars
  <2>2. CASE Q!GetName(Scheduler)
    <3>1. items \in Seq(Containers) /\ items # <<>>
      BY <2>2 DEF Base, QP!IInv, QP!TypeOK, Q!GetName
    <3>2. Head(items) \in Containers
      BY <3>1
    <3>3. serving'[Scheduler] = Head(items) /\ dirty' = dirty \ {Head(items)}
      BY <2>2 DEF Base, QP!IInv, QP!TypeOK, Q!GetName
    <3>4. sched' = "assign"
      BY <1>10, <3>2, <3>3, PlacementAssumption DEF PlacementAssumption, RunGets
    <3> QED
      BY <1>2, <1>5, <2>1, <3>3, <3>4 DEF InHand, Up, current
  <2>3. CASE Q!GetWaits(Scheduler) \/ Q!GetShutdown(Scheduler)
    <3>1. dirty' = dirty
      BY <2>3 DEF Q!GetWaits, Q!GetShutdown, Q!qvars
    <3> QED
      BY <1>2, <1>5, <2>1, <3>1 DEF InHand, Up
  <2> QED
    BY <1>10, <2>2, <2>3 DEF RunGets, Q!Get
<1>11. CASE Assign
  <2>1. /\ sched = "assign" /\ UNCHANGED <<adding, todo>>
        /\ UNCHANGED <<dirty, timers, serving, shuttingDown>>
    BY <1>11 DEF Assign, queue
  <2>2. CASE c # current \/ sched' = "retry"
    <3>1. Unassigned(c)
      <4>1. CASE c = current
        <5>1. Unassigned(current)
          BY <1>11, <2>2, <4>1 DEF Assign, AssignSkips
        <5> QED
          BY <4>1, <5>1
      <4>2. CASE c # current
        BY <1>11, <4>2 DEF Assign, AssignSkips, AssignPicks, AssignFindsNone,
           Base, StoreTypeOK, Unassigned, Present
      <4> QED
        BY <4>1, <4>2
    <3> QED
      BY <1>2, <2>1, <2>2, <3>1 DEF InHand, Up, current
  <2>3. CASE c = current /\ sched' # "retry"
    <3>1. CASE AssignSkips
      BY <1>5, <2>3, <3>1 DEF AssignSkips
    <3>2. CASE AssignPicks
      <4> PICK n \in Nodes :
              stored' = [stored EXCEPT ![current] = [@ EXCEPT !.node = n, !.noNode = FALSE]]
        BY <3>2 DEF AssignPicks
      <4>1. Unassigned(c)
        BY <1>11, <2>3, <3>2 DEF Assign, AssignPicks, AssignSkips
      <4>2. stored[c] \in ContainerRecord
        BY <4>1, PresentRecord DEF Base, Unassigned
      <4>3. stored'[c].node = n
        BY <2>3, <4>2 DEF Base, StoreTypeOK, ContainerRecord
      <4>4. n # NoNode
        BY PlacementAssumption DEF PlacementAssumption, Nodes, NoNode
      <4> QED
        BY <4>3, <4>4 DEF Unassigned
    <3> QED
      BY <1>11, <2>3, <3>1, <3>2 DEF Assign, AssignFindsNone
  <2> QED
    BY <2>2, <2>3
<1>12. CASE AssignFails \/ Notify
  BY <1>2, <1>5, <1>12 DEF AssignFails, Notify, store, queue, InHand, Up, current
<1>13. CASE RunRetries
  <2>1. current \in Containers
    BY <1>13, CurrentType DEF Base, RunRetries, HoldsWhileWorking
  <2>2. /\ Up /\ UNCHANGED <<stored, adding, todo, dirty, serving, shuttingDown>>
        /\ sched = "retry"
    BY <1>13 DEF RunRetries, Q!AddAfter, Q!qvars, store, Up
  <2>3. timers' = [timers EXCEPT ![current] = @ + 1]
    BY <1>13, <2>2 DEF RunRetries, Q!AddAfter
  <2>4. c = current \/ timers[c] > 0 => timers'[c] > 0
    BY <2>1, <2>3, PlacementAssumption
       DEF Base, QP!IInv, QP!TypeOK, PlacementAssumption
  <2> QED
    BY <1>2, <1>5, <2>2, <2>4 DEF InHand
<1>14. CASE RunDone
  <2>1. /\ Up /\ UNCHANGED <<stored, adding, todo, dirty, timers, shuttingDown>>
        /\ sched = "done"
    BY <1>14 DEF RunDone, Q!Done, store, Up
  <2> QED
    BY <1>2, <1>5, <2>1 DEF InHand
<1>15. ASSUME NEW n \in Nodes, Report(n, TRUE) \/ Report(n, FALSE)
       PROVE  InHand(c)'
  <2>1. Up /\ UNCHANGED <<adding, sched, todo, dirty, timers, serving, shuttingDown>>
    BY <1>15 DEF Report, queue
  <2>2. stored[c] # None
    BY <1>15 DEF Report, Base, StoreTypeOK, Unassigned, Present
  <2> QED
    BY <1>1, <1>2, <2>1, <2>2 DEF InHand, current
<1>16. ASSUME NEW n \in Nodes, NewSession(n) \/ HeartbeatExpires(n)
       PROVE  InHand(c)'
  BY <1>2, <1>5, <1>16 DEF NewSession, HeartbeatExpires, queue, InHand, Up, current
<1>17. CASE Shutdown \/ Crash
  BY <1>17 DEF Shutdown, Crash, Q!Shutdown, Up
<1>18. CASE Restart
  BY <1>18 DEF Restart, InHand
<1> QED
  BY <1>3, <1>4, <1>6, <1>7, <1>8, <1>9, <1>10, <1>11, <1>12, <1>13, <1>14, <1>15,
     <1>16, <1>17, <1>18 DEF Next, SchedulerStep, Create

(* A container that is stored and has no node stays with the queue, a       *)
(* timer, its create handler, the startup loop or the scheduler: the order  *)
(* of commit and Add, of List and Add, and the Done after AddAfter lose     *)
(* none (containers.go:50-80, scheduler.go:162-198).                        *)
THEOREM PlacementNoLostContainer == Spec => []NoLostContainer
<1>1. Init => NoLostContainer
  BY DEF Init, NoLostContainer, Unassigned, Present
<1>2. Base /\ NoLostContainer /\ [Next]_vars => NoLostContainer'
  BY NextNoLost
<1> QED
  BY <1>1, <1>2, SafetyBase, PTL DEF Spec, Safety

----------------------------------------------------------------------------
(* The scheduler and the container it holds. *)

LEMMA StoreStepKeepsNode ==
    ASSUME StoreTypeOK, StoreStep, NEW c \in Present, stored[c].node # NoNode
    PROVE  c \in Present' /\ stored'[c].node = stored[c].node
<1>1. None \notin ContainerRecord
  BY PlacementAssumption DEF PlacementAssumption
<1> QED
  BY <1>1 DEF StoreTypeOK, StoreStep, MovesOn, Present

LEMMA NextHoldsOne ==
    ASSUME Base, SchedulerHoldsOne, [Next]_vars
    PROVE  SchedulerHoldsOne'
<1> DEFINE Owes == /\ picked # NoNode <=> sched = "notify"
                   /\ sched = "notify" => /\ current \in Present
                                          /\ stored[current].node = picked
<1> SUFFICES Owes'
  <2>1. HoldsWhileWorking'
    BY NextBase DEF Base
  <2> QED
    BY <2>1 DEF HoldsWhileWorking, SchedulerHoldsOne
<1>1. Owes
  BY DEF SchedulerHoldsOne
<1>2. ASSUME UNCHANGED <<sched, picked, serving>>
      PROVE  Owes'
  <2>1. CASE sched = "notify"
    BY <1>1, <1>2, <2>1, NextStoreStep, StoreStepKeepsNode DEF Base, current
  <2> QED
    BY <1>1, <1>2, <2>1
<1>3. ASSUME NEW c \in Containers, Create(c) \/ RetryTimer(c)
      PROVE  Owes'
  <2>1. UNCHANGED <<sched, picked, serving>>
    BY <1>3, ServingKept DEF Create, CreateCommit, CreateAdd, RetryTimer, queue
  <2> QED
    BY <1>2, <2>1
<1>4. CASE RunLists \/ RunAdds \/ RunGets \/ RunRetries \/ RunDone \/ AssignFails
  <2>1. /\ picked' = picked /\ sched # "notify" /\ sched' # "notify"
    BY <1>4 DEF RunLists, RunAdds, RunGets, RunRetries, RunDone, AssignFails
  <2> QED
    BY <1>1, <2>1
<1>5. CASE Assign
  <2>1. sched = "assign" /\ serving' = serving
    BY <1>5 DEF Assign, queue
  <2>2. CASE AssignSkips \/ AssignFindsNone
    <3>1. sched' # "notify" /\ picked' = picked
      BY <2>2 DEF AssignSkips, AssignFindsNone
    <3> QED
      BY <1>1, <2>1, <3>1
  <2>3. CASE Unassigned(current) /\ AssignPicks
    <3> PICK n \in Nodes :
            /\ stored' = [stored EXCEPT ![current] = [@ EXCEPT !.node = n, !.noNode = FALSE]]
            /\ picked' = n
      BY <2>3 DEF AssignPicks
    <3>1. current \in Containers /\ stored[current] \in ContainerRecord
      BY <2>3, PresentRecord DEF Base, Unassigned
    <3>2. /\ stored'[current].node = n
          /\ stored'[current] \in ContainerRecord
      BY <3>1 DEF Base, StoreTypeOK, ContainerRecord
    <3>3. current \in Present' /\ sched' = "notify"
      BY <2>3, <3>1, <3>2, PlacementAssumption
         DEF PlacementAssumption, Present, AssignPicks
    <3>4. n # NoNode /\ current' = current
      BY <2>1, PlacementAssumption DEF PlacementAssumption, Nodes, NoNode, current
    <3> QED
      BY <3>2, <3>3, <3>4
  <2> QED
    BY <1>5, <2>2, <2>3 DEF Assign
<1>6. CASE Notify \/ Crash
  BY <1>6 DEF Notify, Crash
<1>7. CASE Restart
  BY <1>1, <1>7 DEF Restart
<1>8. ASSUME NEW n \in Nodes,
             Report(n, TRUE) \/ Report(n, FALSE) \/ NewSession(n)
             \/ HeartbeatExpires(n)
      PROVE  Owes'
  BY <1>2, <1>8 DEF Report, NewSession, HeartbeatExpires, queue
<1>9. CASE Shutdown \/ UNCHANGED vars
  BY <1>2, <1>9 DEF Shutdown, Q!Shutdown, vars, queue
<1> QED
  BY <1>3, <1>4, <1>5, <1>6, <1>7, <1>8, <1>9 DEF Next, SchedulerStep

(* Between Get and Done the scheduler holds one ID, and the node it is      *)
(* about to notify is the one stored for that ID (scheduler.go:134-152).    *)
THEOREM PlacementHoldsOne == Spec => []SchedulerHoldsOne
<1>1. Init => SchedulerHoldsOne
  BY InitBase DEF Base, HoldsWhileWorking, Init, SchedulerHoldsOne
<1>2. Base /\ SchedulerHoldsOne /\ [Next]_vars => SchedulerHoldsOne'
  BY NextHoldsOne
<1> QED
  BY <1>1, <1>2, SafetyBase, PTL DEF Spec, Safety

----------------------------------------------------------------------------
(* How many hands a container is in.  A handler gives it one, the startup   *)
(* loop another, and every step passes a container on or drops it.          *)

One(b) == IF b THEN 1 ELSE 0

Hands(c) ==
    One(sched = "list") + One(c \in adding) + One(c \in todo) + One(c \in dirty)
    + timers[c] + One(c = current /\ sched \in {"assign", "retry"})

Free(c) ==
    /\ c \notin adding \cup todo \cup dirty
    /\ timers[c] = 0
    /\ current # c

AtMostTwoHands ==
    /\ \A c \in Containers : Hands(c) <= 2
    /\ \A c \in Containers : stored[c] = None \/ sched = "off" => Free(c)

(* Passing d on to the queue. *)
LEMMA AddPutsOnly ==
    ASSUME NEW d \in Containers, Q!AddBody(d)
    PROVE  dirty' \subseteq dirty \cup {d}
BY DEF Q!AddBody

LEMMA NextAtMostTwoHands ==
    ASSUME Base, AtMostTwoHands, [Next]_vars
    PROVE  AtMostTwoHands'
<1> SUFFICES ASSUME NEW c \in Containers
             PROVE  /\ (Hands(c) <= 2)'
                    /\ (stored[c] = None \/ sched = "off" => Free(c))'
  BY DEF AtMostTwoHands
<1> DEFINE Goal == /\ (Hands(c) <= 2)'
                   /\ (stored[c] = None \/ sched = "off" => Free(c))'
<1> HIDE DEF Goal
<1> SUFFICES Goal
  BY DEF Goal
<1>1. timers[c] \in Nat /\ Hands(c) <= 2
      /\ (stored[c] = None \/ sched = "off" => Free(c))
  BY DEF AtMostTwoHands, Base, QP!IInv, QP!TypeOK
<1>2. stored'[c] = None => stored[c] = None
  <2>1. None \notin ContainerRecord
    BY PlacementAssumption DEF PlacementAssumption
  <2> QED
    BY <2>1, NextStoreStep DEF Base, StoreTypeOK, StoreStep
<1>3. ASSUME UNCHANGED <<adding, todo, dirty, timers, serving, sched>>
      PROVE  Goal
  BY <1>1, <1>2, <1>3 DEF Goal, Hands, Free, current
<1>4. ASSUME NEW d \in Containers, CreateCommit(d)
      PROVE  Goal
  <2>1. CASE d = c
    <3>1. Free(c) /\ stored[c] = None
      BY <1>1, <1>4, <2>1 DEF CreateCommit, Present
    <3>2. /\ UNCHANGED <<todo, dirty, timers, serving, sched>>
          /\ sched # "off"
      BY <1>4 DEF CreateCommit, queue, Up
    <3>3. /\ c \notin dirty' /\ c \notin todo' /\ timers'[c] = 0 /\ current' # c
      BY <3>1, <3>2 DEF Free, current
    <3>4. (Hands(c) <= 2)'
      BY <3>3 DEF Hands, One
    <3>5. stored'[c] # None /\ sched' # "off"
      <4>1. PICK name \in ContainerNames : stored'[c] = New(name)
        BY <1>4, <2>1 DEF CreateCommit, Base, StoreTypeOK
      <4>2. New(name) \in ContainerRecord
        BY DEF New, ContainerRecord
      <4>3. stored'[c] # None
        BY <4>1, <4>2, PlacementAssumption DEF PlacementAssumption
      <4> QED
        BY <3>2, <4>3
    <3> QED
      BY <3>4, <3>5 DEF Goal
  <2>2. CASE d # c
    <3>1. (c \in adding' <=> c \in adding)
          /\ UNCHANGED <<todo, dirty, timers, serving, sched>>
      BY <1>4, <2>2 DEF CreateCommit, queue
    <3> QED
      BY <1>1, <1>2, <3>1 DEF Goal, Hands, Free, current
  <2> QED
    BY <2>1, <2>2
<1>5. ASSUME NEW d \in Containers, CreateAdd(d)
      PROVE  Goal
  <2>1. dirty' \subseteq dirty \cup {d}
    BY <1>5, AddPutsOnly DEF CreateAdd, Q!Add
  <2>2. /\ d \in adding /\ adding' = adding \ {d}
        /\ UNCHANGED <<todo, timers, serving, sched>>
    BY <1>5 DEF CreateAdd, Q!Add
  <2>3. (Hands(c) <= 2)'
    BY <1>1, <2>1, <2>2 DEF Hands, One, current
  <2> QED
    BY <1>1, <1>2, <2>1, <2>2, <2>3 DEF Goal, Free, current
<1>6. ASSUME NEW d \in Containers, RetryTimer(d)
      PROVE  Goal
  <2>1. dirty' \subseteq dirty \cup {d}
    BY <1>6, AddPutsOnly DEF RetryTimer, Q!DelayEnds
  <2>2. /\ timers[d] > 0 /\ timers' = [timers EXCEPT ![d] = @ - 1]
        /\ UNCHANGED <<adding, todo, serving, sched>>
    BY <1>6 DEF RetryTimer, Q!DelayEnds
  <2>3. timers'[c] = IF c = d THEN timers[c] - 1 ELSE timers[c]
    BY <2>2 DEF Base, QP!IInv, QP!TypeOK
  <2>4. (Hands(c) <= 2)'
    BY <1>1, <2>1, <2>2, <2>3 DEF Hands, One, current
  <2> QED
    BY <1>1, <1>2, <2>1, <2>2, <2>3, <2>4 DEF Goal, Free, current
<1>7. CASE RunLists
  <2>1. /\ sched = "list" /\ sched' = "hydrate"
        /\ UNCHANGED <<stored, adding, dirty, timers, serving>>
        /\ c \in todo' => stored[c] # None
    BY <1>7 DEF RunLists, store, queue, Unassigned, Present
  <2>2. (Hands(c) <= 2)'
    BY <1>1, <2>1 DEF Hands, One, current
  <2> QED
    BY <1>1, <2>1, <2>2 DEF Goal, Free, current
<1>8. CASE RunAdds
  <2>1. CASE todo = {} /\ UNCHANGED <<todo, queue>> /\ sched' = "get"
    <3>1. sched = "hydrate" /\ UNCHANGED <<adding, todo, dirty, timers, serving>>
      BY <1>8, <2>1 DEF RunAdds, queue
    <3>2. (Hands(c) <= 2)'
      BY <1>1, <2>1, <3>1 DEF Hands, One, current
    <3> QED
      BY <1>1, <1>2, <2>1, <3>1, <3>2 DEF Goal, Free, current
  <2>2. ASSUME NEW d \in todo, todo' = todo \ {d}, Q!Add(d), sched' = sched
        PROVE  Goal
    <3>1. dirty' \subseteq dirty \cup {d}
      BY <2>2, AddPutsOnly DEF Q!Add, Base, LocalTypeOK
    <3>2. UNCHANGED <<adding, timers, serving, sched>>
      BY <1>8, <2>2 DEF RunAdds, Q!Add
    <3>3. (Hands(c) <= 2)'
      BY <1>1, <2>2, <3>1, <3>2 DEF Hands, One, current
    <3> QED
      BY <1>1, <1>2, <2>2, <3>1, <3>2, <3>3 DEF Goal, Free, current
  <2> QED
    BY <1>8, <2>1, <2>2 DEF RunAdds
<1>9. CASE RunGets
  <2>1. /\ sched = "get" /\ UNCHANGED <<adding, todo, timers>>
    BY <1>9 DEF RunGets, Q!Get, Q!GetWaits, Q!GetShutdown, Q!GetName
  <2>2. CASE Q!GetName(Scheduler)
    <3> DEFINE n == Head(items)
    <3>1. serving' = [serving EXCEPT ![Scheduler] = n] /\ dirty' = dirty \ {n}
          /\ items # <<>> /\ items \in Seq(Containers)
      BY <2>2 DEF Q!GetName, Base, QP!IInv, QP!TypeOK
    <3>2. n \in dirty
      <4>1. 1 \in 1..Len(items) /\ n = items[1]
        BY <3>1
      <4> QED
        BY <4>1 DEF Base, QP!IInv, QP!QueueIsExact, QP!Queued
    <3> HIDE DEF n
    <3>3. current' = n
      BY <3>1 DEF Base, QP!IInv, QP!TypeOK, current
    <3>4. n # None /\ sched' = "assign"
      BY <1>9, <3>2, <3>3, PlacementAssumption
         DEF PlacementAssumption, RunGets, current, Base, QP!IInv, QP!TypeOK
    <3>5. (Hands(c) <= 2)'
      BY <1>1, <2>1, <3>1, <3>2, <3>3, <3>4 DEF Hands, One
    <3> QED
      BY <1>1, <1>2, <2>1, <3>1, <3>2, <3>3, <3>4, <3>5 DEF Goal, Free
  <2>3. CASE Q!GetWaits(Scheduler) \/ Q!GetShutdown(Scheduler)
    <3>1. dirty' = dirty /\ serving' = serving /\ current = None
      BY <2>3 DEF Q!GetWaits, Q!GetShutdown, Q!Running, Q!qvars, current
    <3>2. sched' \in {"get", "returned"}
      BY <1>9, <3>1 DEF RunGets, current
    <3>3. (Hands(c) <= 2)'
      BY <1>1, <2>1, <3>1, <3>2 DEF Hands, One, current
    <3> QED
      BY <1>1, <1>2, <2>1, <3>1, <3>2, <3>3 DEF Goal, Free, current
  <2> QED
    BY <1>9, <2>2, <2>3 DEF RunGets, Q!Get
<1>10. CASE Assign \/ AssignFails \/ Notify
  <2>1. /\ UNCHANGED <<adding, todo, dirty, timers, serving>>
        /\ sched \in {"assign", "notify"}
        /\ sched' \in {"retry", "notify", "done"}
        /\ sched = "notify" => sched' = "done"
    BY <1>10 DEF Assign, AssignSkips, AssignPicks, AssignFindsNone, AssignFails,
       Notify, queue
  <2>2. (Hands(c) <= 2)'
    BY <1>1, <2>1 DEF Hands, One, current
  <2> QED
    BY <1>1, <1>2, <2>1, <2>2 DEF Goal, Free, current
<1>11. CASE RunRetries
  <2>1. /\ sched = "retry" /\ sched' = "done"
        /\ UNCHANGED <<adding, todo, dirty, serving>>
    BY <1>11 DEF RunRetries, Q!AddAfter, Q!qvars
  <2>2. current \in Containers
    BY <2>1, CurrentType DEF Base, HoldsWhileWorking
  <2>3. timers' = timers \/ timers' = [timers EXCEPT ![current] = @ + 1]
    BY <1>11 DEF RunRetries, Q!AddAfter
  <2>4. \/ timers'[c] = timers[c]
        \/ c = current /\ timers'[c] = timers[c] + 1
    BY <2>2, <2>3 DEF Base, QP!IInv, QP!TypeOK
  <2>5. (Hands(c) <= 2)'
    BY <1>1, <2>1, <2>4 DEF Hands, One, current
  <2> QED
    BY <1>1, <1>2, <2>1, <2>4, <2>5 DEF Goal, Free, current
<1>12. CASE RunDone
  <2>1. /\ sched = "done" /\ sched' = "get"
        /\ UNCHANGED <<adding, todo, dirty, timers>>
        /\ current' = None
    BY <1>12 DEF RunDone, Q!Done, Base, QP!IInv, QP!TypeOK, current
  <2>2. c # None
    BY PlacementAssumption DEF PlacementAssumption
  <2>3. (Hands(c) <= 2)'
    BY <1>1, <2>1 DEF Hands, One
  <2> QED
    BY <1>1, <1>2, <2>1, <2>2, <2>3 DEF Goal, Free
<1>13. ASSUME NEW n \in Nodes,
              Report(n, TRUE) \/ Report(n, FALSE) \/ NewSession(n)
              \/ HeartbeatExpires(n)
       PROVE  Goal
  BY <1>3, <1>13 DEF Report, NewSession, HeartbeatExpires, queue
<1>14. CASE Shutdown \/ UNCHANGED vars
  BY <1>3, <1>14 DEF Shutdown, Q!Shutdown, vars, queue
<1>15. CASE Crash
  <2>1. /\ adding' = {} /\ todo' = {} /\ dirty' = {} /\ timers'[c] = 0
        /\ current' = None /\ sched' = "off"
    BY <1>15 DEF Crash, NewQueue, current
  <2>2. c # None
    BY PlacementAssumption DEF PlacementAssumption
  <2>3. (Hands(c) <= 2)'
    BY <2>1 DEF Hands, One
  <2> QED
    BY <2>1, <2>2, <2>3 DEF Goal, Free
<1>16. CASE Restart
  <2>1. Free(c) /\ sched' = "list" /\ UNCHANGED <<adding, todo, dirty, timers, serving>>
    BY <1>1, <1>16 DEF Restart, queue
  <2>2. Free(c)'
    BY <2>1 DEF Free, current
  <2>3. (Hands(c) <= 2)'
    BY <2>1, <2>2 DEF Hands, One, Free
  <2> QED
    BY <2>2, <2>3 DEF Goal
<1> QED
  BY <1>4, <1>5, <1>6, <1>7, <1>8, <1>9, <1>10, <1>11, <1>12, <1>13, <1>14, <1>15,
     <1>16 DEF Next, SchedulerStep, Create

(* However often the scheduler fails to place a container, no more than two *)
(* AddAfter goroutines wait with its ID (scheduler.go:185-198): MaxTimers   *)
(* may be any number from two on without losing a behaviour.                *)
THEOREM PlacementRetriesBounded == Spec => []RetriesBounded
<1>1. Init => AtMostTwoHands
  <2> SUFFICES ASSUME Init, NEW c \in Containers
               PROVE  Free(c) /\ Hands(c) <= 2
    BY DEF AtMostTwoHands
  <2>1. /\ adding = {} /\ todo = {} /\ dirty = {} /\ timers[c] = 0
        /\ current = None /\ c # None
    BY PlacementAssumption DEF PlacementAssumption, Init, Q!Init, current
  <2> QED
    BY <2>1 DEF Free, Hands, One
<1>2. Base /\ AtMostTwoHands /\ [Next]_vars => AtMostTwoHands'
  BY NextAtMostTwoHands
<1>3. Base /\ AtMostTwoHands => RetriesBounded
  <2> SUFFICES ASSUME Base, AtMostTwoHands, NEW c \in Containers
               PROVE  timers[c] <= 2
    BY DEF RetriesBounded
  <2>1. timers[c] \in Nat /\ Hands(c) <= 2
    BY DEF AtMostTwoHands, Base, QP!IInv, QP!TypeOK
  <2> QED
    BY <2>1 DEF Hands, One
<1> QED
  BY <1>1, <1>2, <1>3, SafetyBase, PTL DEF Spec, Safety

----------------------------------------------------------------------------
(* The choice of the node.  The loop is a function over the numbers of its  *)
(* steps, so what it computes is proved by induction over a set of numbers. *)

(* A nonempty set of numbers has a least one, from the library's theorem    *)
(* about well-founded relations.                                            *)
LEMMA LeastNat ==
  ASSUME NEW T \in SUBSET Nat, T # {}
  PROVE  \E m \in T : \A n \in T : m <= n
<1>1. PICK R : R = OpToRel(<, Nat)
  OBVIOUS
<1>2. IsWellFoundedOn(R, Nat)
  BY <1>1, NatLessThanWellFounded
<1>3. PICK m \in T : \A y \in T : ~(<<y, m>> \in R)
  BY <1>2, WFMin
<1>4. R = {ss \in Nat \X Nat : ss[1] < ss[2]}
  BY <1>1 DEF OpToRel
<1>5. \A y \in T : ~(y < m)
  BY <1>3, <1>4
<1> QED
  BY <1>5

(* Induction over the numbers, for a set.                                   *)
LEMMA SetInduction ==
  ASSUME NEW T \in SUBSET Nat, 0 \in T, \A n \in T : n + 1 \in T
  PROVE  T = Nat
<1>1. SUFFICES ASSUME Nat \ T # {} PROVE FALSE
  OBVIOUS
<1>2. PICK m \in Nat \ T : \A n \in Nat \ T : m <= n
  BY <1>1, LeastNat
<1>3. m # 0 /\ m - 1 \in Nat /\ m - 1 \notin Nat \ T
  BY <1>2
<1> QED
  BY <1>2, <1>3

(* f is what the loop of assign has selected after each of k nodes. *)
Loop(f, k) == f = [i \in 0..k |-> IF i = 0 THEN NoNode ELSE Better(i, f[i - 1])]

(* The loop goes on for one node more.                                      *)
LEMMA LoopStep ==
  ASSUME NEW k \in Nat, NEW g, Loop(g, k)
  PROVE  \E h : Loop(h, k + 1)
<1> DEFINE h == [i \in 0..(k + 1) |-> IF i <= k THEN g[i] ELSE Better(k + 1, g[k])]
<1>1. \A i \in 0..k : h[i] = g[i]
  OBVIOUS
<1>2. \A i \in 0..k : g[i] = IF i = 0 THEN NoNode ELSE Better(i, g[i - 1])
  BY DEF Loop
<1>3. h[k + 1] = Better(k + 1, h[k])
  BY <1>1
<1>4. \A i \in 0..(k + 1) : h[i] = IF i = 0 THEN NoNode ELSE Better(i, h[i - 1])
  <2>1. ASSUME NEW i \in 0..k
        PROVE  h[i] = IF i = 0 THEN NoNode ELSE Better(i, h[i - 1])
    <3>1. CASE i = 0
      BY <1>1, <1>2, <3>1
    <3>2. CASE i # 0
      <4>1. i - 1 \in 0..k
        BY <3>2
      <4>2. PICK x, y : x = g[i - 1] /\ y = h[i - 1]
        OBVIOUS
      <4>3. x = y
        BY <1>1, <4>1, <4>2
      <4>4. g[i] = Better(i, x)
        BY <1>2, <3>2, <4>2
      <4>5. h[i] = Better(i, y)
        BY <1>1, <4>3, <4>4
      <4> QED
        BY <3>2, <4>2, <4>5
    <3> QED
      BY <3>1, <3>2
  <2> QED
    BY <1>3, <2>1
<1>5. h = [i \in 0..(k + 1) |-> h[i]]
  OBVIOUS
<1> HIDE DEF h
<1>6. Loop(h, k + 1)
  BY <1>4, <1>5 DEF Loop
<1> QED
  BY <1>6

(* The loop of assign is defined, for any number of nodes.                  *)
LEMMA LoopExists == \E f : Loop(f, NumNodes)
<1> DEFINE T == {k \in Nat : \E f : Loop(f, k)}
<1>1. 0 \in T
  <2>1. Loop([i \in 0..0 |-> NoNode], 0)
    BY DEF Loop
  <2> QED
    BY <2>1
<1>2. \A k \in T : k + 1 \in T
  BY LoopStep
<1>3. T = Nat
  <2> HIDE DEF T
  <2>1. T \in SUBSET Nat
    BY DEF T
  <2> QED
    BY <1>1, <1>2, <2>1, SetInduction
<1> QED
  BY <1>3, PlacementAssumption

(* Selected is that loop.                                                   *)
LEMMA SelectedDef ==
  Selected = [i \in 0..NumNodes |-> IF i = 0 THEN NoNode ELSE Better(i, Selected[i - 1])]
<1>1. PICK g : Loop(g, NumNodes)
  BY LoopExists
<1> QED
  BY <1>1 DEF Loop, Selected

(* Finitely many containers can be counted.                                 *)
LEMMA CountType ==
  ASSUME IsFiniteSet(Present), NEW n
  PROVE  Count(n) \in Nat
<1> DEFINE S == {c \in Present : stored[c].node = n /\ stored[c].state # "exited"}
<1>1. IsFiniteSet(S)
  BY FS_Subset
<1> HIDE DEF S
<1>2. Cardinality(S) \in Nat
  BY <1>1, FS_CardinalityType
<1> QED
  BY <1>2 DEF S, Count

(* b is what the loop must have selected after the nodes 1 to i. *)
BestOf(i, b) ==
    \/ b = NoNode /\ \A m \in 1..i : ~Candidate(m)
    \/ /\ b \in 1..i /\ Candidate(b)
       /\ \A m \in 1..i : Candidate(m) => Count(b) <= Count(m)

(* The body of the loop keeps the best of the nodes so far.                 *)
LEMMA BetterIsBest ==
  ASSUME IsFiniteSet(Present), NEW i \in Nat, NEW b, BestOf(i, b)
  PROVE  BestOf(i + 1, Better(i + 1, b))
<1>1. \A n : Count(n) \in Nat
  BY CountType
<1>2. 1..(i + 1) = (1..i) \cup {i + 1}
  OBVIOUS
<1>3. CASE b = NoNode /\ \A m \in 1..i : ~Candidate(m)
  <2>1. CASE Candidate(i + 1)
    <3>1. Better(i + 1, b) = i + 1
      BY <1>3, <2>1 DEF Better
    <3>2. \A m \in 1..(i + 1) : Candidate(m) => m = i + 1
      BY <1>2, <1>3
    <3>3. Count(i + 1) <= Count(i + 1)
      BY <1>1
    <3> QED
      BY <1>2, <2>1, <3>1, <3>2, <3>3 DEF BestOf
  <2>2. CASE ~Candidate(i + 1)
    <3>1. Better(i + 1, b) = NoNode
      BY <1>3, <2>2 DEF Better
    <3> QED
      BY <1>2, <1>3, <2>2, <3>1 DEF BestOf
  <2> QED
    BY <2>1, <2>2
<1>4. CASE /\ b \in 1..i /\ Candidate(b)
           /\ \A m \in 1..i : Candidate(m) => Count(b) <= Count(m)
  <2>1. b # NoNode
    BY <1>4 DEF NoNode
  <2>2. CASE Candidate(i + 1) /\ Count(i + 1) < Count(b)
    <3>1. Better(i + 1, b) = i + 1
      BY <2>2 DEF Better
    <3>2. \A m \in 1..i : Candidate(m) => Count(i + 1) <= Count(m)
      BY <1>1, <1>4, <2>2
    <3> QED
      BY <1>1, <1>2, <2>2, <3>1, <3>2 DEF BestOf
  <2>3. CASE ~(Candidate(i + 1) /\ Count(i + 1) < Count(b))
    <3>1. Better(i + 1, b) = b
      BY <2>1, <2>3 DEF Better
    <3>2. Candidate(i + 1) => Count(b) <= Count(i + 1)
      BY <1>1, <2>3
    <3> QED
      BY <1>2, <1>4, <3>1, <3>2 DEF BestOf
  <2> QED
    BY <2>2, <2>3
<1> QED
  BY <1>3, <1>4 DEF BestOf

(* The loop of assign selects a node with the fewest containers, and none   *)
(* only if there is no candidate.                                           *)
LEMMA SelectedNodeIsBest ==
  ASSUME IsFiniteSet(Present)
  PROVE  BestOf(NumNodes, SelectedNode)
<1> DEFINE T == {k \in Nat : k <= NumNodes => BestOf(k, Selected[k])}
<1>1. 0 \in T
  BY SelectedDef, PlacementAssumption DEF BestOf
<1>2. ASSUME NEW k \in T PROVE k + 1 \in T
  <2>1. SUFFICES ASSUME k + 1 <= NumNodes PROVE BestOf(k + 1, Selected[k + 1])
    OBVIOUS
  <2>2. k \in Nat /\ BestOf(k, Selected[k])
    BY <2>1, PlacementAssumption
  <2>3. PICK b : b = Selected[k]
    OBVIOUS
  <2>4. Selected[k + 1] = Better(k + 1, Selected[k])
    BY <2>1, <2>2, SelectedDef, PlacementAssumption
  <2> QED
    BY <2>2, <2>3, <2>4, BetterIsBest
<1>3. T = Nat
  <2> HIDE DEF T
  <2>1. T \in SUBSET Nat
    BY DEF T
  <2> QED
    BY <1>1, <1>2, <2>1, SetInduction
<1> QED
  BY <1>3, PlacementAssumption DEF SelectedNode

FinitelyMany == IsFiniteSet(Present)

(* Only finitely many containers have been created, and so can be counted.  *)
LEMMA SafetyFinite == Safety => []FinitelyMany
<1>1. Init => FinitelyMany
  <2>1. Init => Present = {}
    BY DEF Init, Present
  <2> QED
    BY <2>1, FS_EmptySet DEF FinitelyMany
<1>2. Base /\ [Next]_vars /\ FinitelyMany => FinitelyMany'
  <2> SUFFICES ASSUME Base, [Next]_vars, FinitelyMany
               PROVE  FinitelyMany'
    OBVIOUS
  <2>1. StoreStep /\ StoreTypeOK
    BY NextStoreStep DEF Base
  <2>2. None \notin ContainerRecord
    BY PlacementAssumption
  <2>3. CASE UNCHANGED stored
    BY <2>3 DEF FinitelyMany, Present
  <2>4. ASSUME NEW c \in Containers, NEW r, stored' = [stored EXCEPT ![c] = r]
        PROVE  FinitelyMany'
    <3>1. Present' \subseteq Present \cup {c}
      BY <2>1, <2>4 DEF Present, StoreTypeOK
    <3>2. IsFiniteSet(Present \cup {c})
      BY FS_AddElement DEF FinitelyMany
    <3> QED
      BY <3>1, <3>2, FS_Subset DEF FinitelyMany
  <2> QED
    BY <2>1, <2>3, <2>4 DEF StoreStep
<1> QED
  BY <1>1, <1>2, SafetyBase, PTL DEF Safety

(* Only assign gives a container a node, and it is the selected one.        *)
LEMMA NextPicks ==
  ASSUME Base, [Next]_vars, NEW c \in Present, stored'[c].node # stored[c].node
  PROVE  SelectedNode \in Nodes /\ stored'[c].node = SelectedNode
<1>1. /\ StoreTypeOK /\ c \in Containers /\ stored[c] # None
      /\ stored[c] \in ContainerRecord
  BY PresentRecord DEF Base, Present
<1>2. ~UNCHANGED stored
  OBVIOUS
<1>3. ASSUME NEW d \in Containers, Create(d)
      PROVE  FALSE
  <2>1. CASE CreateCommit(d)
    BY <1>1, <2>1 DEF CreateCommit, StoreTypeOK
  <2>2. CASE CreateAdd(d)
    BY <1>2, <2>2 DEF CreateAdd, store
  <2> QED
    BY <1>3, <2>1, <2>2 DEF Create
<1>4. ASSUME NEW n \in Nodes, Report(n, TRUE) \/ Report(n, FALSE)
      PROVE  FALSE
  <2>1. PICK d \in Present, state \in {"pending", "running", "exited"} :
           stored' = [stored EXCEPT ![d] = [@ EXCEPT !.state = state, !.noNode = FALSE]]
    BY <1>2, <1>4 DEF Report
  <2>2. d \in Containers /\ stored[d] \in ContainerRecord
    BY <1>1, PresentRecord
  <2>3. stored'[d].node = stored[d].node
    BY <1>1, <2>1, <2>2 DEF StoreTypeOK, ContainerRecord
  <2>4. c # d => stored'[c] = stored[c]
    BY <1>1, <2>1 DEF StoreTypeOK
  <2> QED
    BY <2>3, <2>4
<1>5. CASE Assign
  <2>1. PICK d : d = current
    OBVIOUS
  <2>2. Unassigned(current) /\ (AssignPicks \/ AssignFindsNone)
    BY <1>2, <1>5 DEF Assign, AssignSkips
  <2>3. d \in Containers /\ stored[d] \in ContainerRecord
    BY <1>1, <2>1, <2>2, PresentRecord DEF Unassigned
  <2>4. CASE AssignPicks
    <3>1. PICK n \in Nodes :
             /\ n = SelectedNode
             /\ stored' = [stored EXCEPT ![d] = [@ EXCEPT !.node = n, !.noNode = FALSE]]
      BY <2>1, <2>4 DEF AssignPicks
    <3>2. stored'[d].node = n
      BY <1>1, <2>3, <3>1 DEF StoreTypeOK, ContainerRecord
    <3>3. c # d => stored'[c] = stored[c]
      BY <1>1, <3>1 DEF StoreTypeOK
    <3> QED
      BY <3>1, <3>2, <3>3
  <2>5. CASE AssignFindsNone
    <3>1. stored' = [stored EXCEPT ![d].noNode = TRUE]
      BY <2>1, <2>5 DEF AssignFindsNone
    <3>2. stored'[d].node = stored[d].node
      BY <1>1, <2>3, <3>1 DEF StoreTypeOK, ContainerRecord
    <3>3. c # d => stored'[c] = stored[c]
      BY <1>1, <3>1 DEF StoreTypeOK
    <3> QED
      BY <3>2, <3>3
  <2> QED
    BY <2>2, <2>4, <2>5
<1>6. CASE SchedulerStep /\ ~Assign
  BY <1>2, <1>6 DEF SchedulerStep, RunLists, RunAdds, RunGets, AssignFails, Notify,
                    RunRetries, RunDone, store
<1>7. ASSUME NEW n \in Nodes, NewSession(n) \/ HeartbeatExpires(n)
      PROVE  FALSE
  BY <1>2, <1>7 DEF NewSession, HeartbeatExpires
<1>8. ASSUME NEW d \in Containers, RetryTimer(d)
      PROVE  FALSE
  BY <1>2, <1>8 DEF RetryTimer, store
<1>9. ~(Shutdown \/ Crash \/ Restart \/ UNCHANGED vars)
  BY <1>2 DEF Shutdown, Crash, Restart, vars, store
<1> QED
  BY <1>3, <1>4, <1>5, <1>6, <1>7, <1>8, <1>9 DEF Next

(* assign of scheduler.go picks a reachable and ready node with the fewest  *)
(* containers that have not exited, for any number of nodes and containers. *)
THEOREM PlacementPicksLeastLoaded == Spec => PicksLeastLoaded
<1> DEFINE Picks ==
      \A c \in Present : stored'[c].node # stored[c].node =>
          LET load(n) == Cardinality({d \in Containers : /\ stored[d] # None
                                                         /\ stored[d].node = n
                                                         /\ stored[d].state # "exited"})
          IN  \E n \in reachable \cap ready :
                 /\ stored'[c].node = n
                 /\ \A m \in reachable \cap ready : load(n) <= load(m)
<1>1. ASSUME Base, [Next]_vars, FinitelyMany
      PROVE  [Picks]_vars
  <2> DEFINE load(n) == Cardinality({d \in Containers : /\ stored[d] # None
                                                        /\ stored[d].node = n
                                                        /\ stored[d].state # "exited"})
  <2>1. SUFFICES ASSUME NEW c \in Present, stored'[c].node # stored[c].node
                 PROVE  \E n \in reachable \cap ready :
                           /\ stored'[c].node = n
                           /\ \A m \in reachable \cap ready : load(n) <= load(m)
    OBVIOUS
  <2>2. SelectedNode \in Nodes /\ stored'[c].node = SelectedNode
    BY <1>1, <2>1, NextPicks
  <2>3. \A n : load(n) = Count(n)
    <3>1. SUFFICES ASSUME NEW n PROVE load(n) = Count(n)
      OBVIOUS
    <3>2. {d \in Containers : stored[d] # None /\ stored[d].node = n /\ stored[d].state # "exited"}
            = {d \in Present : stored[d].node = n /\ stored[d].state # "exited"}
      BY DEF Present
    <3> QED
      BY <3>2 DEF Count
  <2>4. /\ Candidate(SelectedNode)
        /\ \A m \in Nodes : Candidate(m) => Count(SelectedNode) <= Count(m)
    BY <1>1, <2>2, SelectedNodeIsBest, PlacementAssumption DEF FinitelyMany, BestOf, Nodes, NoNode
  <2>5. reachable \cap ready \subseteq Nodes
    BY <1>1 DEF Base, LocalTypeOK
  <2> HIDE DEF load
  <2> QED
    BY <2>2, <2>3, <2>4, <2>5 DEF Candidate, Eligible
<1> QED
  BY <1>1, SafetyBase, SafetyFinite, PTL DEF Spec, Safety, PicksLeastLoaded
=============================================================================
