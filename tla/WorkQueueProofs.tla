-------------------------- MODULE WorkQueueProofs --------------------------
(***************************************************************************)
(* Proofs about WorkQueue, for any set of names, any finite set of getters *)
(* and any number of delayed adds.                                         *)
(***************************************************************************)
EXTENDS WorkQueue, FiniteSetTheorems, TLAPS

(* What the safety properties need to be inductive: a getter is asleep or   *)
(* signalled, never both, so a Signal adds one to the signalled getters.    *)
IInv ==
    /\ TypeOK
    /\ NoDuplicates
    /\ QueueIsExact
    /\ ExclusiveService
    /\ waiting \cap woken = {}
    /\ NoLostWakeup

----------------------------------------------------------------------------
(* Appending n to the queue. *)
LEMMA AppendQueue ==
    ASSUME items \in Seq(Names), NEW n \in Names, items' = Append(items, n)
    PROVE  /\ items' \in Seq(Names)
           /\ Len(items') = Len(items) + 1
           /\ Queued' = Queued \cup {n}
           /\ NoDuplicates /\ n \notin Queued => NoDuplicates'
<1>1. /\ items' \in Seq(Names)
      /\ Len(items') = Len(items) + 1
      /\ \A i \in 1..Len(items) : items'[i] = items[i]
      /\ items'[Len(items) + 1] = n
  OBVIOUS
<1>2. Queued' = Queued \cup {n}
  BY <1>1 DEF Queued
<1>3. ASSUME NoDuplicates, n \notin Queued
      PROVE  NoDuplicates'
  BY <1>1, <1>3 DEF NoDuplicates, Queued
<1> QED
  BY <1>1, <1>2, <1>3

(* Taking the head of the queue. *)
LEMMA TailQueue ==
    ASSUME items \in Seq(Names), items # <<>>, NoDuplicates, items' = Tail(items)
    PROVE  /\ items' \in Seq(Names)
           /\ Len(items) \in Nat
           /\ Len(items') = Len(items) - 1
           /\ Head(items) \in Queued
           /\ Queued' = Queued \ {Head(items)}
           /\ NoDuplicates'
<1>1. /\ items' \in Seq(Names)
      /\ Len(items) \in Nat \ {0}
      /\ Len(items') = Len(items) - 1
      /\ \A i \in 1..Len(items') : items'[i] = items[i + 1]
      /\ Head(items) = items[1]
  OBVIOUS
<1>2. Queued' \subseteq Queued \ {Head(items)}
  BY <1>1 DEF Queued, NoDuplicates
<1>3. Queued \ {Head(items)} \subseteq Queued'
  <2> SUFFICES ASSUME NEW i \in 1..Len(items), i # 1
               PROVE  items[i] \in Queued'
    BY <1>1 DEF Queued
  <2>1. i - 1 \in 1..Len(items') /\ items'[i - 1] = items[i]
    BY <1>1
  <2> QED
    BY <2>1 DEF Queued
<1>4. NoDuplicates'
  BY <1>1 DEF NoDuplicates
<1>5. Head(items) \in Queued
  BY <1>1 DEF Queued
<1>6. Queued' = Queued \ {Head(items)}
  BY <1>2, <1>3
<1> QED
  BY <1>1, <1>4, <1>5, <1>6

(* The wakeups keep up with the appends. *)
LEMMA SignalKeepsUp ==
    ASSUME QueueConstants, TypeOK, NoLostWakeup, waiting \cap woken = {},
           ~shuttingDown, Signal, Len(items') = Len(items) + 1,
           shuttingDown' = shuttingDown
    PROVE  /\ waiting' \subseteq Getters
           /\ woken' \subseteq Getters
           /\ (waiting \cap woken = {})'
           /\ NoLostWakeup'
<1>1. CASE waiting = {} /\ UNCHANGED cond
  BY <1>1 DEF cond, NoLostWakeup, TypeOK
<1>2. CASE \E g \in waiting : /\ waiting' = waiting \ {g}
                              /\ woken' = woken \cup {g}
  <2> PICK g \in waiting : /\ waiting' = waiting \ {g}
                           /\ woken' = woken \cup {g}
    BY <1>2
  <2>1. IsFiniteSet(woken) /\ g \notin woken
    BY FS_Subset DEF QueueConstants, TypeOK
  <2>2. Cardinality(woken') = Cardinality(woken) + 1 /\ Cardinality(woken) \in Nat
    BY <2>1, FS_AddElement, FS_CardinalityType
  <2>3. Len(items) \in Nat
    BY DEF TypeOK
  <2> QED
    BY <2>2, <2>3 DEF NoLostWakeup, TypeOK
<1> QED
  BY <1>1, <1>2 DEF Signal

(* Who serves what changes only for the getter that steps. *)
LEMMA DoneService ==
    ASSUME TypeOK, ExclusiveService, NEW g \in Getters, serving[g] # NoName,
           processing' = processing \ {serving[g]},
           serving' = [serving EXCEPT ![g] = NoName]
    PROVE  ExclusiveService'
BY DEF TypeOK, ExclusiveService

LEMMA GetService ==
    ASSUME QueueConstants, TypeOK, ExclusiveService,
           NEW g \in Getters, serving[g] = NoName,
           NEW n \in Names, n \notin processing,
           processing' = processing \cup {n},
           serving' = [serving EXCEPT ![g] = n]
    PROVE  ExclusiveService'
<1>1. n # NoName
  BY DEF QueueConstants
<1> QED
  BY <1>1 DEF TypeOK, ExclusiveService

----------------------------------------------------------------------------
LEMMA InitIInv == QueueConstants /\ Init => IInv
<1> SUFFICES ASSUME QueueConstants, Init
             PROVE  IInv
  OBVIOUS
<1>1. TypeOK
  <2>1. items \in Seq(Names)
    BY DEF Init
  <2>2. timers \in [Names -> 0..MaxTimers]
    BY DEF QueueConstants, Init
  <2>3. serving \in [Getters -> Names \cup {NoName}]
    BY DEF Init
  <2> QED
    BY <2>1, <2>2, <2>3 DEF Init, TypeOK
<1>2. NoDuplicates /\ Queued = {}
  BY DEF Init, NoDuplicates, Queued
<1>3. ExclusiveService
  BY DEF Init, ExclusiveService
<1>4. QueueIsExact
  BY <1>2 DEF Init, QueueIsExact
<1>5. NoLostWakeup /\ waiting \cap woken = {}
  BY DEF Init, NoLostWakeup
<1> QED
  BY <1>1, <1>2, <1>3, <1>4, <1>5 DEF IInv

(* The critical section of Add keeps everything that does not depend on who *)
(* serves what.                                                             *)
LEMMA AddBodyKeeps ==
    ASSUME QueueConstants, IInv, NEW n \in Names, AddBody(n),
           UNCHANGED <<processing, shuttingDown>>
    PROVE  /\ items' \in Seq(Names)
           /\ dirty' \subseteq Names
           /\ waiting' \subseteq Getters
           /\ woken' \subseteq Getters
           /\ NoDuplicates'
           /\ QueueIsExact'
           /\ (waiting \cap woken = {})'
           /\ NoLostWakeup'
<1> USE DEF IInv
<1>1. CASE UNCHANGED <<dirty, items, cond>>
  BY <1>1 DEF cond, TypeOK, NoDuplicates, QueueIsExact, Queued, NoLostWakeup
<1>2. CASE /\ n \in processing \ dirty
           /\ dirty' = dirty \cup {n}
           /\ UNCHANGED <<items, cond>>
  BY <1>2 DEF cond, TypeOK, NoDuplicates, QueueIsExact, Queued, NoLostWakeup
<1>3. CASE /\ ~shuttingDown
           /\ n \notin dirty \cup processing
           /\ dirty' = dirty \cup {n}
           /\ Enqueue(n)
  <2>1. /\ items' \in Seq(Names)
        /\ Len(items') = Len(items) + 1
        /\ Queued' = Queued \cup {n}
        /\ NoDuplicates'
    BY <1>3, AppendQueue DEF TypeOK, QueueIsExact, Enqueue
  <2>2. /\ waiting' \subseteq Getters
        /\ woken' \subseteq Getters
        /\ (waiting \cap woken = {})'
        /\ NoLostWakeup'
    BY <1>3, <2>1, SignalKeepsUp DEF Enqueue
  <2>3. QueueIsExact'
    BY <1>3, <2>1 DEF QueueIsExact
  <2>4. dirty' \subseteq Names
    BY <1>3 DEF TypeOK
  <2> QED
    BY <2>1, <2>2, <2>3, <2>4
<1> QED
  BY <1>1, <1>2, <1>3 DEF AddBody

(* A step that leaves the queue and its getters alone.                      *)
LEMMA QueueUnchanged ==
    ASSUME IInv, TypeOK',
           UNCHANGED <<items, dirty, processing, shuttingDown, waiting, woken,
                       serving>>
    PROVE  IInv'
<1>1. NoDuplicates'
  BY DEF IInv, NoDuplicates
<1>2. QueueIsExact' /\ ExclusiveService'
  BY DEF IInv, QueueIsExact, Queued, ExclusiveService
<1>3. NoLostWakeup' /\ (waiting \cap woken = {})'
  BY DEF IInv, NoLostWakeup
<1> QED
  BY <1>1, <1>2, <1>3 DEF IInv

LEMMA NextIInv == QueueConstants /\ IInv /\ [Next]_vars => IInv'
<1> SUFFICES ASSUME QueueConstants, IInv, [Next]_vars
             PROVE  IInv'
  OBVIOUS
<1> USE DEF IInv
<1>1. ASSUME NEW n \in Names, Add(n)
      PROVE  IInv'
  <2>1. TypeOK' /\ ExclusiveService'
    BY <1>1, AddBodyKeeps DEF Add, TypeOK, ExclusiveService
  <2> QED
    BY <1>1, <2>1, AddBodyKeeps DEF Add
<1>2. ASSUME NEW n \in Names, AddAfter(n)
      PROVE  IInv'
  <2>1. timers' \in [Names -> 0..MaxTimers]
    BY <1>2 DEF AddAfter, TypeOK, QueueConstants
  <2>2. UNCHANGED <<items, dirty, processing, shuttingDown, waiting, woken,
                    serving, stopped>>
    BY <1>2 DEF AddAfter, qvars, cond
  <2>3. TypeOK'
    BY <2>1, <2>2 DEF TypeOK
  <2> QED
    BY <2>2, <2>3, QueueUnchanged
<1>3. ASSUME NEW n \in Names, DelayEnds(n)
      PROVE  IInv'
  <2>1. timers' \in [Names -> 0..MaxTimers]
    BY <1>3 DEF DelayEnds, TypeOK, QueueConstants
  <2>2. TypeOK' /\ ExclusiveService'
    BY <1>3, <2>1, AddBodyKeeps DEF DelayEnds, TypeOK, ExclusiveService
  <2> QED
    BY <1>3, <2>2, AddBodyKeeps DEF DelayEnds
<1>4. ASSUME NEW g \in Getters, GetWaits(g)
      PROVE  IInv'
  <2>1. NoLostWakeup'
    <3>1. IsFiniteSet(woken') /\ Len(items') = 0
      BY <1>4, FS_Subset DEF GetWaits, qvars, TypeOK, QueueConstants
    <3>2. Cardinality(woken') \in Nat
      BY <3>1, FS_CardinalityType
    <3> QED
      BY <1>4, <3>1, <3>2 DEF GetWaits, qvars, NoLostWakeup
  <2>2. TypeOK'
    BY <1>4 DEF GetWaits, qvars, TypeOK
  <2>3. NoDuplicates' /\ QueueIsExact' /\ ExclusiveService'
    BY <1>4 DEF GetWaits, qvars, NoDuplicates, QueueIsExact, Queued,
       ExclusiveService
  <2>4. (waiting \cap woken = {})'
    BY <1>4 DEF GetWaits
  <2> QED
    BY <2>1, <2>2, <2>3, <2>4
<1>5. ASSUME NEW g \in Getters, GetShutdown(g)
      PROVE  IInv'
  <2>1. TypeOK'
    BY <1>5 DEF GetShutdown, qvars, TypeOK
  <2>2. NoDuplicates' /\ QueueIsExact'
    BY <1>5 DEF GetShutdown, qvars, NoDuplicates, QueueIsExact, Queued
  <2>3. ExclusiveService'
    BY <1>5 DEF GetShutdown, qvars, ExclusiveService
  <2>4. waiting' = {} /\ woken' \subseteq woken
    BY <1>5 DEF GetShutdown, NoLostWakeup
  <2>5. NoLostWakeup' /\ (waiting \cap woken = {})'
    BY <2>4 DEF NoLostWakeup
  <2> QED
    BY <2>1, <2>2, <2>3, <2>5
<1>6. ASSUME NEW g \in Getters, GetName(g)
      PROVE  IInv'
  <2> DEFINE n == Head(items)
  <2>1. /\ items' \in Seq(Names)
        /\ Len(items) \in Nat
        /\ Len(items') = Len(items) - 1
        /\ n \in Queued
        /\ Queued' = Queued \ {n}
        /\ NoDuplicates'
    BY <1>6, TailQueue DEF GetName, TypeOK
  <2>2. n \in Names /\ n \notin processing
    BY <2>1 DEF QueueIsExact, TypeOK
  <2>3. TypeOK'
    BY <1>6, <2>1, <2>2 DEF GetName, TypeOK
  <2>4. QueueIsExact'
    BY <1>6, <2>1 DEF GetName, QueueIsExact
  <2>5. ExclusiveService'
    BY <1>6, <2>2, GetService DEF GetName, Running
  <2>6. NoLostWakeup'
    <3>1. IsFiniteSet(woken) /\ Cardinality(woken) \in Nat
      BY FS_Subset, FS_CardinalityType DEF TypeOK, QueueConstants
    <3>2. /\ Cardinality(woken') \in Nat
          /\ Cardinality(woken') >= Cardinality(woken) - 1
      <4>1. CASE g \in woken
        <5>1. Cardinality(woken \ {g}) = Cardinality(woken) - 1
          BY <3>1, <4>1, FS_RemoveElement
        <5>2. IsFiniteSet(woken \ {g}) /\ Cardinality(woken \ {g}) \in Nat
          BY <3>1, FS_RemoveElement, FS_CardinalityType
        <5> QED
          BY <1>6, <3>1, <5>1, <5>2 DEF GetName
      <4>2. CASE g \notin woken
        <5>1. woken' = woken
          BY <1>6, <4>2 DEF GetName
        <5> QED
          BY <3>1, <5>1
      <4> QED
        BY <4>1, <4>2
    <3> QED
      BY <1>6, <2>1, <3>1, <3>2 DEF GetName, NoLostWakeup
  <2> QED
    BY <1>6, <2>1, <2>3, <2>4, <2>5, <2>6 DEF GetName
<1>7. ASSUME NEW g \in Getters, Done(g)
      PROVE  IInv'
  <2>1. serving[g] \in Names /\ serving[g] \in processing
    BY <1>7 DEF Done, TypeOK, ExclusiveService
  <2>2. ExclusiveService'
    BY <1>7, DoneService DEF Done
  <2>3. CASE serving[g] \notin dirty /\ UNCHANGED <<items, cond>>
    BY <1>7, <2>1, <2>2, <2>3 DEF Done, cond, TypeOK, NoDuplicates,
       QueueIsExact, Queued, NoLostWakeup
  <2>4. CASE serving[g] \in dirty /\ Enqueue(serving[g])
    <3>1. /\ items' \in Seq(Names)
          /\ Len(items') = Len(items) + 1
          /\ Queued' = Queued \cup {serving[g]}
          /\ NoDuplicates'
      BY <2>1, <2>4, AppendQueue DEF TypeOK, QueueIsExact, Enqueue
    <3>2. /\ waiting' \subseteq Getters
          /\ woken' \subseteq Getters
          /\ (waiting \cap woken = {})'
          /\ NoLostWakeup'
      <4>1. CASE shuttingDown
        BY <1>7, <2>4, <4>1 DEF Enqueue, Signal, cond, TypeOK, NoLostWakeup
      <4>2. CASE ~shuttingDown
        BY <1>7, <2>4, <3>1, <4>2, SignalKeepsUp DEF Done, Enqueue
      <4> QED
        BY <4>1, <4>2
    <3>3. TypeOK'
      BY <1>7, <3>1, <3>2 DEF Done, TypeOK
    <3>4. QueueIsExact'
      BY <1>7, <2>1, <2>4, <3>1 DEF Done, QueueIsExact
    <3> QED
      BY <2>2, <3>1, <3>2, <3>3, <3>4
  <2> QED
    BY <1>7, <2>3, <2>4 DEF Done
<1>8. CASE Shutdown
  <2>1. TypeOK'
    BY <1>8 DEF Shutdown, TypeOK
  <2>2. QueueIsExact' /\ ExclusiveService'
    BY <1>8 DEF Shutdown, QueueIsExact, Queued, ExclusiveService
  <2>3. NoDuplicates'
    BY <1>8 DEF Shutdown, NoDuplicates
  <2>4. NoLostWakeup' /\ (waiting \cap woken = {})'
    BY <1>8 DEF Shutdown, NoLostWakeup
  <2> QED
    BY <2>1, <2>2, <2>3, <2>4
<1>9. CASE UNCHANGED vars
  <2>1. UNCHANGED <<items, dirty, processing, shuttingDown, waiting, woken,
                    serving, stopped, timers>>
    BY <1>9 DEF vars, qvars, cond
  <2>2. TypeOK'
    BY <2>1 DEF TypeOK
  <2> QED
    BY <2>1, <2>2, QueueUnchanged
<1> QED
  BY <1>1, <1>2, <1>3, <1>4, <1>5, <1>6, <1>7, <1>8, <1>9 DEF Next

(* The strengthened invariant holds of every behaviour of the queue. *)
THEOREM SafetyIInv == Safety => []IInv
<1>1. QueueConstants
  BY WorkQueueAssumption
<1> QED
  BY <1>1, InitIInv, NextIInv, PTL DEF Safety

(* Every field of the queue keeps its type, whatever the callers do.        *)
THEOREM QueueTypeOK == Spec => []TypeOK
<1>1. IInv => TypeOK
  BY DEF IInv
<1> QED
  BY <1>1, SafetyIInv, PTL DEF Spec

(* Add, Get and Done lose no name, queue none twice and never give one name *)
(* to two getters (queue.go:40-59, 87-108, 110-122).                        *)
THEOREM QueueLosesNothing ==
    Spec => [](NoDuplicates /\ QueueIsExact /\ ExclusiveService)
<1>1. IInv => NoDuplicates /\ QueueIsExact /\ ExclusiveService
  BY DEF IInv
<1> QED
  BY <1>1, SafetyIInv, PTL DEF Spec

(* One Signal per append and the Broadcast of Shutdown leave no getter      *)
(* asleep while a name waits for it or the queue shuts down                 *)
(* (queue.go:58, 91-93, 121, 142).                                          *)
THEOREM QueueWakesGetters == Spec => []NoLostWakeup
<1>1. IInv => NoLostWakeup
  BY DEF IInv
<1> QED
  BY <1>1, SafetyIInv, PTL DEF Spec

----------------------------------------------------------------------------
(* Refinement: dirty, processing and shuttingDown step as the abstract      *)
(* coalescing queue, or not at all.                                         *)
LEMMA AddBodyRefines ==
    ASSUME NEW n \in Names, AddBody(n), UNCHANGED <<processing, shuttingDown>>
    PROVE  Abstract!Next \/ UNCHANGED Abstract!vars
BY DEF AddBody, Abstract!Next, Abstract!Request, Abstract!vars

LEMMA NextRefines == IInv /\ [Next]_vars => [Abstract!Next]_(Abstract!vars)
<1> SUFFICES ASSUME IInv, [Next]_vars
             PROVE  [Abstract!Next]_(Abstract!vars)
  OBVIOUS
<1>1. ASSUME NEW n \in Names, Add(n) \/ DelayEnds(n)
      PROVE  Abstract!Next \/ UNCHANGED Abstract!vars
  BY <1>1, AddBodyRefines DEF Add, DelayEnds
<1>2. ASSUME NEW g \in Getters, GetName(g)
      PROVE  Abstract!Next
  <2> DEFINE n == Head(items)
  <2>1. n \in Queued
    BY <1>2, TailQueue DEF GetName, IInv, TypeOK
  <2>2. n \in dirty \ processing /\ n \in Names
    BY <2>1 DEF IInv, QueueIsExact, TypeOK
  <2>3. Abstract!Begin(n)
    BY <1>2, <2>2 DEF GetName, Abstract!Begin
  <2> QED
    BY <2>2, <2>3 DEF Abstract!Next
<1>3. ASSUME NEW g \in Getters, Done(g)
      PROVE  Abstract!Next
  <2>1. serving[g] \in processing /\ serving[g] \in Names
    BY <1>3 DEF Done, IInv, TypeOK, ExclusiveService
  <2>2. Abstract!Finish(serving[g])
    BY <1>3, <2>1 DEF Done, Abstract!Finish
  <2> QED
    BY <2>1, <2>2 DEF Abstract!Next
<1>4. CASE Shutdown
  BY <1>4 DEF Shutdown, Abstract!Next, Abstract!Close
<1>5. ASSUME NEW n \in Names, AddAfter(n)
      PROVE  UNCHANGED Abstract!vars
  BY <1>5 DEF AddAfter, qvars, Abstract!vars
<1>6. ASSUME NEW g \in Getters, GetWaits(g) \/ GetShutdown(g)
      PROVE  UNCHANGED Abstract!vars
  BY <1>6 DEF GetWaits, GetShutdown, qvars, Abstract!vars
<1>7. CASE UNCHANGED vars
  BY <1>7 DEF vars, qvars, Abstract!vars
<1> QED
  BY <1>1, <1>2, <1>3, <1>4, <1>5, <1>6, <1>7 DEF Next

(* MemoryQueue implements the coalescing queue: a request is never lost,    *)
(* merges with one not begun yet, and never overlaps another round on its   *)
(* name.  Its fairness is left to model checking.                           *)
THEOREM SafetyRefines == Safety => Abstract!Safety
<1>1. Init => Abstract!Init
  BY DEF Init, Abstract!Init
<1> QED
  BY <1>1, SafetyIInv, NextRefines, PTL DEF Safety, Abstract!Safety
============================================================================
