----------------------------- MODULE WorkQueue -----------------------------
(***************************************************************************)
(* MemoryQueue of internal/queue/queue.go: the queue of container IDs      *)
(* between the API server, which adds, and the scheduler, which gets.      *)
(*                                                                         *)
(* Every method holds q.mu from its first line to its return, except Get   *)
(* while it sleeps in q.cond.Wait() and AddAfter, whose goroutine runs     *)
(* without it; a critical section is therefore one action.  A goroutine    *)
(* asleep in Wait is in waiting; Signal moves one of them, Broadcast all   *)
(* of them, to woken, where it competes for the lock with every other      *)
(* caller and evaluates the loop condition of Get again.                   *)
(***************************************************************************)
EXTENDS Naturals, Sequences, FiniteSets

CONSTANTS
    Names,          \* the container IDs
    Getters,        \* goroutines that loop over Get ... Done
    NoName,         \* a getter that holds no name
    MaxTimers       \* bound: delayed adds of one name alive at a time

QueueConstants ==
    /\ IsFiniteSet(Getters)
    /\ NoName \notin Names
    /\ MaxTimers \in Nat

ASSUME WorkQueueAssumption == QueueConstants

VARIABLES
    items,          \* q.items, head first
    dirty,          \* q.dirty
    processing,     \* q.processing
    shuttingDown,   \* q.shuttingDown; also stands for q.shutdownCh closed
    waiting,        \* getters asleep in q.cond.Wait()
    woken,          \* getters signalled that have not relocked q.mu yet
    serving,        \* serving[g]: the name g got and has not called Done for
    stopped,        \* getters whose Get returned shutdown = true
    timers          \* timers[n]: goroutines of AddAfter waiting to add n

qvars == <<items, dirty, processing, shuttingDown>>
cond == <<waiting, woken>>
vars == <<qvars, cond, serving, stopped, timers>>

----------------------------------------------------------------------------
Queued == {items[i] : i \in 1..Len(items)}

Init ==
    /\ items = <<>>
    /\ dirty = {}
    /\ processing = {}
    /\ shuttingDown = FALSE
    /\ waiting = {}
    /\ woken = {}
    /\ serving = [g \in Getters |-> NoName]
    /\ stopped = {}
    /\ timers = [n \in Names |-> 0]

(* q.cond.Signal(): wakes one sleeping getter if there is one. *)
Signal ==
    \/ /\ waiting = {}
       /\ UNCHANGED cond
    \/ \E g \in waiting :
          /\ waiting' = waiting \ {g}
          /\ woken' = woken \cup {g}

Enqueue(n) ==
    /\ items' = Append(items, n)
    /\ Signal

----------------------------------------------------------------------------
(* The body of Add, under q.mu. *)

\* Faulty: appends without waking a sleeping getter.
AddBody_NoSignal(n) ==
    \/ /\ shuttingDown \/ n \in dirty
       /\ UNCHANGED <<dirty, items, cond>>
    \/ /\ ~shuttingDown
       /\ n \notin dirty
       /\ dirty' = dirty \cup {n}
       /\ items' = IF n \in processing THEN items ELSE Append(items, n)
       /\ UNCHANGED cond

AddBody(n) ==
    \/ /\ shuttingDown \/ n \in dirty
       /\ UNCHANGED <<dirty, items, cond>>
    \/ /\ ~shuttingDown
       /\ n \notin dirty
       /\ dirty' = dirty \cup {n}
       /\ \/ /\ n \in processing
             /\ UNCHANGED <<items, cond>>
          \/ /\ n \notin processing
             /\ Enqueue(n)

Add(n) ==
    /\ AddBody(n)
    /\ UNCHANGED <<processing, shuttingDown, serving, stopped, timers>>

(* AddAfter returns at once: either the queue shuts down and nothing is     *)
(* left behind, or a goroutine now waits for the delay.                     *)
AddAfter(n) ==
    /\ \/ /\ shuttingDown
          /\ UNCHANGED timers
       \/ /\ ~shuttingDown
          /\ timers[n] < MaxTimers
          /\ timers' = [timers EXCEPT ![n] = @ + 1]
    /\ UNCHANGED <<qvars, cond, serving, stopped>>

(* The select of that goroutine: the timer fires and it calls Add, which    *)
(* does nothing once the queue shuts down; or it sees shutdownCh closed.    *)
(* After a shutdown both branches leave the queue alone.                    *)
DelayEnds(n) ==
    /\ timers[n] > 0
    /\ timers' = [timers EXCEPT ![n] = @ - 1]
    /\ AddBody(n)
    /\ UNCHANGED <<processing, shuttingDown, serving, stopped>>

----------------------------------------------------------------------------
(* Get.  A getter that runs is one that has not gone to sleep, has called   *)
(* Done for its last name and has not been told to stop.                    *)

Running(g) ==
    /\ g \notin waiting \cup stopped
    /\ serving[g] = NoName

GetWaits(g) ==
    /\ Running(g)
    /\ items = <<>>
    /\ ~shuttingDown
    /\ waiting' = waiting \cup {g}
    /\ woken' = woken \ {g}
    /\ UNCHANGED <<qvars, serving, stopped, timers>>

\* Faulty: falls through to the bookkeeping of a name with the zero name.
GetShutdown_MarksZeroName(g) ==
    /\ Running(g)
    /\ shuttingDown
    /\ processing' = processing \cup {NoName}
    /\ stopped' = stopped \cup {g}
    /\ woken' = woken \ {g}
    /\ UNCHANGED <<items, dirty, shuttingDown, waiting, serving, timers>>

GetShutdown(g) ==
    /\ Running(g)
    /\ shuttingDown
    /\ stopped' = stopped \cup {g}
    /\ woken' = woken \ {g}
    /\ UNCHANGED <<qvars, waiting, serving, timers>>

\* Faulty: takes the newest name instead of the oldest.
GetName_Newest(g) ==
    /\ Running(g)
    /\ items # <<>>
    /\ ~shuttingDown
    /\ LET n == items[Len(items)]
       IN  /\ items' = SubSeq(items, 1, Len(items) - 1)
           /\ dirty' = dirty \ {n}
           /\ processing' = processing \cup {n}
           /\ serving' = [serving EXCEPT ![g] = n]
    /\ woken' = woken \ {g}
    /\ UNCHANGED <<shuttingDown, waiting, stopped, timers>>

GetName(g) ==
    /\ Running(g)
    /\ items # <<>>
    /\ ~shuttingDown
    /\ LET n == Head(items)
       IN  /\ items' = Tail(items)
           /\ dirty' = dirty \ {n}
           /\ processing' = processing \cup {n}
           /\ serving' = [serving EXCEPT ![g] = n]
    /\ woken' = woken \ {g}
    /\ UNCHANGED <<shuttingDown, waiting, stopped, timers>>

Get(g) == GetWaits(g) \/ GetShutdown(g) \/ GetName(g)

(* Done(name) for the name g serves.  It has no shutdown check: a dirty     *)
(* name goes back to items even while the queue shuts down.                 *)

\* Faulty: a name that became dirty meanwhile is not queued again.
Done_NoRequeue(g) ==
    /\ serving[g] # NoName
    /\ processing' = processing \ {serving[g]}
    /\ serving' = [serving EXCEPT ![g] = NoName]
    /\ UNCHANGED <<items, dirty, cond, shuttingDown, stopped, timers>>

Done(g) ==
    /\ serving[g] # NoName
    /\ processing' = processing \ {serving[g]}
    /\ \/ /\ serving[g] \notin dirty
          /\ UNCHANGED <<items, cond>>
       \/ /\ serving[g] \in dirty
          /\ Enqueue(serving[g])
    /\ serving' = [serving EXCEPT ![g] = NoName]
    /\ UNCHANGED <<dirty, shuttingDown, stopped, timers>>

(* Shutdown: a second call returns early and changes nothing. *)

\* Faulty: wakes one sleeping getter instead of all of them.
Shutdown_SignalsOne ==
    /\ ~shuttingDown
    /\ shuttingDown' = TRUE
    /\ Signal
    /\ UNCHANGED <<items, dirty, processing, serving, stopped, timers>>

Shutdown ==
    /\ ~shuttingDown
    /\ shuttingDown' = TRUE
    /\ waiting' = {}
    /\ woken' = woken \cup waiting
    /\ UNCHANGED <<items, dirty, processing, serving, stopped, timers>>

----------------------------------------------------------------------------
Next ==
    \/ \E n \in Names : Add(n) \/ AddAfter(n) \/ DelayEnds(n)
    \/ \E g \in Getters : GetWaits(g) \/ GetShutdown(g) \/ GetName(g) \/ Done(g)
    \/ Shutdown

(* A getter that can run Get runs it (the Go scheduler runs every runnable  *)
(* goroutine, and q.mu is starvation free), work on a name ends, and a      *)
(* timer fires.  Nobody is obliged to add a name or to shut the queue down. *)
Fairness ==
    /\ \A g \in Getters : WF_vars(Get(g)) /\ WF_vars(Done(g))
    /\ \A n \in Names : WF_vars(DelayEnds(n))

Safety == Init /\ [][Next]_vars

Spec == Safety /\ Fairness

----------------------------------------------------------------------------
(* Properties *)

TypeOK ==
    /\ items \in Seq(Names)
    /\ dirty \subseteq Names
    /\ processing \subseteq Names
    /\ shuttingDown \in BOOLEAN
    /\ waiting \subseteq Getters
    /\ woken \subseteq Getters
    /\ serving \in [Getters -> Names \cup {NoName}]
    /\ stopped \subseteq Getters
    /\ timers \in [Names -> 0..MaxTimers]

(* A name is never in items twice, so one Add is never served by two rounds *)
(* of work (the two map checks of Add, the one of Done).                    *)
NoDuplicates ==
    \A i, j \in 1..Len(items) : items[i] = items[j] => i = j

(* The queue holds exactly the names that are owed a round and are not      *)
(* being processed: none is lost between Add, Get and Done in any order,    *)
(* and none is queued while a getter works on it.                           *)
QueueIsExact == Queued = dirty \ processing

(* Two getters never work on one name at the same time, and processing is   *)
(* exactly what the getters hold.                                           *)
ExclusiveService ==
    /\ processing = {serving[g] : g \in Getters} \ {NoName}
    /\ \A g, h \in Getters :
          serving[g] = serving[h] /\ serving[g] # NoName => g = h

(* While a getter sleeps, every queued name has its own getter already on   *)
(* the way to it: Signal once per append is enough, and nobody sleeps       *)
(* through a shutdown.                                                      *)
NoLostWakeup ==
    waiting # {} => /\ Len(items) <= Cardinality(woken)
                    /\ ~shuttingDown

(* Every name added, also one added while it is being processed, is handed  *)
(* to a getter afterwards, and every delayed add becomes an add, unless the *)
(* queue shuts down.                                                        *)
EveryAddIsServed ==
    \A n \in Names : /\ n \in dirty ~> (n \notin dirty \/ shuttingDown)
                     /\ timers[n] > 0 ~> (n \in dirty \/ shuttingDown)

(* After a shutdown every getter returns and every AddAfter goroutine ends: *)
(* serve.go waits for the scheduler after calling Shutdown.                 *)
ShutdownCompletes ==
    shuttingDown ~> /\ stopped = Getters
                    /\ \A n \in Names : timers[n] = 0

(* The queue keeps the promise of CoalescingQueue, fairness included.       *)
Abstract == INSTANCE CoalescingQueue WITH
    pending <- dirty, active <- processing, closed <- shuttingDown

ImplementsCoalescingQueue == Abstract!Spec
============================================================================
