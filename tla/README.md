# Hambo in TLA+

Hambo places containers on nodes. A server (`cmd/hambo-server`) stores nodes and
containers in a bolt database, decides in a scheduler goroutine which node gets
which container and streams every node its assignments. A worker
(`cmd/hambo-worker`) runs on each node, reports the state of the node and follows
its stream. This directory models the parts of that system where an order of
events, a failure or a limit can go wrong, checks them with TLC on small
instances, and proves the safety of every part, and the three refinements, with
TLAPS for all instances.

## The system

| Part | State it keeps | Operations | Talks to |
|---|---|---|---|
| Work queue (`internal/queue`) | `items`, `dirty`, `processing`, shutdown flag and channel; a condition variable; timer goroutines | `Add`, `AddAfter`, `Get`, `Done`, `Shutdown` | create handler (adds), scheduler (all others), `serve.go` (shutdown) |
| Scheduler (`internal/scheduler`) | none of its own: store, queue | startup loop, main loop, `assign` | store, queue, node watcher |
| Container API (`internal/api/containers.go`) | store | create | store, then queue |
| Node watcher (`internal/watch`) and `watchNodeHandler` | one channel per watched node; one stream per request | `Watch`, `Notify` | scheduler notifies, handlers wait, workers read |
| Sessions and reports (`internal/api/nodes.go`) | `StatusSessionID`, `StatusSequence`, `RuntimeReady`, `LastSeenAt`, container states | create session, report status | workers; the scheduler reads what they store |
| Worker (`internal/worker/worker.go`) | session ID, sequence; heartbeat and watch goroutines | `Run` | sessions, reports, watch |
| Enrollment (`joinNodeHandler`, `tokens.go`, `worker/join.go`, `state.go`, `lock.go`, `reset.go`) | tokens in the store; saved state and lock file on the worker | create token, join, start, reset | store, CA |
| Server lifecycle (`serve.go`) | goroutines and listener | start, graceful shutdown | all |
| Server initialisation (`init.go`, `pki/save.go`, `cliconfig/save.go`) | files | init | |
| PKI (`internal/pki`) | CA key; dates in certificates | issue certificates | enrollment, TLS on both sides |
| Store (`internal/store`) | bolt buckets | create, get, update, modify, delete, list, each also in a transaction; open, close | all |
| CLI, client library, HTTP plumbing, SQL store, Docker helpers | none that matters here | | |
| Simple worker (`cmd/simpleworker`) | a prototype daemon of its own | | |

The hard behaviours: the create handler commits a container and only then queues
its ID, while the scheduler's startup loop lists the same store; every step of
scheduler, handlers and timers interleaves; the process may stop between a commit
and what follows it (the `Add`, the `Notify`); a watch handler outlives its
client; a report or session request that its sender gave up may be handled later
than newer ones. `PROJECT.json` lists these hazards at their lines with the
properties that cover them.

What makes each part correct:

* Queue: nothing added is lost or worked on twice at once, nobody sleeps while
  there is work, a shutdown ends everything.
* Scheduler with create handler: a container that is stored and has no node is
  always in somebody's hands; it gets a node once, the least loaded of those
  that are reachable and ready; it gets one eventually if there is such a node.
* Watch: a handler sleeps only if its node has been told all it has; what a
  worker sees is never older than what it saw; every assignment arrives.
* Enrollment: a token enrolls one node, whatever is lost, late or repeated; the
  key of a registered node is on disk; an interrupted join can be completed.
* Initialisation: a run that succeeds keeps its files, one that fails leaves none.
* Shutdown: it ends, and without an error only if nobody was cut off.
* Store: a transaction happens at one moment, wholly or not at all, and returns.
* Validity: what was just issued is accepted, what is over is refused, on
  machines whose clocks differ and are set back.
* Reports: the newest report of the current session is what is stored; what was
  acknowledged is stored; earlier runs are fenced off.

## Modules

| Module | Models |
|---|---|
| `CoalescingQueue` | what a work queue promises: no lock, no order |
| `WorkQueue` | `MemoryQueue`; implements `CoalescingQueue` |
| `WorkQueueProofs` | theorems about `WorkQueue` |
| `Placement` | create handler, scheduler and server restarts around an instance of `WorkQueue` |
| `PlacementProofs` | theorems about `Placement` |
| `NodeWatch` | `NodeWatcher`, `watchNodeHandler`, `runWatch` |
| `NodeWatchProofs` | theorems about `NodeWatch` |
| `Cluster` | `Placement` and `NodeWatch` in one server process; implements `NodeWatch` |
| `ClusterProofs` | theorems about `Cluster` |
| `NodeStatus` | sessions and reports against `Run` and `runHeartbeat` of a worker |
| `NodeStatusProofs` | theorems about `NodeStatus` |
| `Enrollment` | token creation, `Join`, `Start`, `Reset` and `joinNodeHandler` |
| `EnrollmentProofs` | theorems about `Enrollment` |
| `AtomicStore` | what the store promises: transactions that happen at one moment |
| `Store` | `internal/store` on bolt; implements `AtomicStore` |
| `Validity` | the dates of certificates, tokens and reports on several clocks |
| `ValidityProofs` | theorems about `Validity` |
| `ServerInit` | concurrent runs of `hambo-server init` |
| `ServeLifecycle` | the shutdown of `hambo-server serve` |
| `HamboServerProofs` | theorems about `ServerInit`, `ServeLifecycle` and `Store` |
| `MC...` | constants for TLC |

`WorkQueue` is instanced by `Placement`, and `Placement` and `NodeWatch` by
`Cluster`; the other models stand next to each other. `NodeWatch` abstracts the
scheduler of `Placement` to a commit and a notification: `Cluster` shows that the
scheduler is one of those it allows. `ServeLifecycle` abstracts the scheduler to
its use of the store, and `Placement` in turn the reports of `NodeStatus` and the
end of the process. That a write transaction is one action everywhere but in
`NodeStatus`, which shows the loop of one, is what `Store` is checked, and
proved, for.

The definitions of `ServerInit` and `Store` that every module has (`Init`, `Next`,
...) carry a prefix, because `HamboServerProofs` extends both.

How code becomes actions:

* **WorkQueue.** A critical section of `q.mu` is one action. `Get` is three: the
  loop condition holds and the caller goes to sleep (`GetWaits`), shutdown
  (`GetShutdown`), a name (`GetName`). `waiting` are the goroutines inside
  `cond.Wait`, `woken` those signalled that compete for the lock again. The
  goroutine of `AddAfter` is a unit of `timers[n]`; `DelayEnds` is its end.
* **Placement.** A bolt write transaction is one action (one writer at a time,
  atomic, durable). `CreateCommit` and `CreateAdd` are the two halves of the
  create handler; `adding` are the handlers between them. `sched` is the program
  counter of `Scheduler.Run` and `assign`. The choice of the node is the loop of
  the code over the nodes in key order. A node's clock-dependent reachability is
  membership in `reachable`, entered by a report and left at any time. `Crash`
  drops everything but the store. `DeletionRequestedAt` does not occur: no code
  sets it.
* **NodeWatch.** Channels are numbered so that a stale one, a closed one and a
  new one are different things. A handler takes its channel, lists, writes and
  waits in four steps; `wire` is what the connection buffers; `broken` is known
  to neither end until it looks.
* **Cluster.** A step is a step of one of the two with the other unchanged, or
  of both: `Notify` is the scheduler's call and the watcher's body, and a crash
  takes queue, watch map and handlers together. The assignments that `NodeWatch`
  watches are those in the store of `Placement`.
* **Store.** A client calls a method of `Collection` (`Create` to `List`) or
  `WriteTx` with a function, which is a sequence of operations. Begin, each
  operation, the commit or the rollback, and the return to the caller are steps
  of their own. bolt is external, modelled from what the code asks of it: one
  writer on a copy of its own, readers on the contents at their start. `Open` is
  the end of the process anywhere together with the next start. A value is what
  a caller's change tells apart; an entry may be one that does not decode.
* **Validity.** `elapsed` is the time nobody knows; every machine's clock is ahead
  of it by at most `MaxSkew` and may be set at any time. `init` has succeeded. A
  handshake looks at the dates of both certificates and of the CA by the clocks
  of both sides; an open connection is not looked at again (`NodeOnly`), and any
  report on it counts. A join is one step, and a node joins once.
* **NodeStatus.** Requests are a set that can be handled in any order, at most
  once, or lost. A reply counts only while its sender waits. `main`, `heartbeat`
  and `watch` are the three goroutines of a run. A report is a write
  transaction of several steps: its checks (`Refuse`, `IgnoreStale`, `Begin`), one
  per container on a draft (`SkipContainer`, `UpdateContainer`), and its end, which
  makes the draft the store (`Commit`) or drops it (`DenyContainer`, `FailTx`).
  bolt has one writer, so no other request is handled in between, but the worker
  goes on: it may give up, send the next report, be killed or start again.
  `saidReady` is what the run that holds the session has said of itself. The
  64-bit sequence has `Width` bits. A node has one run at a time (`worker.lock`).
* **Enrollment.** A process has the lock of a directory if no other process is in
  it (`LockFree`); `worker.json` is replaced by a rename, so a save is one action.
  A name stands for the node name and the server's address, a key for the private
  key, its CSR and the public key that the request hash contains. A new key is one
  that occurs nowhere. Requests are handled in any order, at most once each, or
  lost, and outlive their sender; the transaction of `joinNodeHandler` is one
  action with a disjunct for each way out. `Exit` is an error or a kill at any
  point.
* **ServerInit.** A path holds nothing or a file, which stands for the run that
  created it and whether it is complete. Creation fails if there is a file, or for
  reasons of the file system. A run that fails works off `undo`, its own removal
  and then the deferred ones, path by path, while other runs go on; a removal that
  fails is in the error it reports (`unremoved`).
* **ServeLifecycle.** `main` is the program counter of `run` and `runServer`; the
  scheduler and `ServeTLS` are goroutines of their own, every request a slot.
  `net/http` is external: `Shutdown` waits for all slots, `Close` for none.
  Waiting for a client and computing are different states of a request.

Operators commented *Faulty* are plausible bugs, written next to the operator
they replace; each property is known to fail on one of them.

## Runs

| Run | Instance | Shows |
|---|---|---|
| `queue` | 3 names, 3 getters, 1 delayed add per name | nothing lost, no lost wakeup; every add served, shutdown completes; refinement of `CoalescingQueue` with fairness |
| `placement_safety` | 2 containers, 2 names, 2 nodes, 1 crash, symmetry | no container lost or placed twice, least loaded node, at most two retries per container |
| `cluster` | 1 container, 1 node, 1 handler, 2 retry timers, 1 crash | `Placement` implements what `NodeWatch` assumes; a created container is placed and seen by its worker |
| `watch_safety` | 2 nodes, 2 containers, 2 handlers, 1 crash, symmetry | no missed change, no closed channel kept, what a worker sees never goes back |
| `status` | 2 runs, 2-bit sequence, 2 requests in flight, 4 contents of a report | newest report wins, acknowledged is stored, ready on the holder's word, fencing, a report counts whole or not at all; a run that must end ends |
| `status_takeover` | as above, empty lists | a violation: see below |
| `enrollment_safety` | 2 directories, 2 processes, 2 tokens, 2 names, 3 keys, symmetry | one node per token and key, credentials agree on both sides, keys kept, no state pulled away |
| `enrollment_liveness` | 1 directory, 2 processes, 2 tokens, 1 name, 2 keys | an interrupted join completes when it is run again |
| `init_safety` | 3 runs, 1 deletion by the operator, symmetry | success stays, failure leaves nothing, no server certificate without its CA |
| `shutdown` | 2 requests | the process ends after a signal, promptly if clients act; no request or transaction is cut off silently |
| `store` | 2 clients, 2 entries, 2 values, all methods, 3 functions | refinement of `AtomicStore`: all or nothing, one after the other; every call returns |
| `validity` | 1 node, server, administrator; backdating and skew 1, CA 7, leaf 4, token and heartbeat 2, time up to 10 | nothing young refused, nothing old accepted, a node past its certificate is gone after a restart |

Why the bounds are enough. Three getters and three names let one getter sleep,
one be signalled and one work on a name that is added again; `Placement` has
more than one delayed add of a name. The queue has one
getter in `Placement`; two containers give a retry of one while the other is
created, two nodes give a choice, a tie and a stale candidate. `MaxTimers` is 3
there, one above the two that `RetriesBounded` allows, so the bound never hides
a third. Two handlers are an old one that has not noticed its client is gone and
a new one. Two runs give a predecessor and a successor; two bits let the
sequence wrap. The four contents of a report are a node that is not ready, a
container that runs, one listed twice with an unknown one between, and one listed
before a container of another node. Two directories contend for one token and one directory for two;
the third key is that of a join after a reset, while a request with the first is
still under way. Of three runs of `init` two can fail or be killed around one
that succeeds. Two requests are one that is cut off and one that is not.
`MaxWire`, `MaxInFlight` and `MaxCrashes` cut what would repeat.

`cluster` has one container because its fairness makes it the largest run; what
several containers do to each other on the way is in the safety of `placement_safety`
and `watch_safety`, and in the liveness of the queue with three names
(`ImplementsCoalescingQueue`, `EveryAddIsServed`). Its one handler is the old one
and, once it has noticed that its client is gone, the new one. In `store` two
clients give a writer and another writer or reader; the three functions are a
lookup before a create, three operations of which the last may be refused after
a write, and an update of what is gone. In `validity` the CA is older than one
leaf and a half, so a late leaf is clamped to it, and time goes on until the CA,
too, has been over for longer than the skew; the backdating equals the skew, the
largest for which `YoungIsAccepted` can hold.

`status_takeover` checks what a comment in `createNodeSessionHandler` says of
the requests it handles, "A new worker run requests a new session!". The handler
does not look at its request context, so a request that the worker gave up after
five seconds may still be handled after the next run of the worker got its
session. The old request then replaces that session, and the live run is
refused with 409 and exits. Nothing in the store becomes wrong (`OldRunsAreFenced`
and `ReadyIsReported` hold throughout): the node has to be started once more.

A remark on `PromptShutdown`: `TestRunServerStopsAfterGracePeriod`
(`main_test.go:48`) has a handler that waits for its request context and expects
it to use up the grace period. Since `runServer` makes its own context the base
of every request's, such a handler ends with the cancellation that starts the
shutdown. The test predates that, and calls `runServer` without the parameters
it has now.

### Fairness

* Goroutines that can run do (weak fairness on getters, handlers, scheduler and
  worker steps): the Go scheduler and Go mutexes starve nobody.
* A timer fires; work on a name ends.
* `Placement` has strong fairness on the assign transaction of each container: a
  transaction that fails is retried every ten seconds, and is assumed not to
  fail for ever.
* `Enrollment` has strong fairness on the steps of a join that is run again
  and again in a directory (`Retries`): a person or a service manager repeats the
  command, and not every request is lost. A request that is not answered times
  out (ten seconds in the client).
* `Cluster` composes the fairness of `Placement` with that of the handlers and of
  the worker's loop, which reconnects and reads.
* `Store` has weak fairness on the steps of a function and strong fairness on
  the start of a write transaction: the mutex of bolt's writers is a Go mutex,
  which hands itself to the longest waiter.
* `ServeLifecycle` states what it needs in each property: the grace period ends
  (`ShutdownEnds`), or clients send and read (`PromptShutdown`).
* Nobody owes an `Add`, a report, a shutdown, a crash or a restart.
  `EveryContainerArrives` has as its premise that the server stays up, that some
  node stays eligible and that the nodes keep a connection.

`CHECK_DEADLOCK FALSE` is set where the system may stop: `NodeStatus` (a worker
that has exited may stay off, the number of runs is bounded), `Enrollment` (the
same, and the pool of keys is finite), `ServerInit` (all runs end) and
`ServeLifecycle` (the process ends).

## Proofs

`WorkQueueProofs` holds for any set of names, any finite set of getters and any
bound on delayed adds (`WorkQueueAssumption`). The inductive invariant `IInv` is
the conjunction of the four safety invariants, the type invariant and
`waiting \cap woken = {}`. The last is what makes `NoLostWakeup` inductive: a
signal moves a getter from the first set to the second, so the cardinality of
the second grows by one for every append. `AppendQueue` and `TailQueue` say what
the two sequence operations do to the set of queued names; `AddBodyKeeps` is
shared by `Add` and the end of a delay. `SafetyRefines` shows every step to be a
step of `CoalescingQueue` or a stutter, from the same invariant (a name taken
from `items` is dirty and not being processed).

`PlacementProofs` holds for any containers, names, number of nodes, timers and
crashes (`PlacementAssumption`). It is built in layers:

1. `NextQueueStep`: every step of `Placement` is a step of its `WorkQueue`, a
   stutter of it, or a fresh queue. The queue's invariant comes from
   `WorkQueueProofs` and is not proved again.
2. `Base` adds the types and `HoldsWhileWorking` (the scheduler holds an ID
   exactly between `Get` and `Done`); `NextBase` shows it inductive.
3. `NextStoreStep`: from `Base`, a step leaves the store alone, adds a container
   under a free name or moves one container on (`MovesOn`). `UniqueNames`,
   `ReasonIsCurrent`, `StartedIsAssigned`, `AssignedOnce` and `LifecycleForward`
   follow from that form alone.
4. `NoLostContainer` is inductive once `Base` is known: a container without a
   node had none before or is new (`WaitedBefore`), and each step that takes it
   out of one hand puts it into another.
5. `RetriesBounded` is not inductive. `AtMostTwoHands` counts the hands a
   container is in (`Hands`): its create handler gives it one, the startup loop
   another, and every other step passes it on or drops it. So the `MaxTimers` of
   the runs hides no behaviour.

6. `PicksLeastLoaded` needs that the loop of `assign` computes what it should for
   any number of nodes. `Selected` is a recursive function; `LoopExists` says that
   there is one, `SelectedNodeIsBest` that after `i` nodes it has the best of them
   (`BestOf`, the invariant of the loop). Both are inductions over a set of
   numbers (`SetInduction`), which follows from the least number of a set and so
   from the library's `WFMin`: the prover cannot instantiate the library's
   induction rule, whose parameter is an operator, but it can instantiate a rule
   about sets. That loads can be compared needs that only finitely many
   containers exist (`FinitelyMany`), which holds as each step creates one at most.

`NodeWatchProofs` holds for any nodes, containers, handlers, connection size and
crashes (`NodeWatchAssumption`). It has two inductive invariants:

1. `WatchInv`: no two nodes share a channel and none in the map is closed
   (`ChannelsAreOwn`); an open channel of a handler is the one in the map
   (`HoldsItsChannel`), so the next `Notify` closes it; and `NoMissedChange`
   already holds from the list on, not only while the handler waits
   (`HasListedAll`).
2. `StreamInv`: the chain from the store to the worker. What the handler listed is
   part of what is assigned, what is in the connection part of what was listed, a
   snapshot part of the next one (`WireGrows`), and what the worker has seen part
   of the first (`ReaderGrows`). It needs that no two workers read one stream and
   that a broken connection is empty. A handler that outlives its client can
   write, but to a connection nobody reads any more.

`ValidityProofs` holds for any nodes, any lives and backdating, and any skew that
is not larger than the backdating (`ValidityAssumption`), which the code sets to
five minutes. `Stamped` bounds every stored date by the moment it was stored at;
the lower bound on a leaf's end is its own life or that of the CA. From it
`YoungIsAccepted` and `OldIsRefused` are arithmetic on one state.
`ExpiredNodeIsGone` is about the past: `Silenced` says that a node whose
certificate was over at the last start of the server has neither a connection nor
a report since, which a handshake cannot break (`AcceptedIsYoung`).

`NodeStatusProofs` holds for any containers, contents of a report, width of the
sequence of at least one bit, number of runs and of requests in flight
(`NodeStatusAssumption`).
None of its properties is inductive. `Fenced` says that the session in the store
belongs to one run, its holder, and no request of another run carries it;
`GrantIsFresh` that a session that was just granted has no reports yet;
`Numbered` and `NextIsFresh` that within a session a number belongs to one report
and the next number to none, which is where the end of the sequence matters
(`WidthHasTwoNumbers`: it does not wrap to itself). Then the comparison of two
numbers in the handler orders the two reports, and `AnsweredIsStored`, which
starts when the server answers and not when the worker hears of it, is inductive.
`TxOK` is about the transaction under way: it was current when it began and still
is, since nobody else writes, and its draft has for each container the furthest
of the state in the store and those the report has given it so far (`LoopStep`,
`Ranks`); none of those it has done is foreign. With the whole list that is what
`ReportIsWhole` says of the commit. `ReadyIsReported` needs that a run makes at
most one session (`OneSession`), so what its earlier reports said stays what they
said, and that a request on its way, however old, says what is recorded of it
(`Said`). `OldRunsAreFenced`, `OlderNeverOverwrites` and `ReportIsWhole` are steps
from that invariant.

`EnrollmentProofs` holds for any directories, processes, tokens, names, keys and
node IDs (`EnrollmentAssumption`). The thread is the key: it is in one directory,
or a process is about to save it there (`KeysApart`); all requests with it are for
one token (`RequestsAgree`), so two requests of one enrollment never use up two
tokens; what the server gave out names the key (`IssuedOK`). `LocksOK` and
`MemoryOK` say what a process may rely on while it holds a directory: what it has
in memory is what is saved, at each point of `Join`. `OneNodePerEnrollment`,
`CredentialsAgree` and `KeyIsKept` are part of the invariant; no part of it is
inductive without the others. `StateIsNotPulledAway` and `EnrollmentIsFinal`
follow step by step.

`ClusterProofs` holds for any containers, names, nodes, streams and bounds
(`ClusterAssumption`). The invariant is small: the scheduler owes a notification
only between the commit of an assignment and its `Notify` (`OwesOnlyAfterCommit`).
From it every step of the server is one that the watch does not see (`Quiet`), a
commit of one assignment (`Commits`), the notification or a crash, and each of
these is a step of `NodeWatch` or a stutter. So what `NodeWatchProofs` proves
holds of the composition: `ClusterNoMissedChange` and `ClusterSeenOnlyGrows`
instance it and prove nothing again. `ClusterSeenIsPlaced` brings the two sides
together: what a worker was told is what the store says, so no two workers are
ever told to run the same container (`ClusterNoTwoNodesRunOne`).

`HamboServerProofs` has three parts that share no state.

1. `init`, for any number of concurrent runs (`ServerInitAssumption`). Until it fails, a run
   has created the files before the one it is at, completely, and none after it
   (`Creating`). While it cleans up, its list has its own files only, each once,
   the server's before the CA's, and all of them unless a removal has failed
   (`Undoing`). So a removal by path never hits the file of another run, although
   nothing but the exclusive creation keeps runs apart, and `SuccessStays`,
   `FailureLeavesNothing` and `ServerHasItsCA` are preserved.
2. `serve`, for any set of requests. `InOrder` ties the position of `run` to who has
   ended: past the drain nobody is served or the error says so, past the receipt
   from `serveErrCh` nobody can connect any more (without this the former is not
   inductive), and queue and store close in that order, the store after the
   scheduler. `NothingIsCutOff` follows from `InOrder` in every state.
3. The store implements `AtomicStore`, for any goroutines, keys, values and
   functions (`StoreAssumption`; the one restriction on functions is that an
   `UpdateTx` follows a `GetTx`, as in all the code). `Inside` says that a function
   which has done `i` operations sees what these come to, one after the other,
   from the contents that its transaction began with (`After`, defined by the same
   kind of induction as above), and that these contents are still on disk if it
   is the writer. `StepOperates` shows this method by method, `AfterError` that
   nothing follows an error. A write transaction then happens when it commits or
   rolls back (`EndedIsRun`), a read when it begins: what its client will be told
   (`Told`) is fixed there, and is what the end of the view returns (`NextMaps`).

In the models a record that changes in several fields is replaced by one `EXCEPT`
at its index, `[f EXCEPT ![x] = [@ EXCEPT !.a = ..., !.b = ...]]`: several paths
through one index are the same to TLC, but version 1.4.5 of the prover does not
read them that way.

Proved and not checked by a run of their own are `NoDuplicates`,
`SchedulerHoldsOne`, `UniqueNames`, `ReasonIsCurrent`, `StartedIsAssigned`,
`LifecycleForward`, the type invariants of `NodeWatch`, `NodeStatus`, `Enrollment`,
`ServerInit` and `Store`, what `Cluster` inherits from `NodeWatch`, and
`SeenIsAssigned`, `SeenIsPlaced` and `NoTwoNodesRunOne`.

Only model-checked is what is out of the prover's reach, liveness:
`EveryAddIsServed`, `ShutdownCompletes` and the fairness half of
`ImplementsCoalescingQueue` for the queue, `EveryContainerArrives` for the cluster,
`RunEnds`, `PendingCompletes`, `ShutdownEnds`, `PromptShutdown` and
`EveryCallReturns`. The violation of `status_takeover` is a counterexample.

## Not modelled

* bolt: `Store` takes from it that writers come one at a time, that a commit is one
  durable step and that a reader sees one state of the file.
* A loss of power: `saveState` does not sync, so a completed rename could be
  undone. Processes end in the models, machines do not.
* Keys, names and usages of certificates, CSRs and the text of tokens: they are
  model values or left out. Clocks that are further apart than the backdating.
* The deletion of nodes and containers, which no code performs. The branch of
  `joinNodeHandler` for a node that is gone is therefore unreachable.
* HTTP routing, the CLI, the SQL store (opened and unused), the Docker helpers (not
  called by the worker yet).
* The simple worker (`cmd/simpleworker`): a prototype that shares no package,
  protocol or state with the rest. Its own goroutines would be a model of their
  own.
* The start of `serve` before its listener opens, which is sequential.

## Plan

1. Proofs: what else joins the parts in `Cluster`, like the properties of `Placement`
   in the presence of the watch.
2. `SimpleWorker`: the map of containers of the prototype daemon, a goroutine per
   request, and what a client reads while a container is being created.
