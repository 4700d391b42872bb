--------------------------- MODULE ServeLifecycle ---------------------------
(***************************************************************************)
(* The end of hambo-server serve (cmd/hambo-server/serve.go): the HTTP     *)
(* server with its grace period, the scheduler, the queue and the store,   *)
(* each of which is used by goroutines that run ends one after the other.  *)
(* The start before the listener opens is sequential and left out.         *)
(*                                                                         *)
(* A request is a slot of at; net/http is modelled from its use: Shutdown  *)
(* closes the listener and waits for requests and for connections that    *)
(* have not sent one yet, Close closes every connection and waits for      *)
(* nobody.                                                                 *)
(***************************************************************************)
CONSTANT Requests       \* requests and connections open at one time

VARIABLES
    main,               \* where run and runServer are
    errors,             \* what run will return, joined
    cancelled,          \* runCtx, which is every request's base context
    serving,            \* the goroutine of ServeTLS
    closed,             \* server.Close was called: all connections are closed
    sched,              \* the goroutine of the scheduler
    queueOpen,          \* no Shutdown of the queue yet
    dbOpen,
    at                  \* at[r]: where the handler of r is

goroutines == <<sched, serving>>
vars == <<main, errors, cancelled, goroutines, closed, queueOpen, dbOpen, at>>

Init ==
    /\ main = "select"
    /\ errors = {}
    /\ cancelled = FALSE
    /\ serving = "running"
    /\ closed = FALSE
    /\ sched = "list"
    /\ queueOpen = TRUE
    /\ dbOpen = TRUE
    /\ at = [r \in Requests |-> "none"]

Alive == main # "exited"        \* the goroutines end with their process

-----------------------------------------------------------------------------
(* The goroutine of ServeTLS. *)

\* By server.Shutdown; runServer only leaves serveErr when ServeTLS has ended.
ListenerClosed == main \in {"drain", "serveErr"}

(* The certificate cannot be read, or Accept fails for good. *)
ServeFails ==
    /\ Alive
    /\ serving = "running" /\ ~ListenerClosed
    /\ serving' = "failed"
    /\ UNCHANGED <<main, errors, cancelled, sched, closed, queueOpen, dbOpen, at>>

(* ServeTLS returns ErrServerClosed. *)
ServeReturns ==
    /\ Alive
    /\ serving = "running" /\ ListenerClosed
    /\ serving' = "returned"
    /\ UNCHANGED <<main, errors, cancelled, sched, closed, queueOpen, dbOpen, at>>

-----------------------------------------------------------------------------
(* The goroutine of containerScheduler.Run, reduced to when it uses the    *)
(* store and when it ends: Placement has the rest.                         *)

(* The startup loop cannot read the store: cancel, and the error is left   *)
(* in schedulerDone.                                                       *)
SchedulerFails ==
    /\ Alive
    /\ sched = "list"
    /\ sched' = "failed"
    /\ cancelled' = TRUE
    /\ UNCHANGED <<main, errors, serving, closed, queueOpen, dbOpen, at>>

SchedulerStarts ==
    /\ Alive
    /\ sched = "list"
    /\ sched' = "get"
    /\ UNCHANGED <<main, errors, cancelled, serving, closed, queueOpen, dbOpen, at>>

SchedulerGets ==
    /\ Alive
    /\ sched = "get"
    /\ sched' = IF queueOpen THEN "assign" ELSE "ended"
    /\ UNCHANGED <<main, errors, cancelled, serving, closed, queueOpen, dbOpen, at>>

SchedulerAssigns ==
    /\ Alive
    /\ sched = "assign"
    /\ sched' = "get"
    /\ UNCHANGED <<main, errors, cancelled, serving, closed, queueOpen, dbOpen, at>>

-----------------------------------------------------------------------------
(* Requests: none, new (a connection without a request), body (read from   *)
(* the client), store (before its transaction), add (a container is        *)
(* committed and not queued), answer (written to the client); and of       *)
(* watchNodeHandler: watch (at the head of its loop), list, send (a        *)
(* snapshot is written to the client), wait.                               *)

\* Faulty: every request has a context of its own.
ContextDone_OwnOnly(r) == closed

(* The base context is runCtx; Close ends the context of the connection.   *)
ContextDone(r) == cancelled \/ closed

Moves(r, s) ==
    /\ at' = [at EXCEPT ![r] = s]
    /\ UNCHANGED <<main, errors, cancelled, goroutines, closed, queueOpen, dbOpen>>

Accept(r) ==
    /\ Alive
    /\ serving = "running" /\ ~ListenerClosed
    /\ at[r] = "none"
    /\ Moves(r, "new")

(* Also after Shutdown was called. *)
RequestArrives(r) ==
    /\ Alive
    /\ at[r] = "new" /\ ~closed
    /\ \E s \in {"body", "watch"} : Moves(r, s)

(* The client leaves, or Shutdown finds the connection idle for long. *)
ConnectionEnds(r) ==
    /\ Alive
    /\ at[r] = "new"
    /\ Moves(r, "none")

(* The client has sent its request, or something that is refused. *)
BodyArrives(r) ==
    /\ Alive
    /\ at[r] = "body" /\ ~closed
    /\ \E s \in {"store", "answer"} : Moves(r, s)

(* A transaction: fails when the store is closed. *)
UseStore(r) ==
    /\ Alive
    /\ at[r] = "store"
    /\ \/ Moves(r, "answer")
       \/ dbOpen /\ Moves(r, "add")

(* queue.Add of createContainerHandler: does nothing after the Shutdown of *)
(* the queue.                                                              *)
AddToQueue(r) ==
    /\ Alive
    /\ at[r] = "add"
    /\ Moves(r, "answer")

WatchBegins(r) ==
    /\ Alive
    /\ at[r] = "watch"
    /\ Moves(r, IF ContextDone(r) THEN "none" ELSE "list")

WatchLists(r) ==
    /\ Alive
    /\ at[r] = "list"
    /\ Moves(r, IF dbOpen THEN "send" ELSE "none")

(* The select of the handler: the end of its context. *)
WatchEnds(r) ==
    /\ Alive
    /\ at[r] = "wait" /\ ContextDone(r)
    /\ Moves(r, "none")

(* The select of the handler: a change, also when its context is done. *)
WatchWakes(r) ==
    /\ Alive
    /\ at[r] = "wait"
    /\ Moves(r, "watch")

(* The client takes what is written to it. *)
ClientReads(r) ==
    /\ Alive
    /\ ~closed
    /\ \/ at[r] = "send" /\ Moves(r, "wait")
       \/ at[r] = "answer" /\ Moves(r, "none")

(* The client is gone, or Close has closed its connection: reads and       *)
(* writes fail, and the context of the request is done.                    *)
ConnectionBreaks(r) ==
    /\ Alive
    /\ at[r] \in {"body", "send", "wait", "answer"}
    /\ Moves(r, "none")

-----------------------------------------------------------------------------
(* run and runServer. *)

Goes(from, to) == main = from /\ main' = to

(* SIGINT or SIGTERM. *)
Signal ==
    /\ Alive
    /\ cancelled' = TRUE
    /\ UNCHANGED <<main, errors, goroutines, closed, queueOpen, dbOpen, at>>

(* The select of runServer: either case, if both are ready. *)
ReturnServeError ==
    /\ Goes("select", "stopQueue")
    /\ serving = "failed"
    /\ errors' = {"serve"}
    /\ UNCHANGED <<cancelled, goroutines, closed, queueOpen, dbOpen, at>>

StartShutdown ==
    /\ Goes("select", "drain")
    /\ cancelled
    /\ UNCHANGED <<errors, cancelled, goroutines, closed, queueOpen, dbOpen, at>>

\* Faulty: closes the listener and does not wait for requests.
ShutdownReturns_AtOnce ==
    /\ Goes("drain", "serveErr")
    /\ UNCHANGED <<errors, cancelled, goroutines, closed, queueOpen, dbOpen, at>>

(* server.Shutdown has waited for everybody. *)
ShutdownReturns ==
    /\ Goes("drain", "serveErr")
    /\ \A r \in Requests : at[r] = "none"
    /\ UNCHANGED <<errors, cancelled, goroutines, closed, queueOpen, dbOpen, at>>

(* shutdownGracePeriod is over: server.Close. *)
GraceExpires ==
    /\ Goes("drain", "serveErr")
    /\ \E r \in Requests : at[r] # "none"
    /\ errors' = {"grace"}
    /\ closed' = TRUE
    /\ UNCHANGED <<cancelled, goroutines, queueOpen, dbOpen, at>>

\* Faulty: ErrServerClosed is returned as an error.
ReceiveServeErr_Unfiltered ==
    /\ Goes("serveErr", "stopQueue")
    /\ serving # "running"
    /\ errors' = errors \cup {serving}
    /\ UNCHANGED <<cancelled, goroutines, closed, queueOpen, dbOpen, at>>

(* <-serveErrCh; ErrServerClosed is no error. *)
ReceiveServeErr ==
    /\ Goes("serveErr", "stopQueue")
    /\ serving # "running"
    /\ errors' = IF serving = "failed" THEN errors \cup {"serve"} ELSE errors
    /\ UNCHANGED <<cancelled, goroutines, closed, queueOpen, dbOpen, at>>

\* Faulty: left to the deferred call, after the scheduler has ended.
StopQueue_Deferred ==
    /\ Goes("stopQueue", "join")
    /\ UNCHANGED <<errors, cancelled, goroutines, closed, queueOpen, dbOpen, at>>

StopQueue ==
    /\ Goes("stopQueue", "join")
    /\ queueOpen' = FALSE
    /\ UNCHANGED <<errors, cancelled, goroutines, closed, dbOpen, at>>

(* <-schedulerDone, then the deferred calls down to listener.Close: runCtx *)
(* is cancelled on every path.                                             *)
JoinScheduler ==
    /\ Goes("join", "closeDB")
    /\ sched \in {"ended", "failed"}
    /\ errors' = IF sched = "failed" THEN errors \cup {"scheduler"} ELSE errors
    /\ cancelled' = TRUE
    /\ UNCHANGED <<goroutines, closed, queueOpen, dbOpen, at>>

(* The deferred Close of the store waits for the transactions under way,   *)
(* which are single steps here.                                            *)
CloseDB ==
    /\ Goes("closeDB", "exit")
    /\ dbOpen' = FALSE
    /\ UNCHANGED <<errors, cancelled, goroutines, closed, queueOpen, at>>

(* run returns and main ends the process. *)
Exit ==
    /\ Goes("exit", "exited")
    /\ UNCHANGED <<errors, cancelled, goroutines, closed, queueOpen, dbOpen, at>>

Run ==
    \/ ReturnServeError \/ StartShutdown \/ ShutdownReturns
    \/ ReceiveServeErr \/ StopQueue \/ JoinScheduler \/ CloseDB \/ Exit

Scheduler ==
    SchedulerFails \/ SchedulerStarts \/ SchedulerGets \/ SchedulerAssigns

\* What a handler does without its client.
Handles(r) ==
    UseStore(r) \/ AddToQueue(r) \/ WatchBegins(r) \/ WatchLists(r) \/ WatchEnds(r)

\* What a client does that is there.
ClientActs(r) == RequestArrives(r) \/ BodyArrives(r) \/ ClientReads(r)

Next ==
    \/ Run \/ GraceExpires \/ Signal
    \/ ServeFails \/ ServeReturns
    \/ Scheduler
    \/ \E r \in Requests :
          \/ Accept(r) \/ Handles(r) \/ WatchWakes(r) \/ ClientActs(r)
          \/ ConnectionEnds(r) \/ ConnectionBreaks(r)

-----------------------------------------------------------------------------
(* Goroutines that can run do. *)
Goroutines ==
    /\ WF_vars(Run) /\ WF_vars(ServeReturns) /\ WF_vars(Scheduler)
    /\ \A r \in Requests : WF_vars(Handles(r))

Safety == Init /\ [][Next]_vars
Spec == Safety /\ Goroutines

(* What ends a shutdown: its timer, or clients that send and read.          *)
TimerFires == WF_vars(GraceExpires)
ClientsAct == \A r \in Requests : WF_vars(ClientActs(r))

-----------------------------------------------------------------------------
TypeOK ==
    /\ main \in {"select", "drain", "serveErr", "stopQueue", "join", "closeDB",
                 "exit", "exited"}
    /\ errors \subseteq {"serve", "grace", "scheduler"}
    /\ cancelled \in BOOLEAN /\ closed \in BOOLEAN
    /\ serving \in {"running", "failed", "returned"}
    /\ sched \in {"list", "get", "assign", "ended", "failed"}
    /\ queueOpen \in BOOLEAN /\ dbOpen \in BOOLEAN
    /\ at \in [Requests -> {"none", "new", "body", "store", "add", "answer",
                            "watch", "list", "send", "wait"}]

(* Nobody uses what run has ended: the scheduler never finds the store      *)
(* closed, and neither does a request find the queue or the store closed,   *)
(* unless run returns the error that says so.  A server that stops without  *)
(* an error has answered every request and queued every container.          *)
NothingIsCutOff ==
    /\ ~dbOpen => sched \in {"ended", "failed"}
    /\ ~queueOpen \/ ~dbOpen =>
          errors \cap {"grace", "serve"} # {} \/ \A r \in Requests : at[r] = "none"

(* After a signal, a scheduler that cannot start or a listener that fails   *)
(* the process ends, whatever clients hold up and wherever the scheduler    *)
(* is.                                                                      *)
ShutdownEnds ==
    TimerFires => (cancelled \/ serving = "failed" ~> main = "exited")

(* If clients do their part, it takes no grace period: the watches of the   *)
(* workers, which have no end of their own, end with the server's context   *)
(* ("we share the server context with the requests", serve.go:157).         *)
(* TestRunServerStopsAfterGracePeriod (main_test.go:41-107) still expects a *)
(* handler that waits for its request's context to use up the grace period: *)
(* it is older than that context, and calls runServer without some of the   *)
(* parameters it has now.                                                   *)
PromptShutdown ==
    ClientsAct => (cancelled \/ serving = "failed" ~> main = "exited")

=============================================================================
