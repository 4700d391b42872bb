---------------------------- MODULE NodeStatus ----------------------------
(***************************************************************************)
(* The reports of one node: Run and runHeartbeat of                        *)
(* internal/worker/worker.go against createNodeSessionHandler and          *)
(* reportNodeStatusHandler of internal/api/nodes.go.                       *)
(*                                                                         *)
(* A run of the worker asks for a session and then reports with increasing *)
(* sequence numbers.  A request may be lost, or wait (in the network, or   *)
(* for the write lock of the store) until long after the worker gave it up *)
(* and sent others, also until another run of the worker has started.  Its *)
(* answer only counts while the worker still waits for it.                 *)
(*                                                                         *)
(* A report is handled in one write transaction of the store, here a step  *)
(* for its checks, one for every container it lists and one for its end.   *)
(* bolt lets no other write transaction in meanwhile, and what this one    *)
(* has written (draft) counts with its commit, or never.                   *)
(*                                                                         *)
(* The containers of a report are whatever the API accepts, in any order   *)
(* and as often as it likes; the worker of this version always sends an    *)
(* empty list, one of these.                                               *)
(***************************************************************************)
EXTENDS Naturals, Sequences, FiniteSets

CONSTANTS
    Mine,           \* containers assigned to the node
    Foreign,        \* containers assigned to another node, or to none
    Unknown,        \* container IDs that are not in the store
    Contents,       \* what a report may say: readiness and a list of containers
    Width,          \* bits of w.sequence, 64 in the code
    MaxRuns,        \* bound: runs of the worker
    MaxInFlight     \* bound: requests in flight at a time

States == {"pending", "running", "exited"}

Listed == [id : Mine \cup Foreign \cup Unknown, state : States]

ASSUME NodeStatusAssumption ==
    /\ Mine \cap Foreign = {} /\ Mine \cap Unknown = {} /\ Foreign \cap Unknown = {}
    /\ Contents \subseteq [ready : BOOLEAN, containers : Seq(Listed)]
    /\ Width \in Nat \ {0}
    /\ MaxRuns \in Nat /\ MaxInFlight \in Nat


VARIABLES
    (* the store *)
    session,        \* StatusSessionID: sessions are numbered as they are made, 0 is ""
    sequence,       \* StatusSequence
    runtimeReady,   \* RuntimeReady
    state,          \* State of each container
    holder,         \* history: the run whose request made the session
    (* the write transaction of a report *)
    tx,             \* the report, NoReport if none is being handled
    pos,            \* how many of its containers it has done
    draft,          \* State of each container, as the transaction has it
    (* the network *)
    requests,       \* requests sent and neither handled nor lost
    granted,        \* session ID that came back for the run's request, 0 if none
    answer,         \* what came back for the report the worker waits for
    (* the worker process *)
    run,            \* runs started so far
    main,           \* Run: "off", "session", "running", "stopping"
    cancelled,      \* the context of Run
    runCancelled,   \* runCtx
    mySession,      \* w.sessionID
    mySequence,     \* w.sequence
    heartbeat,      \* runHeartbeat: "off", "check", "wait", "tick", "ended"
    watch,          \* runWatch: "off", "on", "ended"
    sent,           \* the report it waits for, or the last that was accepted
    acked,          \* history: it was answered with success
    saidReady       \* history: sequences of the reports that the run which holds
                    \* the session has sent, and that said it is ready

db == <<session, sequence, runtimeReady, state, holder>>
txn == <<tx, pos, draft>>
server == <<db, txn>>
net == <<requests, granted, answer>>
reports == <<sent, acked, saidReady>>
worker == <<run, main, cancelled, runCancelled, mySession, mySequence, heartbeat,
            watch, sent, acked>>
process == <<worker, saidReady>>
vars == <<server, net, process>>

Request(kind, r, s, n, isReady, l) ==
    [kind |-> kind, run |-> r, session |-> s, sequence |-> n, ready |-> isReady,
     containers |-> l]

SessionRequest(r) == Request("session", r, 0, 0, FALSE, <<>>)
NoReport == Request("none", 0, 0, 0, FALSE, <<>>)

Init ==
    /\ session = 0
    /\ sequence = 0
    /\ runtimeReady = FALSE
    /\ state = [c \in Mine \cup Foreign |-> "pending"]
    /\ holder = 0
    /\ tx = NoReport
    /\ pos = 0
    /\ draft = state
    /\ requests = {}
    /\ granted = 0
    /\ answer = "none"
    /\ run = 0
    /\ main = "off"
    /\ cancelled = FALSE
    /\ runCancelled = FALSE
    /\ mySession = 0
    /\ mySequence = 0
    /\ heartbeat = "off"
    /\ watch = "off"
    /\ sent = NoReport
    /\ acked = FALSE
    /\ saidReady = {}

----------------------------------------------------------------------------
(* The server. *)

(* The answer to a report, if the worker still waits for it. *)
Reply(m, a) == answer' = IF heartbeat = "wait" /\ m = sent THEN a ELSE answer

(* The answer to a session request, if the run still waits for it. *)
Grant(m, id) == granted' = IF main = "session" /\ m.run = run THEN id ELSE granted

\* Faulty: the readiness of the run before stays.
HandleSession_KeepsReady(m) ==
    /\ m \in requests
    /\ m.kind = "session"
    /\ tx = NoReport
    /\ session' = session + 1
    /\ sequence' = 0
    /\ holder' = m.run
    /\ saidReady' = {}
    /\ Grant(m, session + 1)
    /\ requests' = requests \ {m}
    /\ UNCHANGED <<runtimeReady, state, txn, answer, worker>>

(* createNodeSessionHandler: its Modify is a write transaction too. *)
HandleSession(m) ==
    /\ m \in requests
    /\ m.kind = "session"
    /\ tx = NoReport
    /\ session' = session + 1
    /\ sequence' = 0
    /\ runtimeReady' = FALSE
    /\ holder' = m.run
    /\ saidReady' = {}
    /\ Grant(m, session + 1)
    /\ requests' = requests \ {m}
    /\ UNCHANGED <<state, txn, answer, worker>>

(* A sequence of zero is invalid, a session that is not the current one is  *)
(* a conflict.                                                              *)
Refuse(m) ==
    /\ m.sequence = 0 \/ m.session # session
    /\ Reply(m, "refused")
    /\ requests' = requests \ {m}
    /\ UNCHANGED <<server, granted, process>>

IgnoreStale(m) ==
    /\ m.sequence # 0
    /\ m.session = session
    /\ m.sequence <= sequence
    /\ Reply(m, "ok")
    /\ requests' = requests \ {m}
    /\ UNCHANGED <<server, granted, process>>

\* Faulty: no sequence check.
Begin_AnySequence(m) ==
    /\ m.sequence # 0
    /\ m.session = session
    /\ tx' = m
    /\ draft' = state
    /\ UNCHANGED <<db, pos, net, process>>

\* Faulty: the session is not compared.
Begin_AnySession(m) ==
    /\ m.sequence > sequence
    /\ tx' = m
    /\ draft' = state
    /\ UNCHANGED <<db, pos, net, process>>

(* The report is current: the transaction goes on with its containers. *)
Begin(m) ==
    /\ m.session = session
    /\ m.sequence > sequence
    /\ tx' = m
    /\ draft' = state
    /\ UNCHANGED <<db, pos, net, process>>

(* reportNodeStatusHandler, up to its loop. *)
HandleReport(m) ==
    /\ m \in requests
    /\ m.kind = "report"
    /\ tx = NoReport
    /\ Refuse(m) \/ IgnoreStale(m) \/ Begin(m)

(* The lifecycle goes forward only: a state may follow one of lower rank. *)
Rank(s) == CASE s = "pending" -> 0 [] s = "running" -> 1 [] s = "exited" -> 2

(* What the report says of the container the loop is at. *)
Current == tx.containers[pos + 1]

InLoop == tx # NoReport /\ pos < Len(tx.containers)

(* Continues: the ID is unknown, or the state would go backward. *)
SkipContainer ==
    /\ InLoop
    /\ \/ Current.id \in Unknown
       \/ Current.id \in Mine /\ Rank(Current.state) < Rank(draft[Current.id])
    /\ pos' = pos + 1
    /\ UNCHANGED <<db, tx, draft, net, process>>

UpdateContainer ==
    /\ InLoop
    /\ Current.id \in Mine
    /\ Rank(Current.state) >= Rank(draft[Current.id])
    /\ draft' = [draft EXCEPT ![Current.id] = Current.state]
    /\ pos' = pos + 1
    /\ UNCHANGED <<db, tx, net, process>>

(* The function given to WriteTx returns. *)
EndTx ==
    /\ tx' = NoReport
    /\ pos' = 0
    /\ draft' = state'
    /\ requests' = requests \ {tx}
    /\ UNCHANGED <<granted, process>>

\* Faulty: leaves the loop without an error, so what it wrote is committed.
DenyContainer_Commits ==
    /\ InLoop
    /\ Current.id \in Foreign
    /\ state' = draft
    /\ Reply(tx, "refused")
    /\ EndTx
    /\ UNCHANGED <<session, sequence, runtimeReady, holder>>

(* A container of somebody else is forbidden: the error ends the loop and   *)
(* drops what it has done.                                                  *)
DenyContainer ==
    /\ InLoop
    /\ Current.id \in Foreign
    /\ UNCHANGED db
    /\ Reply(tx, "refused")
    /\ EndTx

Commit ==
    /\ tx # NoReport
    /\ pos = Len(tx.containers)
    /\ state' = draft
    /\ runtimeReady' = tx.ready
    /\ sequence' = tx.sequence
    /\ Reply(tx, "ok")
    /\ EndTx
    /\ UNCHANGED <<session, holder>>

(* A call of the store or its commit fails, or the server ends. *)
FailTx ==
    /\ tx # NoReport
    /\ UNCHANGED <<db, answer>>
    /\ EndTx

ReportTx == SkipContainer \/ UpdateContainer \/ DenyContainer \/ Commit \/ FailTx

(* A request is lost, or the server fails before it has begun with it. *)
LoseRequest(m) ==
    /\ m \in requests
    /\ m # tx
    /\ requests' = requests \ {m}
    /\ UNCHANGED <<server, granted, answer, process>>

----------------------------------------------------------------------------
(* Run. *)

Exit ==
    /\ main' = "off"
    /\ cancelled' = FALSE
    /\ runCancelled' = FALSE
    /\ mySession' = 0
    /\ mySequence' = 0
    /\ heartbeat' = "off"
    /\ watch' = "off"
    /\ sent' = NoReport
    /\ acked' = FALSE
    /\ granted' = 0
    /\ answer' = "none"
    /\ UNCHANGED <<server, run, saidReady>>

(* A run of the worker: worker.lock keeps two from overlapping. *)
StartRun ==
    /\ main = "off"
    /\ run < MaxRuns
    /\ Cardinality(requests) < MaxInFlight
    /\ run' = run + 1
    /\ main' = "session"
    /\ requests' = requests \cup {SessionRequest(run + 1)}
    /\ UNCHANGED <<server, granted, answer, cancelled, runCancelled, mySession,
                   mySequence, heartbeat, watch, reports>>

SessionCreated ==
    /\ main = "session"
    /\ granted # 0
    /\ ~cancelled
    /\ main' = "running"
    /\ mySession' = granted
    /\ mySequence' = 1
    /\ heartbeat' = "check"
    /\ watch' = "on"
    /\ granted' = 0
    /\ UNCHANGED <<server, requests, answer, run, cancelled, runCancelled, reports>>

(* The request timed out or failed, or the context is done: Run returns. *)
SessionFails ==
    /\ main = "session"
    /\ Exit
    /\ UNCHANGED requests

Cancel ==
    /\ main \in {"session", "running", "stopping"}
    /\ ~cancelled
    /\ cancelled' = TRUE
    /\ UNCHANGED <<server, net, run, main, runCancelled, mySession, mySequence,
                   heartbeat, watch, reports>>

\* Faulty: waits for both goroutines without telling the other to stop.
RunStops_NoCancel ==
    /\ main = "running"
    /\ heartbeat = "ended" \/ watch = "ended"
    /\ main' = "stopping"
    /\ UNCHANGED <<server, net, run, cancelled, runCancelled, mySession, mySequence,
                   heartbeat, watch, reports>>

(* firstErr := <-done; cancel() *)
RunStops ==
    /\ main = "running"
    /\ heartbeat = "ended" \/ watch = "ended"
    /\ main' = "stopping"
    /\ runCancelled' = TRUE
    /\ UNCHANGED <<server, net, run, cancelled, mySession, mySequence, heartbeat,
                   watch, reports>>

(* secondErr := <-done; return *)
RunReturns ==
    /\ main = "stopping"
    /\ heartbeat = "ended"
    /\ watch = "ended"
    /\ Exit
    /\ UNCHANGED requests

(* The process is killed. *)
Kill ==
    /\ main # "off"
    /\ Exit
    /\ UNCHANGED requests

----------------------------------------------------------------------------
(* runHeartbeat and the end of runWatch. *)

Done == cancelled \/ runCancelled

Beat(next) ==
    /\ heartbeat' = next
    /\ UNCHANGED <<run, main, cancelled, runCancelled, mySession, watch>>

(* The sequence is used up, or the context is done. *)
BeatEnds ==
    /\ \/ heartbeat = "check" /\ mySequence = 0
       \/ heartbeat \in {"check", "wait", "tick"} /\ Done
    /\ Beat("ended")
    /\ answer' = "none"
    /\ sent' = IF acked THEN sent ELSE NoReport
    /\ UNCHANGED <<server, requests, granted, mySequence, acked, saidReady>>

SendReport ==
    /\ heartbeat = "check"
    /\ mySequence # 0
    /\ ~Done
    /\ Cardinality(requests) < MaxInFlight
    /\ \E c \in Contents :
          sent' = Request("report", run, mySession, mySequence, c.ready, c.containers)
    /\ requests' = requests \cup {sent'}
    /\ saidReady' = IF sent'.ready /\ run = holder
                    THEN saidReady \cup {mySequence} ELSE saidReady
    /\ acked' = FALSE
    /\ Beat("wait")
    /\ UNCHANGED <<server, granted, answer, mySequence>>

NextSequence == (mySequence + 1) % 2^Width

\* Faulty: a report that failed leaves the sequence where it was.
ReportTimesOut_SameSequence ==
    /\ heartbeat = "wait"
    /\ ~Done
    /\ answer' = "none"
    /\ sent' = NoReport
    /\ Beat("tick")
    /\ UNCHANGED <<server, requests, granted, mySequence, acked, saidReady>>

(* A transient failure: no answer in time, or one that does not end the     *)
(* run.                                                                     *)
ReportTimesOut ==
    /\ heartbeat = "wait"
    /\ ~Done
    /\ mySequence' = NextSequence
    /\ answer' = "none"
    /\ sent' = NoReport
    /\ Beat("tick")
    /\ UNCHANGED <<server, requests, granted, acked, saidReady>>

ReportRefused ==
    /\ heartbeat = "wait"
    /\ answer = "refused"
    /\ answer' = "none"
    /\ sent' = NoReport
    /\ Beat("ended")
    /\ UNCHANGED <<server, requests, granted, mySequence, acked, saidReady>>

ReportAccepted ==
    /\ heartbeat = "wait"
    /\ ~Done
    /\ answer = "ok"
    /\ acked' = TRUE
    /\ mySequence' = NextSequence
    /\ answer' = "none"
    /\ Beat("tick")
    /\ UNCHANGED <<server, requests, granted, sent, saidReady>>

NextTick ==
    /\ heartbeat = "tick"
    /\ ~Done
    /\ Beat("check")
    /\ UNCHANGED <<server, net, mySequence, reports>>

HeartbeatStep ==
    BeatEnds \/ SendReport \/ ReportTimesOut \/ ReportRefused \/ ReportAccepted \/ NextTick

(* The context is done, or the watch is refused for good. *)
WatchEnds ==
    /\ watch = "on"
    /\ watch' = "ended"
    /\ UNCHANGED <<server, net, run, main, cancelled, runCancelled, mySession,
                   mySequence, heartbeat, reports>>

----------------------------------------------------------------------------
RunStep == SessionCreated \/ SessionFails \/ RunStops \/ RunReturns

Next ==
    \/ \E m \in requests : HandleSession(m) \/ HandleReport(m) \/ LoseRequest(m)
    \/ ReportTx
    \/ StartRun \/ RunStep \/ Cancel \/ Kill
    \/ HeartbeatStep \/ WatchEnds

(* The goroutines of the worker run; every wait of theirs has a timeout.    *)
(* The watch only ends because it must when its context is done.            *)
Fairness ==
    /\ WF_vars(RunStep)
    /\ WF_vars(HeartbeatStep)
    /\ WF_vars(Done /\ WatchEnds)

Safety == Init /\ [][Next]_vars

Spec == Safety /\ Fairness

----------------------------------------------------------------------------
(* Properties *)

TypeOK ==
    /\ session \in Nat /\ sequence \in 0..(2^Width - 1) /\ runtimeReady \in BOOLEAN
    /\ state \in [Mine \cup Foreign -> States]
    /\ holder \in 0..MaxRuns
    /\ pos \in Nat
    /\ draft \in [Mine \cup Foreign -> States]
    /\ tx \in requests \cup {NoReport}
    /\ \A m \in requests : /\ m.kind \in {"session", "report"}
                           /\ m.run \in 1..MaxRuns
                           /\ m.session \in Nat
                           /\ m.sequence \in 0..(2^Width - 1)
    /\ granted \in Nat
    /\ answer \in {"none", "ok", "refused"}
    /\ run \in 0..MaxRuns
    /\ main \in {"off", "session", "running", "stopping"}
    /\ cancelled \in BOOLEAN /\ runCancelled \in BOOLEAN
    /\ mySession \in Nat
    /\ mySequence \in 0..(2^Width - 1)
    /\ heartbeat \in {"off", "check", "wait", "tick", "ended"}
    /\ watch \in {"off", "on", "ended"}
    /\ acked \in BOOLEAN
    /\ saidReady \subseteq 1..(2^Width - 1)

(* A report the worker was told is accepted is in the store, unless a newer *)
(* report or another session has replaced it: an earlier report that        *)
(* arrived meanwhile cannot have taken its place.                           *)
AckedIsStored ==
    acked /\ session = mySession =>
        \/ sequence > sent.sequence
        \/ /\ sequence = sent.sequence
           /\ runtimeReady = sent.ready
           /\ \A i \in DOMAIN sent.containers :
                 LET c == sent.containers[i] IN
                 c.id \in Mine => Rank(state[c.id]) >= Rank(c.state)

(* A node counts as ready exactly if the run that holds its session has     *)
(* said so, in the report whose number is stored: not on the word of a run  *)
(* that has lost the session or never had it, nor on an older or a later    *)
(* report of its own, nor on that of the session before (nodes.go:320).     *)
ReadyIsReported == runtimeReady <=> sequence \in saidReady

(* Within a session the store only moves to newer reports, and two reports  *)
(* with one sequence number never both count: delayed ones change nothing   *)
(* (nodes.go:411-415).                                                      *)
OlderNeverOverwrites ==
    [][session' = session =>
          \/ sequence' > sequence
          \/ sequence' = sequence /\ UNCHANGED <<runtimeReady, state>>]_vars

(* A report of one run never changes what the session of another run has    *)
(* stored: the session fences the runs before it.                           *)
OldRunsAreFenced ==
    [][\A m \in requests \ requests' :
          m.kind = "report" /\ m.run # holder => UNCHANGED db]_vars

(* The states a report gives a container, in the first n places of its list. *)
Given(m, n, c) ==
    {m.containers[i].state : i \in {j \in 1..n : m.containers[j].id = c}}

Furthest(s, S) == s \in S /\ \A t \in S : Rank(s) >= Rank(t)

(* A report counts as a whole or not at all (nodes.go:402-463).  What a     *)
(* step changes within a session is what one report says: its number and    *)
(* readiness, and for every container the furthest of the states it had and *)
(* those the report gives it, in whatever order and however often.  That    *)
(* report lists no container of somebody else, not even as its last.        *)
ReportIsWhole ==
    [][session' = session =>
          \/ UNCHANGED <<sequence, runtimeReady, state>>
          \/ \E m \in requests \ requests' :
                LET all == Len(m.containers) IN
                /\ m.kind = "report"
                /\ sequence' = m.sequence /\ runtimeReady' = m.ready
                /\ \A c \in Foreign : Given(m, all, c) = {}
                /\ \A c \in Mine \cup Foreign :
                      Furthest(state'[c], {state[c]} \cup Given(m, all, c))]_vars

(* When one goroutine ends or the context is cancelled, both end and Run    *)
(* returns: no worker lives on with only its heartbeat or only its watch.   *)
RunEnds ==
    (cancelled \/ heartbeat = "ended" \/ watch = "ended") ~> main = "off"

(* "A new worker run requests a new session!" (nodes.go:317): the session   *)
(* is handed to a run newer than the one that holds it.                     *)
NewSessionIsForNewRun ==
    [][session' # session => holder' > holder]_vars
============================================================================
