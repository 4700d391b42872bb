-------------------------- MODULE NodeStatusProofs --------------------------
(***************************************************************************)
(* Theorems about NodeStatus, for any containers, contents of a report,    *)
(* width of the sequence, number of runs and of requests in flight.        *)
(*                                                                         *)
(* A session belongs to one run, and in it a sequence number to one        *)
(* report.  The first keeps the reports of other runs out (Fenced), the    *)
(* second makes the comparison of two numbers as good as that of the two   *)
(* reports (Numbered).  A run asks for one session only (OneSession): what *)
(* it says while it holds a session is said in that session (Said).        *)
(***************************************************************************)
EXTENDS NodeStatus, FiniteSetTheorems, TLAPS

Reports == {m \in requests : m.kind = "report"}

(* What is on its way was sent by this run or one before it. *)
RequestsOK ==
    \A m \in requests :
        /\ m.run <= run
        /\ m.kind = "session" => m = SessionRequest(m.run)
        /\ m.kind = "report" =>
              /\ m.containers \in Seq(Listed) /\ m.ready \in BOOLEAN
              /\ m.sequence # 0 /\ m.session \in 1..session

(* The report whose transaction runs is still current, since no other write *)
(* transaction can have come between; the draft is the store with the       *)
(* containers up to here, none of which was somebody else's.                *)
TxOK ==
    /\ tx = NoReport => pos = 0
    /\ tx # NoReport =>
          /\ tx \in Reports /\ tx.session = session /\ tx.sequence > sequence
          /\ pos <= Len(tx.containers)
          /\ \A i \in 1..pos : tx.containers[i].id \notin Foreign
          /\ \A c \in Mine \cup Foreign :
                /\ Rank(draft[c]) >= Rank(state[c])
                /\ \A i \in 1..pos : tx.containers[i].id = c =>
                      Rank(draft[c]) >= Rank(tx.containers[i].state)
                /\ \/ draft[c] = state[c]
                   \/ \E i \in 1..pos : /\ tx.containers[i].id = c
                                        /\ tx.containers[i].state = draft[c]

(* Where the worker is and what it remembers. *)
ProcessOK ==
    /\ main = "off" => granted = 0
    /\ main # "off" => run # 0
    /\ main \in {"off", "session"} =>
          mySession = 0 /\ heartbeat = "off" /\ ~acked /\ answer = "none"
    /\ main \in {"running", "stopping"} =>
          granted = 0 /\ mySession # 0 /\ heartbeat # "off"
    /\ answer # "none" => heartbeat = "wait"
    /\ sent.sequence \in Nat
    /\ heartbeat = "wait" => /\ ~acked
                             /\ sent.kind = "report" /\ sent.containers \in Seq(Listed)
                             /\ sent.session = mySession
                             /\ sent.sequence = mySequence /\ mySequence # 0

(* The session in the store belongs to the run that holds it: no request of *)
(* another run carries it, and no other run has been told of it.            *)
Fenced ==
    /\ granted <= session /\ mySession <= session
    /\ \A m \in Reports : m.session = session => m.run = holder
    /\ session # 0 /\ session \in {granted, mySession} => run = holder

(* The session that is granted has not been used. *)
GrantIsFresh ==
    granted # 0 => /\ \A m \in Reports : m.session # granted
                   /\ granted = session => sequence = 0

(* A number of a session goes to one report.  What is stored is no longer   *)
(* on its way.                                                              *)
Numbered ==
    /\ \A m, n \in Reports : m.session = n.session /\ m.sequence = n.sequence => m = n
    /\ \A m \in Reports : m.session = session => m.sequence # sequence

(* The worker has used no number beyond its own, and the next one it sends  *)
(* with not at all.                                                         *)
NextIsFresh ==
    mySession # 0 /\ mySequence # 0 =>
        /\ \A m \in Reports : m.session = mySession => m.sequence <= mySequence
        /\ session = mySession => sequence <= mySequence
        /\ heartbeat \in {"check", "tick"} =>
              /\ \A m \in Reports : m.session = mySession => m.sequence # mySequence
              /\ session = mySession => sequence # mySequence

(* A run asks for one session, and only knows of that one. *)
OneSession ==
    /\ holder <= run
    /\ \A m \in requests : m.kind = "session" =>
          /\ m.run # holder
          /\ m.run = run => granted = 0 /\ mySession = 0
    /\ holder = run => granted \in {0, session} /\ mySession \in {0, session}

(* What the holder has said of its readiness is what its reports say, and   *)
(* it has said nothing yet with the number it sends next.                   *)
Said ==
    /\ \A m \in Reports : m.session = session => (m.ready <=> m.sequence \in saidReady)
    /\ holder = run /\ main = "session" => saidReady = {}
    /\ holder = run /\ mySession # 0 /\ mySequence # 0 =>
          \A n \in saidReady :
              /\ n <= mySequence
              /\ heartbeat \in {"check", "tick"} => n # mySequence

(* The store has the last report, or a later one. *)
HasSent ==
    \/ sequence > sent.sequence
    \/ /\ sequence = sent.sequence
       /\ runtimeReady = sent.ready
       /\ \A i \in DOMAIN sent.containers :
             LET c == sent.containers[i] IN
             c.id \in Mine => Rank(state[c.id]) >= Rank(c.state)

(* AckedIsStored, from the moment the server answers. *)
AnsweredIsStored == (acked \/ answer = "ok") /\ session = mySession => HasSent

IInv ==
    /\ TypeOK /\ RequestsOK /\ ProcessOK /\ TxOK
    /\ Fenced /\ GrantIsFresh /\ Numbered /\ NextIsFresh
    /\ OneSession /\ Said
    /\ AnsweredIsStored /\ ReadyIsReported
----------------------------------------------------------------------------
(* The power is the number of subsets of an interval that is not empty. *)
LEMMA WidthHasTwoNumbers == 2^Width \in Nat /\ 2^Width >= 2
<1> DEFINE S == 1..Width
<1>1. IsFiniteSet(S) /\ Cardinality(S) = Width /\ 1 \in S
  BY NodeStatusAssumption, FS_Interval
<1>2. IsFiniteSet(SUBSET S) /\ Cardinality(SUBSET S) = 2^Width
  BY <1>1, FS_SUBSET
<1> HIDE DEF S
<1>3. /\ Cardinality(SUBSET S) \in Nat
      /\ Cardinality(SUBSET S) # 0
      /\ Cardinality(SUBSET S) # 1
  <2>1. {} \in SUBSET S /\ S \in SUBSET S /\ S # {}
    BY <1>1
  <2>2. \A x : SUBSET S # {x}
    <3> DEFINE T == SUBSET S
    <3>1. {} \in T /\ S \in T /\ S # {}
      BY <2>1
    <3> HIDE DEF T
    <3>2. \A x : T # {x}
      BY <3>1
    <3>3. QED
      BY <3>2 DEF T
  <2>3. Cardinality(SUBSET S) \in Nat
    BY <1>2, FS_CardinalityType
  <2>4. Cardinality(SUBSET S) # 0
    BY <1>2, <2>1, FS_EmptySet
  <2>5. Cardinality(SUBSET S) # 1
    BY <1>2, <2>2, FS_Singleton
  <2>6. QED
    BY <2>3, <2>4, <2>5
<1>4. QED
  BY <1>2, <1>3

LEMMA FirstNumbers == 0 \in 0..(2^Width - 1) /\ 1 \in 0..(2^Width - 1)
BY WidthHasTwoNumbers

(* w.sequence runs over, and the worker stops at 0. *)
LEMMA NextSequenceCounts ==
    ASSUME mySequence \in 0..(2^Width - 1)
    PROVE  /\ NextSequence \in 0..(2^Width - 1)
           /\ NextSequence = 0 \/ NextSequence = mySequence + 1
<1> DEFINE W == 2^Width
           n == mySequence + 1
<1>1. W \in Nat /\ W > 0 /\ n \in Nat /\ n <= W
  BY WidthHasTwoNumbers
<1>2. NextSequence = n % W
  BY DEF NextSequence
<1> HIDE DEF W, n
<1>3. n % W \in 0..(W - 1) /\ (n = W => n % W = 0) /\ (n < W => n % W = n)
  BY <1>1
<1>4. n = W \/ n < W
  BY <1>1
<1>5. QED
  BY <1>2, <1>3, <1>4 DEF W, n

LEMMA Ranks == \A s \in States : Rank(s) \in Nat
BY DEF States, Rank

(* A pass of the loop: the container it is at takes the state listed for it *)
(* or is already further.                                                   *)
LEMMA LoopStep ==
    ASSUME IInv, SkipContainer \/ UpdateContainer
    PROVE  TxOK'
<1>1. /\ tx # NoReport /\ tx \in Reports /\ tx.session = session /\ tx.sequence > sequence
      /\ pos \in Nat /\ pos < Len(tx.containers)
      /\ state \in [Mine \cup Foreign -> States] /\ draft \in [Mine \cup Foreign -> States]
      /\ UNCHANGED <<tx, session, sequence, requests, state>> /\ pos' = pos + 1
  BY DEF IInv, TypeOK, TxOK, SkipContainer, UpdateContainer, InLoop, db, net
<1>2. PICK l \in Seq(Listed) : l = tx.containers
  BY <1>1 DEF IInv, RequestsOK, Reports
<1>3. PICK n \in Nat : n = pos
  BY <1>1
<1>4. PICK x \in Listed : x = l[n + 1]
  BY <1>1, <1>2, <1>3
<1>5. /\ x.id \notin Foreign /\ x.state \in States
      /\ \/ draft' = draft /\ x.id \in Unknown
         \/ draft' = draft /\ x.id \in Mine /\ Rank(x.state) < Rank(draft[x.id])
         \/ /\ draft' = [draft EXCEPT ![x.id] = x.state]
            /\ x.id \in Mine /\ Rank(x.state) >= Rank(draft[x.id])
  BY <1>2, <1>3, <1>4, NodeStatusAssumption DEF SkipContainer, UpdateContainer, Current, Listed
<1>6. \A i \in 1..(n + 1) : i \in 1..n \/ i = n + 1
  BY <1>3
<1>7. \A i \in 1..(n + 1) : l[i].id \notin Foreign
  BY <1>2, <1>3, <1>4, <1>5, <1>6, <1>1 DEF IInv, TxOK
<1>8. ASSUME NEW c \in Mine \cup Foreign
      PROVE  /\ Rank(draft'[c]) >= Rank(state[c])
             /\ \A i \in 1..(n + 1) : l[i].id = c => Rank(draft'[c]) >= Rank(l[i].state)
             /\ \/ draft'[c] = state[c]
                \/ \E i \in 1..(n + 1) : l[i].id = c /\ l[i].state = draft'[c]
  <2>1. /\ Rank(draft[c]) >= Rank(state[c])
        /\ \A i \in 1..n : l[i].id = c => Rank(draft[c]) >= Rank(l[i].state)
        /\ \/ draft[c] = state[c]
           \/ \E i \in 1..n : l[i].id = c /\ l[i].state = draft[c]
    BY <1>1, <1>2, <1>3 DEF IInv, TxOK
  <2>2. PICK a \in States, b \in States, e \in States :
            a = state[c] /\ b = draft[c] /\ e = draft'[c]
    BY <1>1, <1>5
  <2>3. \/ b = e /\ (x.id = c => Rank(b) >= Rank(x.state))
        \/ e = x.state /\ x.id = c /\ Rank(e) >= Rank(b)
    <3>1. c \notin Unknown /\ Rank(b) \in Nat /\ Rank(x.state) \in Nat
      BY <1>5, NodeStatusAssumption, Ranks
    <3>2. CASE draft' = draft /\ (x.id = c => Rank(x.state) < Rank(b))
      BY <2>2, <3>1, <3>2
    <3>3. CASE draft' = [draft EXCEPT ![x.id] = x.state] /\ (x.id = c => Rank(x.state) >= Rank(b))
      <4>1. e = IF x.id = c THEN x.state ELSE b
        BY <1>1, <2>2, <3>3
      <4>2. QED
        BY <3>3, <4>1
    <3>4. QED
      BY <1>5, <2>2, <3>1, <3>2, <3>3
  <2>4. /\ Rank(a) \in Nat /\ Rank(b) \in Nat /\ Rank(e) \in Nat /\ Rank(x.state) \in Nat
        /\ \A i \in 1..n : Rank(l[i].state) \in Nat
    <3>1. \A i \in 1..n : l[i] \in Listed
      BY <1>1, <1>2, <1>3
    <3>2. QED
      BY <1>5, <3>1, Ranks DEF Listed
  <2>5. /\ Rank(e) >= Rank(b) /\ Rank(e) >= Rank(a)
        /\ x.id = c => Rank(e) >= Rank(x.state)
    BY <2>1, <2>2, <2>3, <2>4
  <2>6. \A i \in 1..n : l[i].id = c => Rank(e) >= Rank(l[i].state)
    BY <2>1, <2>2, <2>4, <2>5
  <2>7. e = a \/ \E i \in 1..(n + 1) : l[i].id = c /\ l[i].state = e
    <3>1. n + 1 \in 1..(n + 1) /\ \A i \in 1..n : i \in 1..(n + 1)
      BY <1>3
    <3>2. QED
      BY <1>4, <2>1, <2>2, <2>3, <3>1
  <2>8. QED
    BY <1>4, <1>6, <2>2, <2>5, <2>6, <2>7
<1>9. tx'.containers = l /\ pos' = n + 1 /\ n + 1 <= Len(l)
  BY <1>1, <1>2, <1>3
<1>10. QED
  BY <1>1, <1>7, <1>8, <1>9 DEF TxOK, Reports

----------------------------------------------------------------------------
(* Types. *)

LEMMA EndTxTypeOK ==
    ASSUME TypeOK, tx # NoReport, EndTx, session' = session, holder' = holder,
           sequence' \in 0..(2^Width - 1), runtimeReady' \in BOOLEAN,
           state' \in [Mine \cup Foreign -> States], answer' \in {"none", "ok", "refused"}
    PROVE  TypeOK'
BY DEF EndTx, TypeOK, process, worker

LEMMA ServerTypeOK ==
    ASSUME IInv, NEW m \in requests, HandleSession(m) \/ HandleReport(m) \/ LoseRequest(m)
    PROVE  TypeOK'
<1>1. TypeOK /\ NoReport \notin requests
  BY DEF IInv, TypeOK, NoReport, Request
<1>2. CASE HandleSession(m)
  <2>1. /\ session' \in Nat /\ granted' \in Nat /\ holder' \in 0..MaxRuns
        /\ sequence' \in 0..(2^Width - 1) /\ saidReady' \subseteq 1..(2^Width - 1)
    BY <1>1, <1>2, FirstNumbers, NodeStatusAssumption DEF HandleSession, Grant, TypeOK
  <2>2. QED
    BY <1>1, <1>2, <2>1 DEF HandleSession, TypeOK, txn, worker
<1>3. CASE HandleReport(m)
  <2>1. CASE Refuse(m) \/ IgnoreStale(m)
    <3>1. /\ UNCHANGED <<server, granted, process>> /\ requests' \subseteq requests
          /\ tx = NoReport /\ answer' \in {answer, "ok", "refused"}
      BY <1>3, <2>1 DEF HandleReport, Refuse, IgnoreStale, Reply
    <3>2. QED
      BY <1>1, <3>1 DEF TypeOK, server, db, txn, process, worker
  <2>2. CASE Begin(m)
    BY <1>1, <1>3, <2>2 DEF HandleReport, Begin, TypeOK, db, net, process, worker
  <2>3. QED
    BY <1>3, <2>1, <2>2 DEF HandleReport
<1>4. CASE LoseRequest(m)
  BY <1>1, <1>4 DEF LoseRequest, TypeOK, server, db, txn, process, worker
<1>5. QED
  BY <1>2, <1>3, <1>4

LEMMA ReportTxTypeOK ==
    ASSUME IInv, ReportTx
    PROVE  TypeOK'
<1>1. TypeOK /\ TxOK /\ RequestsOK
  BY DEF IInv
<1>2. CASE SkipContainer
  BY <1>1, <1>2 DEF SkipContainer, TypeOK, db, net, process, worker
<1>3. CASE UpdateContainer
  <2>1. Current.state \in States
    <3>1. tx.containers \in Seq(Listed) /\ pos + 1 \in 1..Len(tx.containers)
      BY <1>1, <1>3 DEF UpdateContainer, InLoop, TypeOK, TxOK, RequestsOK, Reports
    <3>2. Current \in Listed
      BY <3>1 DEF Current
    <3>3. QED
      BY <3>2 DEF Listed
  <2>2. PICK x : x = Current
    OBVIOUS
  <2>3. x.state \in States /\ draft' = [draft EXCEPT ![x.id] = x.state]
    BY <1>3, <2>1, <2>2 DEF UpdateContainer
  <2>4. draft' \in [Mine \cup Foreign -> States] /\ pos' \in Nat
    BY <1>1, <1>3, <2>3 DEF UpdateContainer, TypeOK
  <2>5. QED
    BY <1>1, <1>3, <2>4 DEF UpdateContainer, TypeOK, db, net, process, worker
<1>4. CASE DenyContainer
  BY <1>1, <1>4, EndTxTypeOK DEF DenyContainer, InLoop, Reply, TypeOK, db
<1>5. CASE Commit
  <2>1. tx.sequence \in 0..(2^Width - 1) /\ tx.ready \in BOOLEAN
    BY <1>1, <1>5 DEF Commit, TypeOK, TxOK, RequestsOK, Reports
  <2>2. QED
    BY <1>1, <1>5, <2>1, EndTxTypeOK DEF Commit, Reply, TypeOK
<1>6. CASE FailTx
  BY <1>1, <1>6, EndTxTypeOK DEF FailTx, TypeOK, db
<1>7. QED
  BY <1>2, <1>3, <1>4, <1>5, <1>6 DEF ReportTx

LEMMA RunTypeOK ==
    ASSUME TypeOK, StartRun \/ RunStep \/ Cancel \/ Kill
    PROVE  TypeOK'
<1> USE DEF TypeOK, server, db, txn, net, process, worker, reports
<1>1. CASE StartRun
  BY <1>1, FirstNumbers, NodeStatusAssumption DEF StartRun, SessionRequest, Request
<1>2. CASE SessionCreated
  BY <1>2, FirstNumbers DEF SessionCreated
<1>3. CASE Exit /\ UNCHANGED requests
  BY <1>3, FirstNumbers DEF Exit
<1>4. CASE Cancel
  BY <1>4 DEF Cancel
<1>5. CASE RunStops
  BY <1>5 DEF RunStops
<1>6. QED
  BY <1>1, <1>2, <1>3, <1>4, <1>5 DEF RunStep, SessionFails, RunReturns, Kill

LEMMA GoroutineTypeOK ==
    ASSUME TypeOK, ProcessOK, HeartbeatStep \/ WatchEnds
    PROVE  TypeOK'
<1> USE DEF TypeOK, server, db, txn, net, process, worker, reports, Beat
<1>1. CASE BeatEnds
  BY <1>1 DEF BeatEnds
<1>2. CASE SendReport
  <2>1. \A m \in requests' :
            /\ m.kind \in {"session", "report"} /\ m.run \in 1..MaxRuns
            /\ m.session \in Nat /\ m.sequence \in 0..(2^Width - 1)
    BY <1>2 DEF SendReport, Request, ProcessOK
  <2>2. tx' \in requests' \cup {NoReport} /\ saidReady' \subseteq 1..(2^Width - 1)
    BY <1>2, WidthHasTwoNumbers DEF SendReport
  <2>3. QED
    BY <1>2, <2>1, <2>2 DEF SendReport
<1>3. CASE ReportTimesOut
  BY <1>3, NextSequenceCounts DEF ReportTimesOut
<1>4. CASE ReportRefused
  BY <1>4 DEF ReportRefused
<1>5. CASE ReportAccepted
  BY <1>5, NextSequenceCounts DEF ReportAccepted
<1>6. CASE NextTick
  BY <1>6 DEF NextTick
<1>7. CASE WatchEnds
  BY <1>7 DEF WatchEnds
<1>8. QED
  BY <1>1, <1>2, <1>3, <1>4, <1>5, <1>6, <1>7 DEF HeartbeatStep

----------------------------------------------------------------------------
(* Steps that change no session, number or request of the worker, but may   *)
(* end what it is about.                                                    *)
LEMMA QuietStepKeeps ==
    ASSUME IInv, TypeOK', ProcessOK',
           UNCHANGED <<server, requests, run, saidReady>>,
           granted' \in {0, granted}, main' = "session" => main = "session",
           \/ mySession' = 0
           \/ /\ UNCHANGED <<mySession, mySequence>>
              /\ heartbeat' = heartbeat \/ heartbeat' = "ended" \/ heartbeat = "tick",
           acked' \/ answer' = "ok" =>
               (acked \/ answer = "ok") /\ UNCHANGED <<mySession, sent>>
    PROVE  IInv'
<1> USE DEF IInv, TypeOK, server, db, txn, Reports
<1>1. RequestsOK' /\ TxOK'
  BY DEF RequestsOK, TxOK
<1>2. Fenced' /\ Numbered' /\ OneSession'
  BY DEF Fenced, Numbered, OneSession
<1>3. GrantIsFresh'
  BY DEF GrantIsFresh
<1>4. NextIsFresh' /\ Said'
  BY DEF NextIsFresh, Said
<1>5. AnsweredIsStored' /\ ReadyIsReported'
  BY DEF AnsweredIsStored, HasSent, ReadyIsReported
<1>6. QED
  BY <1>1, <1>2, <1>3, <1>4, <1>5

LEMMA ExitKeeps ==
    ASSUME IInv, TypeOK', Exit, UNCHANGED requests
    PROVE  IInv'
<1>1. ProcessOK'
  BY DEF Exit, ProcessOK, NoReport, Request
<1>2. QED
  BY <1>1, QuietStepKeeps DEF Exit

LEMMA StartRunKeeps ==
    ASSUME IInv, TypeOK', StartRun
    PROVE  IInv'
<1> USE DEF IInv, TypeOK, StartRun, Reports, server, db, txn, reports
<1>1. /\ Reports' = Reports /\ run' = run + 1
      /\ requests' = requests \cup {SessionRequest(run')}
      /\ SessionRequest(run').run = run' /\ SessionRequest(run').kind = "session"
  BY DEF SessionRequest, Request
<1>2. RequestsOK' /\ ProcessOK'
  BY <1>1 DEF RequestsOK, ProcessOK
<1>3. TxOK'
  BY <1>1 DEF TxOK
<1>4. Fenced' /\ GrantIsFresh' /\ Numbered' /\ NextIsFresh'
  BY <1>1 DEF ProcessOK, Fenced, GrantIsFresh, Numbered, NextIsFresh
<1>5. OneSession' /\ Said'
  BY <1>1 DEF ProcessOK, RequestsOK, OneSession, Said
<1>6. AnsweredIsStored' /\ ReadyIsReported'
  BY DEF ProcessOK, AnsweredIsStored, HasSent, ReadyIsReported
<1>7. QED
  BY <1>2, <1>3, <1>4, <1>5, <1>6

LEMMA SessionCreatedKeeps ==
    ASSUME IInv, TypeOK', SessionCreated
    PROVE  IInv'
<1> USE DEF IInv, TypeOK, SessionCreated, Reports, server, db, txn, reports
<1>1. RequestsOK' /\ ProcessOK' /\ TxOK'
  BY DEF RequestsOK, ProcessOK, TxOK
<1>2. Fenced' /\ GrantIsFresh' /\ Numbered'
  BY DEF Fenced, GrantIsFresh, Numbered
<1>3. NextIsFresh'
  BY DEF GrantIsFresh, NextIsFresh
<1>4. OneSession' /\ Said'
  BY DEF OneSession, Said
<1>5. AnsweredIsStored' /\ ReadyIsReported'
  BY DEF ProcessOK, AnsweredIsStored, HasSent, ReadyIsReported
<1>6. QED
  BY <1>1, <1>2, <1>3, <1>4, <1>5

(* The number of a new report is one that nobody has seen. *)
LEMMA SendReportKeeps ==
    ASSUME IInv, TypeOK', SendReport
    PROVE  IInv'
<1> USE DEF IInv, TypeOK, SendReport, Beat, Reports, server, db, txn, reports
<1>1. /\ requests' = requests \cup {sent'}
      /\ sent'.kind = "report" /\ sent'.run = run /\ sent'.session = mySession
      /\ sent'.sequence = mySequence /\ mySequence # 0
      /\ sent'.ready \in BOOLEAN /\ sent'.containers \in Seq(Listed)
  BY NodeStatusAssumption DEF Request
<1>2. mySession # 0 /\ mySession \in 1..session /\ answer = "none"
  BY DEF ProcessOK, Fenced
<1>3. RequestsOK' /\ ProcessOK' /\ TxOK'
  BY <1>1, <1>2 DEF RequestsOK, ProcessOK, TxOK
<1>4. Fenced' /\ GrantIsFresh' /\ OneSession'
  BY <1>1, <1>2 DEF ProcessOK, Fenced, GrantIsFresh, OneSession
<1>5. \A m \in Reports : m.session = mySession => m.sequence < mySequence
  BY <1>1, <1>2 DEF NextIsFresh
<1>6. Numbered' /\ NextIsFresh'
  BY <1>1, <1>2, <1>5 DEF Numbered, NextIsFresh
<1>7. Said' /\ ReadyIsReported'
  <2>1. CASE run = holder
    <3>1. mySession = session /\ mySequence \notin saidReady /\ sequence # mySequence
      BY <1>1, <1>2, <2>1 DEF OneSession, Said, NextIsFresh
    <3>2. \A n \in saidReady : n <= mySequence
      BY <1>1, <1>2, <2>1 DEF Said
    <3>3. saidReady' = IF sent'.ready THEN saidReady \cup {mySequence} ELSE saidReady
      BY <2>1
    <3>4. ReadyIsReported'
      BY <3>1, <3>3 DEF ReadyIsReported
    <3>5. \A m \in Reports' : m.session = session => (m.ready <=> m.sequence \in saidReady')
      BY <1>1, <1>5, <3>1, <3>3 DEF Said
    <3>6. QED
      BY <1>1, <1>2, <3>2, <3>3, <3>4, <3>5 DEF Said, ProcessOK
  <2>2. CASE run # holder
    <3>1. mySession # session /\ UNCHANGED saidReady
      BY <1>2, <2>2 DEF Fenced
    <3>2. QED
      BY <1>1, <2>2, <3>1 DEF Said, ReadyIsReported
  <2>3. QED
    BY <2>1, <2>2
<1>8. AnsweredIsStored'
  BY <1>2 DEF AnsweredIsStored
<1>9. QED
  BY <1>3, <1>4, <1>6, <1>7, <1>8

(* After a report the worker goes on to a number above all of its own.      *)
LEMMA ReportDoneKeeps ==
    ASSUME IInv, TypeOK', ReportTimesOut \/ ReportAccepted
    PROVE  IInv'
<1> USE DEF IInv, TypeOK, ReportTimesOut, ReportAccepted, Beat, Reports, server, db, txn, reports
<1>1. RequestsOK' /\ ProcessOK'
  BY DEF RequestsOK, ProcessOK, NoReport, Request
<1>2. TxOK'
  <2>1. TxOK /\ UNCHANGED <<tx, pos, draft, session, sequence, state, requests>>
    OBVIOUS
  <2> HIDE DEF IInv, TypeOK, ReportTimesOut, ReportAccepted
  <2>2. QED
    BY <2>1 DEF TxOK
<1>3. Fenced' /\ GrantIsFresh' /\ Numbered' /\ OneSession'
  BY DEF Fenced, GrantIsFresh, Numbered, OneSession
<1>4. NextIsFresh'
  BY NextSequenceCounts DEF ProcessOK, NextIsFresh
<1>5. Said'
  <2>1. ASSUME holder = run, mySession # 0, mySequence' # 0, NEW k \in saidReady
        PROVE  k <= mySequence' /\ k # mySequence'
    <3>1. k \in Nat /\ mySequence \in Nat /\ mySequence # 0
      BY DEF ProcessOK
    <3>2. k <= mySequence
      BY <2>1, <3>1 DEF Said
    <3>3. mySequence' = mySequence + 1
      BY <2>1, NextSequenceCounts
    <3>4. QED
      BY <3>1, <3>2, <3>3
  <2>2. QED
    BY <2>1 DEF Said
<1>6. AnsweredIsStored' /\ ReadyIsReported'
  BY DEF ProcessOK, AnsweredIsStored, HasSent, ReadyIsReported
<1>7. QED
  BY <1>1, <1>2, <1>3, <1>4, <1>5, <1>6

----------------------------------------------------------------------------
(* The server. *)

LEMMA HandleSessionKeeps ==
    ASSUME IInv, TypeOK', NEW m \in requests, HandleSession(m)
    PROVE  IInv'
<1> USE DEF IInv, TypeOK, HandleSession, Grant, Reports, txn, worker
<1>1. Reports' = Reports /\ \A n \in Reports : n.session # session'
  BY DEF RequestsOK
<1>2. RequestsOK' /\ ProcessOK' /\ TxOK'
  BY DEF RequestsOK, ProcessOK, TxOK
<1>3. Fenced' /\ GrantIsFresh'
  BY <1>1 DEF ProcessOK, Fenced, GrantIsFresh
<1>4. Numbered' /\ NextIsFresh'
  BY <1>1 DEF Fenced, Numbered, NextIsFresh
<1>5. OneSession'
  BY DEF RequestsOK, OneSession
<1>6. Said' /\ ReadyIsReported'
  BY <1>1 DEF Said, ReadyIsReported
<1>7. AnsweredIsStored'
  BY DEF Fenced, AnsweredIsStored
<1>8. QED
  BY <1>2, <1>3, <1>4, <1>5, <1>6, <1>7

(* Steps of the transaction before its end. *)
LEMMA TxStepKeeps ==
    ASSUME IInv, TypeOK', TxOK', UNCHANGED <<db, net, process>>
    PROVE  IInv'
<1> USE DEF IInv, TypeOK, Reports, db, net, process, worker
<1>1. RequestsOK' /\ ProcessOK'
  BY DEF RequestsOK, ProcessOK
<1>2. Fenced' /\ GrantIsFresh' /\ Numbered' /\ NextIsFresh' /\ OneSession' /\ Said'
  BY DEF Fenced, GrantIsFresh, Numbered, NextIsFresh, OneSession, Said
<1>3. AnsweredIsStored' /\ ReadyIsReported'
  BY DEF AnsweredIsStored, HasSent, ReadyIsReported
<1>4. QED
  BY <1>1, <1>2, <1>3

LEMMA BeginKeeps ==
    ASSUME IInv, TypeOK', NEW m \in requests, HandleReport(m), Begin(m)
    PROVE  IInv'
<1> USE DEF IInv, TypeOK, HandleReport, Begin, db, net
<1>1. \A c \in Mine \cup Foreign : Rank(state[c]) >= Rank(state[c])
  BY Ranks
<1>2. tx' = m /\ pos' = 0 /\ draft' = state /\ m.kind = "report"
      /\ UNCHANGED <<requests, session, sequence, state>> /\ m # NoReport
  BY DEF TxOK, NoReport, Request
<1>3. 0 <= Len(m.containers)
  BY <1>2 DEF RequestsOK
<1>4. TxOK'
  BY <1>1, <1>2, <1>3 DEF TxOK, Reports
<1>5. QED
  BY <1>4, TxStepKeeps

(* A request that leaves the record as it is.  It is answered with success  *)
(* only if a later report is stored.                                        *)
LEMMA TakenKeeps ==
    ASSUME IInv, TypeOK', TxOK', UNCHANGED <<db, granted, process>>,
           requests' \subseteq requests,
           answer' # answer => heartbeat = "wait",
           answer' # answer /\ answer' = "ok" /\ session = mySession => sequence > sent.sequence
    PROVE  IInv'
<1> USE DEF IInv, TypeOK, Reports, db, process, worker
<1>1. RequestsOK' /\ ProcessOK'
  BY DEF RequestsOK, ProcessOK
<1>2. Fenced' /\ GrantIsFresh' /\ Numbered' /\ NextIsFresh' /\ OneSession' /\ Said'
  BY DEF Fenced, GrantIsFresh, Numbered, NextIsFresh, OneSession, Said
<1>3. AnsweredIsStored' /\ ReadyIsReported'
  BY DEF AnsweredIsStored, HasSent, ReadyIsReported
<1>4. QED
  BY <1>1, <1>2, <1>3

LEMMA LoseRequestKeeps ==
    ASSUME IInv, TypeOK', NEW m \in requests, LoseRequest(m)
    PROVE  IInv'
<1>1. TxOK'
  BY DEF IInv, LoseRequest, server, db, txn, TxOK, Reports
<1>2. QED
  BY <1>1, TakenKeeps DEF LoseRequest, server

LEMMA NotBegunKeeps ==
    ASSUME IInv, TypeOK', NEW m \in requests, HandleReport(m), Refuse(m) \/ IgnoreStale(m)
    PROVE  IInv'
<1> USE DEF HandleReport, Refuse, IgnoreStale, Reply, server
<1>1. TxOK'
  BY DEF IInv, txn, TxOK
<1>2. IgnoreStale(m) => m.sequence < sequence
  BY DEF IInv, TypeOK, Numbered, Reports
<1>3. QED
  BY <1>1, <1>2, TakenKeeps

(* The transaction ends without its commit. *)
LEMMA DroppedKeeps ==
    ASSUME IInv, TypeOK', DenyContainer \/ FailTx
    PROVE  IInv'
<1> USE DEF DenyContainer, FailTx, EndTx, InLoop, Reply
<1>1. TxOK'
  BY DEF TxOK
<1>2. QED
  BY <1>1, TakenKeeps

(* What is committed is what the report says. *)
LEMMA CommitIsWhole ==
    ASSUME IInv, Commit
    PROVE  /\ tx \in Reports /\ tx.session = session /\ tx.sequence > sequence
           /\ tx.containers \in Seq(Listed)
           /\ \A c \in Foreign : Given(tx, Len(tx.containers), c) = {}
           /\ \A c \in Mine \cup Foreign :
                 Furthest(state'[c], {state[c]} \cup Given(tx, Len(tx.containers), c))
<1>1. /\ tx # NoReport /\ tx \in Reports /\ tx.session = session /\ tx.sequence > sequence
      /\ state \in [Mine \cup Foreign -> States] /\ pos = Len(tx.containers) /\ state' = draft
  BY DEF IInv, TypeOK, TxOK, Commit
<1>2. PICK r : r = tx
  OBVIOUS
<1>3. r.containers \in Seq(Listed)
  BY <1>1, <1>2 DEF IInv, RequestsOK, Reports
<1>4. PICK n \in Nat : n = Len(r.containers)
  BY <1>3
<1>5. \A c \in Foreign : Given(r, n, c) = {}
  BY <1>1, <1>2, <1>4 DEF IInv, TxOK, Given
<1>6. ASSUME NEW c \in Mine \cup Foreign
      PROVE  Furthest(state'[c], {state[c]} \cup Given(r, n, c))
  <2>1. /\ Rank(state'[c]) >= Rank(state[c])
        /\ \A i \in 1..n : r.containers[i].id = c => Rank(state'[c]) >= Rank(r.containers[i].state)
        /\ \/ state'[c] = state[c]
           \/ \E i \in 1..n : r.containers[i].id = c /\ r.containers[i].state = state'[c]
    BY <1>1, <1>2, <1>4 DEF IInv, TxOK
  <2>2. \A t : t \in Given(r, n, c) <=>
               \E i \in 1..n : r.containers[i].id = c /\ r.containers[i].state = t
    BY DEF Given
  <2>3. QED
    BY <2>1, <2>2 DEF Furthest
<1>7. QED
  BY <1>1, <1>2, <1>3, <1>4, <1>5, <1>6

LEMMA CommitKeeps ==
    ASSUME IInv, TypeOK', Commit
    PROVE  IInv'
<1> USE DEF IInv, TypeOK, Commit, EndTx, Reply, process, worker
<1>1. /\ tx \in requests /\ tx.kind = "report"
      /\ tx.session = session /\ tx.sequence > sequence /\ tx.containers \in Seq(Listed)
  BY CommitIsWhole DEF Reports
<1>2. RequestsOK' /\ ProcessOK' /\ TxOK'
  BY <1>1 DEF RequestsOK, ProcessOK, TxOK
<1>3. Fenced' /\ GrantIsFresh' /\ OneSession'
  BY <1>1 DEF Fenced, GrantIsFresh, OneSession, Reports
<1>4. Numbered' /\ NextIsFresh'
  BY <1>1 DEF Numbered, NextIsFresh, Reports
<1>5. Said' /\ ReadyIsReported'
  BY <1>1 DEF Said, ReadyIsReported, Reports
<1>6. AnsweredIsStored'
  <2>1. SUFFICES ASSUME acked \/ answer' = "ok", session = mySession
                 PROVE  HasSent'
    BY DEF AnsweredIsStored
  <2>2. CASE acked \/ answer = "ok"
    BY <1>1, <2>1, <2>2 DEF ProcessOK, AnsweredIsStored, HasSent
  <2>3. CASE tx = sent
    <3>1. ASSUME NEW i \in DOMAIN tx.containers, tx.containers[i].id \in Mine
          PROVE  Rank(state'[tx.containers[i].id]) >= Rank(tx.containers[i].state)
      <4>1. i \in 1..pos
        BY <1>1, <3>1
      <4>2. QED
        BY <1>1, <3>1, <4>1 DEF TxOK, NoReport, Request
    <3>2. QED
      BY <2>3, <3>1 DEF HasSent
  <2>4. QED
    BY <2>1, <2>2, <2>3
<1>7. QED
  BY <1>2, <1>3, <1>4, <1>5, <1>6

----------------------------------------------------------------------------
LEMMA InitIInv == Init => IInv
<1> SUFFICES ASSUME Init PROVE IInv
  OBVIOUS
<1>1. TypeOK
  <2>1. /\ holder \in 0..MaxRuns /\ run \in 0..MaxRuns
        /\ sequence \in 0..(2^Width - 1) /\ mySequence \in 0..(2^Width - 1)
        /\ state \in [Mine \cup Foreign -> States]
    BY FirstNumbers, NodeStatusAssumption DEF Init, States
  <2>2. QED
    BY <2>1 DEF Init, TypeOK
<1>2. RequestsOK /\ ProcessOK /\ TxOK
  BY DEF Init, RequestsOK, ProcessOK, TxOK, NoReport, Request
<1>3. /\ Fenced /\ GrantIsFresh /\ Numbered /\ NextIsFresh
      /\ OneSession /\ Said
  BY DEF Init, Reports, Fenced, GrantIsFresh, Numbered, NextIsFresh, OneSession, Said
<1>4. AnsweredIsStored /\ ReadyIsReported
  BY DEF Init, AnsweredIsStored, ReadyIsReported
<1>5. QED
  BY <1>1, <1>2, <1>3, <1>4 DEF IInv

LEMMA NextIInv == ASSUME IInv, [Next]_vars PROVE IInv'
<1>1. TypeOK'
  <2>1. CASE UNCHANGED vars
    BY <2>1 DEF IInv, TypeOK, vars, server, db, txn, net, process, worker
  <2>2. QED
    BY <2>1, ServerTypeOK, ReportTxTypeOK, RunTypeOK, GoroutineTypeOK DEF IInv, Next
<1>2. ASSUME NEW m \in requests, HandleSession(m) \/ HandleReport(m) \/ LoseRequest(m)
      PROVE  IInv'
  <2>1. HandleReport(m) => Refuse(m) \/ IgnoreStale(m) \/ Begin(m)
    BY DEF HandleReport
  <2>2. QED
    BY <1>1, <1>2, <2>1, HandleSessionKeeps, LoseRequestKeeps, NotBegunKeeps, BeginKeeps
<1>3. CASE StartRun
  BY <1>1, <1>3, StartRunKeeps
<1>4. CASE SessionCreated
  BY <1>1, <1>4, SessionCreatedKeeps
<1>5. CASE SessionFails \/ RunReturns \/ Kill
  BY <1>1, <1>5, ExitKeeps DEF SessionFails, RunReturns, Kill
<1>6. CASE SendReport
  BY <1>1, <1>6, SendReportKeeps
<1>7. CASE ReportTimesOut \/ ReportAccepted
  BY <1>1, <1>7, ReportDoneKeeps
<1>8. CASE Cancel \/ RunStops \/ WatchEnds \/ UNCHANGED vars
  <2> USE DEF Cancel, RunStops, WatchEnds, vars, net, process, worker, reports
  <2>1. ProcessOK'
    BY <1>8 DEF IInv, ProcessOK
  <2>2. QED
    BY <1>1, <1>8, <2>1, QuietStepKeeps
<1>9. CASE BeatEnds \/ ReportRefused \/ NextTick
  <2> USE DEF BeatEnds, ReportRefused, NextTick, Beat, net, reports
  <2>1. ProcessOK'
    BY <1>9 DEF IInv, ProcessOK, NoReport, Request
  <2>2. acked \/ answer' = "ok" => UNCHANGED sent
    BY <1>9 DEF IInv, ProcessOK
  <2>3. QED
    BY <1>1, <1>9, <2>1, <2>2, QuietStepKeeps
<1>10. CASE ReportTx
  <2>1. CASE SkipContainer \/ UpdateContainer
    BY <1>1, <2>1, LoopStep, TxStepKeeps DEF SkipContainer, UpdateContainer
  <2>2. QED
    BY <1>1, <1>10, <2>1, DroppedKeeps, CommitKeeps DEF ReportTx
<1>11. QED
  BY <1>2, <1>3, <1>4, <1>5, <1>6, <1>7, <1>8, <1>9, <1>10 DEF Next, RunStep, HeartbeatStep

LEMMA Invariant == Safety => []IInv
<1>1. IInv /\ [Next]_vars => IInv'
  BY NextIInv
<1>2. QED
  BY <1>1, InitIInv, PTL DEF Safety

----------------------------------------------------------------------------
(* The theorems. *)

(* Every reachable state of worker, network and store is well formed; the   *)
(* sequence of the worker keeps its width (NextSequence wraps).             *)
THEOREM NodeStatusTypeOK == Safety => []TypeOK
<1>1. IInv => TypeOK
  BY DEF IInv
<1>2. QED
  BY <1>1, Invariant, PTL

(* What the worker was told is accepted is in the store, or a later report  *)
(* or another session is (reportNodeStatusHandler, runHeartbeat).           *)
THEOREM NodeStatusAckedIsStored == Safety => []AckedIsStored
<1>1. IInv => AckedIsStored
  BY DEF IInv, AnsweredIsStored, HasSent, AckedIsStored
<1>2. QED
  BY <1>1, Invariant, PTL

(* A node is ready exactly if the run that holds its session has said so in *)
(* the report whose number is stored: createNodeSessionHandler forgets the  *)
(* word of the run before, and reportNodeStatusHandler takes the holder's.  *)
THEOREM NodeStatusReadyIsReported == Safety => []ReadyIsReported
<1>1. IInv => ReadyIsReported
  BY DEF IInv
<1>2. QED
  BY <1>1, Invariant, PTL

(* What one step of the system does to the record of the node. *)
LEMMA StoreStep ==
    ASSUME IInv, [Next]_vars
    PROVE  \/ UNCHANGED db
           \/ \E m \in requests : HandleSession(m)
           \/ Commit
BY DEF Next, StartRun, RunStep, SessionCreated, SessionFails, RunStops, RunReturns, Exit,
   Cancel, Kill, HeartbeatStep, BeatEnds, SendReport, ReportTimesOut, ReportRefused,
   ReportAccepted, NextTick, WatchEnds, LoseRequest, HandleReport, Refuse, IgnoreStale,
   Begin, ReportTx, SkipContainer, UpdateContainer, DenyContainer, FailTx, server, vars

(* Within a session the store moves to higher sequence numbers only, and    *)
(* with the number the content stays (the comparison in                     *)
(* reportNodeStatusHandler).                                                *)
THEOREM NodeStatusOlderNeverOverwrites == Safety => OlderNeverOverwrites
<1>1. ASSUME IInv, [Next]_vars, session' = session
      PROVE  \/ sequence' > sequence
             \/ sequence' = sequence /\ UNCHANGED <<runtimeReady, state>>
  <2>1. CASE UNCHANGED db
    BY <2>1 DEF db
  <2>2. ASSUME NEW m \in requests, HandleSession(m) PROVE FALSE
    BY <1>1, <2>2 DEF HandleSession, IInv, TypeOK
  <2>3. CASE Commit
    BY <1>1, <2>3, CommitIsWhole DEF Commit
  <2>4. QED
    BY <1>1, <2>1, <2>2, <2>3, StoreStep
<1>2. QED
  BY <1>1, Invariant, PTL DEF Safety, OlderNeverOverwrites

(* A request that a step takes out of the network, and what it was. *)
LEMMA RequestIsTaken ==
    ASSUME IInv, [Next]_vars, NEW m \in requests, m \notin requests'
    PROVE  \/ HandleSession(m) \/ HandleReport(m) \/ LoseRequest(m)
           \/ (DenyContainer \/ Commit \/ FailTx) /\ m = tx
BY DEF Next, StartRun, RunStep, SessionCreated, SessionFails, RunStops, RunReturns,
   Cancel, Kill, HeartbeatStep, BeatEnds, SendReport, ReportTimesOut, ReportRefused,
   ReportAccepted, NextTick, WatchEnds, LoseRequest, HandleReport, HandleSession, Refuse,
   IgnoreStale, Begin, ReportTx, SkipContainer, UpdateContainer, DenyContainer, Commit,
   FailTx, EndTx, net, vars

(* A report of a run that does not hold the session leaves the record as it *)
(* is, however late it arrives (StatusSessionID).                           *)
THEOREM NodeStatusOldRunsAreFenced == Safety => OldRunsAreFenced
<1>1. ASSUME IInv, [Next]_vars, NEW m \in requests \ requests',
             m.kind = "report", m.run # holder
      PROVE  UNCHANGED db
  <2>1. m.session # session
    BY <1>1 DEF IInv, Fenced, Reports
  <2>2. ~(Commit /\ m = tx)
    BY <1>1, <2>1, CommitIsWhole
  <2>3. QED
    BY <1>1, <2>1, <2>2, RequestIsTaken
       DEF HandleSession, HandleReport, LoseRequest, Refuse, IgnoreStale, Begin,
           DenyContainer, FailTx, server
<1>2. IInv /\ [Next]_vars =>
          [\A m \in requests \ requests' :
              m.kind = "report" /\ m.run # holder => UNCHANGED db]_vars
  BY <1>1
<1>3. QED
  BY <1>2, Invariant, PTL DEF Safety, OldRunsAreFenced

(* What changes within a session is one whole report without a container of *)
(* another node: the loop of reportNodeStatusHandler over its containers,   *)
(* whatever it has done before it is denied or fails, counts with the       *)
(* commit of its transaction or never.                                      *)
THEOREM NodeStatusReportIsWhole == Safety => ReportIsWhole
<1> DEFINE Whole(m) ==
        LET all == Len(m.containers) IN
        /\ m.kind = "report"
        /\ sequence' = m.sequence /\ runtimeReady' = m.ready
        /\ \A c \in Foreign : Given(m, all, c) = {}
        /\ \A c \in Mine \cup Foreign :
              Furthest(state'[c], {state[c]} \cup Given(m, all, c))
<1>1. ASSUME IInv, [Next]_vars, session' = session
      PROVE  \/ UNCHANGED <<sequence, runtimeReady, state>>
             \/ \E m \in requests \ requests' : Whole(m)
  <2>1. CASE UNCHANGED db
    BY <2>1 DEF db
  <2>2. ASSUME NEW m \in requests, HandleSession(m) PROVE FALSE
    BY <1>1, <2>2 DEF HandleSession, IInv, TypeOK
  <2>3. CASE Commit
    <3>1. tx \in requests \ requests' /\ tx.kind = "report"
      BY <1>1, <2>3, CommitIsWhole DEF Commit, EndTx, Reports
    <3>2. Whole(tx)
      BY <1>1, <2>3, <3>1, CommitIsWhole DEF Commit
    <3>3. QED
      BY <3>1, <3>2
  <2>4. QED
    BY <1>1, <2>1, <2>2, <2>3, StoreStep
<1>2. QED
  BY <1>1, Invariant, PTL DEF Safety, ReportIsWhole
============================================================================
