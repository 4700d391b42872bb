----------------------------- MODULE Enrollment -----------------------------
(***************************************************************************)
(* How a machine becomes a node: hambo-worker join of                      *)
(* internal/worker/join.go saves a key and a certificate request in its    *)
(* data directory, sends them with a token to joinNodeHandler of           *)
(* internal/api/nodes.go and saves the certificate it gets.  The process   *)
(* may end at any point, the request or its answer may be lost, and a      *)
(* request that was given up may be handled later; join is then run again. *)
(*                                                                         *)
(* A data directory belongs to one process at a time (flock on             *)
(* worker.lock, released when the process ends).  worker.json is replaced  *)
(* by a rename, so it holds the old or the new state.  The transaction of  *)
(* the handler is one action.  A name stands for the node name and the     *)
(* server URL, which join compares together; a key stands for the private  *)
(* key, its CSR and the public key in a certificate.                       *)
(***************************************************************************)
EXTENDS Naturals, FiniteSets

CONSTANTS
    Dirs,           \* data directories of workers
    Procs,          \* hambo-worker processes
    TokenIDs,       \* tokens the server may generate
    Names,          \* what --name and --server say
    Keys,           \* private keys join may generate
    NodeIDs,        \* node IDs the server may generate
    None            \* an absent field, file, record or process

Credential == [node : NodeIDs, key : Keys]
Enrolled == [name : Names, key : Keys, node : NodeIDs, cert : Credential]
Token == [expired : BOOLEAN, enrollment : Enrolled \cup {None}]
State == [name : Names, token : TokenIDs \cup {None}, key : Keys,
          node : NodeIDs \cup {None}, cert : Credential \cup {None}]

ASSUME EnrollmentAssumption ==
    None \notin Dirs \cup Procs \cup TokenIDs \cup Names \cup Keys \cup NodeIDs
               \cup Credential \cup Enrolled \cup Token \cup State

VARIABLES
    tokens,         \* tokens collection of the server: a record or None
    nodes,          \* nodes collection: the name of a node, or None
    saved,          \* worker.json of a directory, or None
    pc,             \* what a process does next
    dir,            \* the directory a process has locked
    mem,            \* the state a process holds in memory
    requests,       \* join requests the server has not handled
    replies,        \* answers on their way to a process
    erased          \* keys that a reset has removed

server == <<tokens, nodes>>
vars == <<server, saved, pc, dir, mem, requests, replies, erased>>

Init ==
    /\ tokens = [t \in TokenIDs |-> None]
    /\ nodes = [n \in NodeIDs |-> None]
    /\ saved = [d \in Dirs |-> None]
    /\ pc = [p \in Procs |-> "off"]
    /\ dir = [p \in Procs |-> None]
    /\ mem = [p \in Procs |-> None]
    /\ requests = {}
    /\ replies = {}
    /\ erased = {}

----------------------------------------------------------------------------
(* Tokens.  Expiry is final: the clock does not go back. *)

CreateToken(t) ==
    /\ tokens[t] = None
    /\ tokens' = [tokens EXCEPT ![t] = [expired |-> FALSE, enrollment |-> None]]
    /\ UNCHANGED <<nodes, saved, pc, dir, mem, requests, replies, erased>>

TokenExpires(t) ==
    /\ tokens[t] # None
    /\ ~tokens[t].expired
    /\ tokens' = [tokens EXCEPT ![t].expired = TRUE]
    /\ UNCHANGED <<nodes, saved, pc, dir, mem, requests, replies, erased>>

----------------------------------------------------------------------------
(* The processes of a data directory. *)

\* Faulty: nobody locks the directory.
LockFree_Ignored(d) == TRUE

(* lockDataDir gets the lock. *)
LockFree(d) == \A p \in Procs : dir[p] # d

Takes(p, d) ==
    /\ pc[p] = "off"
    /\ LockFree(d)
    /\ dir' = [dir EXCEPT ![p] = d]

Used == {t \in TokenIDs : tokens[t] # None /\ tokens[t].enrollment # None}

(* Keys that occur somewhere.  A new key is none of them. *)
KnownKeys ==
    erased \cup {tokens[t].enrollment.key : t \in Used}
           \cup {r.key : r \in requests}
           \cup {saved[d].key : d \in {e \in Dirs : saved[e] # None}}
           \cup {mem[p].key : p \in {q \in Procs : mem[q] # None}}

Pending(name, t, key) ==
    [name |-> name, token |-> t, key |-> key, node |-> None, cert |-> None]

(* Join without a saved state: newEnrollment, and the state is saved next.  *)
JoinBegins(p, d, name, t) ==
    /\ Takes(p, d)
    /\ saved[d] = None
    /\ \E key \in Keys \ KnownKeys :
          mem' = [mem EXCEPT ![p] = Pending(name, t, key)]
    /\ pc' = [pc EXCEPT ![p] = "save"]
    /\ UNCHANGED <<server, saved, requests, replies, erased>>

\* Faulty: sends the saved request with whatever token it is given.
JoinResumes_AnyToken(p, d, name, t) ==
    /\ Takes(p, d)
    /\ saved[d] # None
    /\ saved[d].name = name
    /\ saved[d].node = None
    /\ mem' = [mem EXCEPT ![p] = IF t = None THEN saved[d]
                                 ELSE [saved[d] EXCEPT !.token = t]]
    /\ pc' = [pc EXCEPT ![p] = "send"]
    /\ UNCHANGED <<server, saved, requests, replies, erased>>

(* Join with a pending state of the same name: it is sent again as it was   *)
(* saved.  Another name or token, or a completed state, change nothing.     *)
JoinResumes(p, d, name, t) ==
    /\ Takes(p, d)
    /\ saved[d] # None
    /\ saved[d].name = name
    /\ saved[d].node = None
    /\ t \in {None, saved[d].token}
    /\ mem' = [mem EXCEPT ![p] = saved[d]]
    /\ pc' = [pc EXCEPT ![p] = "send"]
    /\ UNCHANGED <<server, saved, requests, replies, erased>>

\* Faulty: contacts the server first.
JoinSavesPending_Later(p) ==
    /\ pc[p] = "save"
    /\ pc' = [pc EXCEPT ![p] = "send"]
    /\ UNCHANGED <<server, saved, dir, mem, requests, replies, erased>>

JoinSavesPending(p) ==
    /\ pc[p] = "save"
    /\ saved' = [saved EXCEPT ![dir[p]] = mem[p]]
    /\ pc' = [pc EXCEPT ![p] = "send"]
    /\ UNCHANGED <<server, dir, mem, requests, replies, erased>>

JoinRequest(p) ==
    [token |-> mem[p].token, name |-> mem[p].name, key |-> mem[p].key, from |-> p]

JoinSends(p) ==
    /\ pc[p] = "send"
    /\ requests' = requests \cup {JoinRequest(p)}
    /\ pc' = [pc EXCEPT ![p] = "wait"]
    /\ UNCHANGED <<server, saved, dir, mem, replies, erased>>

(* The answer.  A certificate for another key ends the join (Exit).  The    *)
(* token is not needed any more.                                            *)
JoinReceives(p) ==
    /\ pc[p] = "wait"
    /\ \E r \in replies :
          /\ r.to = p
          /\ r.cert.key = mem[p].key
          /\ mem' = [mem EXCEPT ![p] = [@ EXCEPT !.node = r.node, !.cert = r.cert,
                                                 !.token = None]]
          /\ replies' = replies \ {r}
    /\ pc' = [pc EXCEPT ![p] = "complete"]
    /\ UNCHANGED <<server, saved, dir, requests, erased>>

(* The last saveState; the process ends and with it the lock. *)
JoinCompletes(p) ==
    /\ pc[p] = "complete"
    /\ saved' = [saved EXCEPT ![dir[p]] = mem[p]]
    /\ pc' = [pc EXCEPT ![p] = "off"]
    /\ dir' = [dir EXCEPT ![p] = None]
    /\ mem' = [mem EXCEPT ![p] = None]
    /\ UNCHANGED <<server, requests, replies, erased>>

(* Start of a worker, until it exits. *)
StartWorker(p, d) ==
    /\ Takes(p, d)
    /\ saved[d] # None
    /\ saved[d].node # None
    /\ mem' = [mem EXCEPT ![p] = saved[d]]
    /\ pc' = [pc EXCEPT ![p] = "run"]
    /\ UNCHANGED <<server, saved, requests, replies, erased>>

(* An error, a signal, a timeout or a crash ends the process: the kernel    *)
(* drops its lock, nobody reads its answers any more.                       *)
Exit(p) ==
    /\ pc[p] # "off"
    /\ pc' = [pc EXCEPT ![p] = "off"]
    /\ dir' = [dir EXCEPT ![p] = None]
    /\ mem' = [mem EXCEPT ![p] = None]
    /\ requests' = {IF r.from = p THEN [r EXCEPT !.from = None] ELSE r : r \in requests}
    /\ replies' = {r \in replies : r.to # p}
    /\ UNCHANGED <<server, saved, erased>>

(* Reset: lock, remove worker.json, unlock. *)
Reset(d) ==
    /\ LockFree(d)
    /\ saved[d] # None
    /\ erased' = erased \cup {saved[d].key}
    /\ saved' = [saved EXCEPT ![d] = None]
    /\ UNCHANGED <<server, pc, dir, mem, requests, replies>>

----------------------------------------------------------------------------
(* joinNodeHandler. *)

Usable(t) == tokens[t] # None /\ ~tokens[t].expired

(* The request hash covers name and CSR. *)
SameRequest(r, e) == e.name = r.name /\ e.key = r.key

Answer(r, e) ==
    IF r.from = None THEN {} ELSE {[to |-> r.from, node |-> e.node, cert |-> e.cert]}

(* Unknown or expired token, or used for a different request. *)
RefuseJoin(r) ==
    /\ Usable(r.token) => /\ tokens[r.token].enrollment # None
                          /\ ~SameRequest(r, tokens[r.token].enrollment)
    /\ UNCHANGED <<server, replies>>

\* Faulty: a used token is refused, whoever asks.
RepeatAnswer_Refused(r) ==
    /\ Usable(r.token)
    /\ tokens[r.token].enrollment # None
    /\ UNCHANGED <<server, replies>>

RepeatAnswer(r) ==
    /\ Usable(r.token)
    /\ tokens[r.token].enrollment # None
    /\ SameRequest(r, tokens[r.token].enrollment)
    /\ replies' = replies \cup Answer(r, tokens[r.token].enrollment)
    /\ UNCHANGED server

\* Faulty: issues a node for every request with a usable token.
EnrollNode_Again(r) ==
    /\ Usable(r.token)
    /\ \E n \in NodeIDs :
          LET e == [name |-> r.name, key |-> r.key, node |-> n,
                    cert |-> [node |-> n, key |-> r.key]]
          IN  /\ nodes[n] = None
              /\ nodes' = [nodes EXCEPT ![n] = r.name]
              /\ tokens' = [tokens EXCEPT ![r.token].enrollment = e]
              /\ replies' = replies \cup Answer(r, e)

\* Faulty: the token is not marked as used.
EnrollNode_NotRecorded(r) ==
    /\ Usable(r.token)
    /\ tokens[r.token].enrollment = None
    /\ \E n \in NodeIDs :
          LET e == [name |-> r.name, key |-> r.key, node |-> n,
                    cert |-> [node |-> n, key |-> r.key]]
          IN  /\ nodes[n] = None
              /\ nodes' = [nodes EXCEPT ![n] = r.name]
              /\ replies' = replies \cup Answer(r, e)
    /\ UNCHANGED tokens

EnrollNode(r) ==
    /\ Usable(r.token)
    /\ tokens[r.token].enrollment = None
    /\ \E n \in NodeIDs :
          LET e == [name |-> r.name, key |-> r.key, node |-> n,
                    cert |-> [node |-> n, key |-> r.key]]
          IN  /\ nodes[n] = None
              /\ nodes' = [nodes EXCEPT ![n] = r.name]
              /\ tokens' = [tokens EXCEPT ![r.token].enrollment = e]
              /\ replies' = replies \cup Answer(r, e)

HandleJoin(r) ==
    /\ r \in requests
    /\ requests' = requests \ {r}
    /\ RefuseJoin(r) \/ RepeatAnswer(r) \/ EnrollNode(r)
    /\ UNCHANGED <<saved, pc, dir, mem, erased>>

(* The request does not arrive, or the server fails before its commit. *)
LoseRequest(r) ==
    /\ r \in requests
    /\ requests' = requests \ {r}
    /\ UNCHANGED <<server, saved, pc, dir, mem, replies, erased>>

----------------------------------------------------------------------------
Next ==
    \/ \E t \in TokenIDs : CreateToken(t) \/ TokenExpires(t)
    \/ \E p \in Procs, d \in Dirs :
          \/ \E name \in Names :
                \/ \E t \in TokenIDs : JoinBegins(p, d, name, t)
                \/ \E t \in TokenIDs \cup {None} : JoinResumes(p, d, name, t)
          \/ StartWorker(p, d)
    \/ \E p \in Procs :
          JoinSavesPending(p) \/ JoinSends(p) \/ JoinReceives(p) \/ JoinCompletes(p)
          \/ Exit(p)
    \/ \E d \in Dirs : Reset(d)
    \/ \E r \in requests : HandleJoin(r) \/ LoseRequest(r)

(* The HTTP client of a join waits ten seconds. *)
JoinTimesOut(p) ==
    /\ pc[p] = "wait"
    /\ \A r \in requests : r.from # p
    /\ \A r \in replies : r.to # p
    /\ Exit(p)

(* Somebody runs join in the directory again and again with what it has     *)
(* saved, and no step of it fails for ever.                                 *)
Retries(d) ==
    /\ SF_vars(\E p \in Procs, name \in Names : JoinResumes(p, d, name, None))
    /\ \A p \in Procs :
          /\ WF_vars(JoinTimesOut(p) /\ dir[p] = d)
          /\ SF_vars(JoinSends(p) /\ dir[p] = d)
          /\ SF_vars((\E r \in requests : r.from = p /\ HandleJoin(r)) /\ dir[p] = d)
          /\ SF_vars(JoinReceives(p) /\ dir[p] = d)
          /\ SF_vars(JoinCompletes(p) /\ dir[p] = d)

Safety == Init /\ [][Next]_vars

Spec == Safety /\ \A d \in Dirs : Retries(d)

----------------------------------------------------------------------------
(* Properties *)

Request == [token : TokenIDs, name : Names, key : Keys, from : Procs \cup {None}]
Reply == [to : Procs, node : NodeIDs, cert : Credential]

TypeOK ==
    /\ tokens \in [TokenIDs -> Token \cup {None}]
    /\ nodes \in [NodeIDs -> Names \cup {None}]
    /\ saved \in [Dirs -> State \cup {None}]
    /\ pc \in [Procs -> {"off", "save", "send", "wait", "complete", "run"}]
    /\ dir \in [Procs -> Dirs \cup {None}]
    /\ mem \in [Procs -> State \cup {None}]
    /\ requests \subseteq Request
    /\ replies \subseteq Reply
    /\ erased \subseteq Keys

Registered == {n \in NodeIDs : nodes[n] # None}

(* Every node in the store is there for one token and one key, whichever    *)
(* requests were sent twice, lost or handled late: "this makes the token    *)
(* usable for only one enrollment" (nodes.go:40).                           *)
OneNodePerEnrollment ==
    /\ \A n \in Registered : \E t \in Used : tokens[t].enrollment.node = n
    /\ \A t, u \in Used :
          \/ t = u
          \/ /\ tokens[t].enrollment.node # tokens[u].enrollment.node
             /\ tokens[t].enrollment.key # tokens[u].enrollment.key

(* What a directory has saved and what the server has recorded for its key  *)
(* agree: a completed state is exactly the enrollment, a pending one is the *)
(* request it was made for and still has its token, so a retry of a join    *)
(* whose answer was lost gets that answer.                                  *)
CredentialsAgree ==
    \A d \in Dirs : saved[d] # None =>
        /\ saved[d].node # None =>
              \E t \in Used : tokens[t].enrollment.key = saved[d].key
        /\ \A t \in Used : LET e == tokens[t].enrollment IN
              e.key = saved[d].key =>
                 /\ saved[d].name = e.name
                 /\ IF saved[d].node = None THEN saved[d].token = t
                    ELSE saved[d].node = e.node /\ saved[d].cert = e.cert

(* The key of a request that was sent, and of a node that was registered,   *)
(* is on disk, unless a reset removed it: "save before contacting the       *)
(* server so an interrupted enrollment can be retried" (join.go:59).        *)
KeyIsKept ==
    \A k \in {r.key : r \in requests} \cup {tokens[t].enrollment.key : t \in Used} :
        k \in erased \/ \E d \in Dirs : saved[d] # None /\ saved[d].key = k

(* Nobody replaces or removes the state under a process that uses it: a     *)
(* running worker has the credentials on disk, a join that has contacted    *)
(* the server has its request there.                                        *)
StateIsNotPulledAway ==
    \A p \in Procs : LET s == saved[dir[p]] IN
        /\ pc[p] = "run" => s = mem[p]
        /\ pc[p] \in {"send", "wait", "complete"} =>
              s # None /\ s.key = mem[p].key /\ s.node = None

(* What a token was used for never changes, and an expired token enrolls    *)
(* nobody any more.                                                         *)
EnrollmentIsFinal ==
    [][\A t \in TokenIDs : tokens[t] # None =>
          /\ tokens'[t] # None
          /\ tokens[t].expired => tokens'[t] = tokens[t]
          /\ tokens[t].enrollment # None =>
                tokens'[t].enrollment = tokens[t].enrollment]_vars

(* A pending enrollment whose token is usable and not used by another       *)
(* request completes, if join is run again and again.                       *)
PendingCompletes ==
    \A d \in Dirs :
        ~ <>[](/\ saved[d] # None
               /\ saved[d].node = None
               /\ Usable(saved[d].token)
               /\ LET e == tokens[saved[d].token].enrollment
                  IN  e = None \/ SameRequest(saved[d], e))
============================================================================
