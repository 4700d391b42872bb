-------------------------- MODULE EnrollmentProofs --------------------------
(***************************************************************************)
(* Theorems about Enrollment, for any directories, processes, tokens,      *)
(* names, keys and node IDs.                                               *)
(*                                                                         *)
(* A key is the thread through it all: it belongs to one directory         *)
(* (KeysApart), all requests with it are for one token (RequestsAgree),    *)
(* and so at most one token is ever used for it.                           *)
(***************************************************************************)
EXTENDS Enrollment, TLAPS

Issued(t) == tokens[t].enrollment

(* Who has locked which directory. *)
LocksOK ==
    /\ \A p \in Procs : (pc[p] = "off" <=> dir[p] = None) /\ (pc[p] = "off" <=> mem[p] = None)
    /\ \A p, q \in Procs : dir[p] = dir[q] /\ dir[p] # None => p = q

PendingState(s) == s.node = None /\ s.cert = None /\ s.token # None

(* What a process has in memory, against what is on its disk. *)
MemoryOK ==
    \A p \in Procs :
        /\ pc[p] = "save" => saved[dir[p]] = None /\ PendingState(mem[p])
        /\ pc[p] \in {"send", "wait"} => saved[dir[p]] = mem[p] /\ PendingState(mem[p])
        /\ pc[p] = "complete" =>
              /\ saved[dir[p]] # None
              /\ saved[dir[p]].node = None
              /\ saved[dir[p]].key = mem[p].key /\ saved[dir[p]].name = mem[p].name
              /\ mem[p].node # None
              /\ \E t \in Used : /\ Issued(t).key = mem[p].key
                                 /\ Issued(t).node = mem[p].node /\ Issued(t).cert = mem[p].cert
        /\ pc[p] = "run" => saved[dir[p]] = mem[p] /\ mem[p].node # None

SavedOK == \A d \in Dirs : saved[d] # None /\ saved[d].node = None => PendingState(saved[d])

(* A key is in one directory, or a process is about to save it. *)
KeysApart ==
    /\ \A d, e \in Dirs :
          saved[d] # None /\ saved[e] # None /\ saved[d].key = saved[e].key => d = e
    /\ \A p \in Procs : pc[p] = "save" =>
          /\ \A d \in Dirs : saved[d] # None => saved[d].key # mem[p].key
          /\ \A q \in Procs : pc[q] = "save" /\ mem[q].key = mem[p].key => q = p
          /\ \A r \in requests : r.key # mem[p].key
          /\ \A t \in Used : Issued(t).key # mem[p].key

(* Requests of one key are for one token, that of the state they were sent  *)
(* from and that of the node they have led to.                              *)
RequestsAgree ==
    \A r \in requests :
        /\ \A s \in requests : s.key = r.key => s.token = r.token
        /\ \A d \in Dirs : saved[d] # None /\ saved[d].key = r.key =>
              saved[d].name = r.name /\ (saved[d].node = None => saved[d].token = r.token)
        /\ \A t \in Used : Issued(t).key = r.key => t = r.token

(* What the server has given out. *)
IssuedOK ==
    /\ \A t \in Used : /\ nodes[Issued(t).node] # None
                       /\ Issued(t).cert = [node |-> Issued(t).node, key |-> Issued(t).key]
    /\ \A r \in replies : \E t \in Used : Issued(t).node = r.node /\ Issued(t).cert = r.cert

IInv ==
    /\ TypeOK /\ LocksOK /\ MemoryOK /\ SavedOK /\ KeysApart /\ RequestsAgree /\ IssuedOK
    /\ OneNodePerEnrollment /\ CredentialsAgree /\ KeyIsKept

----------------------------------------------------------------------------
(* A token that is created or expires is as used as it was. *)
LEMMA UseIsKept ==
    ASSUME IInv, NEW t \in TokenIDs, CreateToken(t) \/ TokenExpires(t)
    PROVE  Used' = Used /\ \A u \in Used : Issued(u)' = Issued(u)
<1>1. CASE CreateToken(t)
  <2>1. [expired |-> FALSE, enrollment |-> None] \in Token
    BY DEF Token
  <2>2. [expired |-> FALSE, enrollment |-> None] # None
    BY <2>1, EnrollmentAssumption
  <2>3. QED
    BY <1>1, <2>2 DEF CreateToken, IInv, TypeOK, Used, Issued
<1>2. CASE TokenExpires(t)
  <2> DEFINE k == [tokens[t] EXCEPT !.expired = TRUE]
  <2>1. tokens' = [tokens EXCEPT ![t] = k] /\ tokens[t] \in Token
    BY <1>2 DEF TokenExpires, IInv, TypeOK
  <2>2. k \in Token /\ k.enrollment = tokens[t].enrollment
    BY <2>1 DEF Token
  <2>3. k # None /\ tokens[t] # None
    BY <2>1, <2>2, EnrollmentAssumption
  <2> HIDE DEF k
  <2>4. QED
    BY <2>1, <2>2, <2>3 DEF IInv, TypeOK, Used, Issued
<1>3. QED
  BY <1>1, <1>2

(* CreateToken and TokenExpires. *)
LEMMA TokenKeeps ==
    ASSUME IInv, NEW t \in TokenIDs, CreateToken(t) \/ TokenExpires(t)
    PROVE  IInv'
<1>1. UNCHANGED <<nodes, saved, pc, dir, mem, requests, replies, erased>>
  BY DEF CreateToken, TokenExpires
<1>2. TypeOK'
  <2>1. [expired |-> FALSE, enrollment |-> None] \in Token
    BY DEF Token
  <2>2. \A k \in Token : [k EXCEPT !.expired = TRUE] \in Token
    BY DEF Token
  <2>3. CASE CreateToken(t)
    BY <1>1, <2>1, <2>3 DEF CreateToken, IInv, TypeOK
  <2>4. CASE TokenExpires(t)
    <3> DEFINE k == [tokens[t] EXCEPT !.expired = TRUE]
    <3>1. tokens[t] \in Token
      BY <2>4 DEF TokenExpires, IInv, TypeOK
    <3>2. k \in Token
      BY <2>2, <3>1
    <3>3. tokens' = [tokens EXCEPT ![t] = k]
      BY <2>4 DEF TokenExpires
    <3> HIDE DEF k
    <3>4. QED
      BY <1>1, <3>2, <3>3 DEF IInv, TypeOK
  <2>5. QED
    BY <2>3, <2>4
<1>3. LocksOK' /\ MemoryOK' /\ SavedOK' /\ KeysApart' /\ RequestsAgree' /\ IssuedOK'
  BY <1>1, UseIsKept
     DEF IInv, LocksOK, MemoryOK, SavedOK, KeysApart, RequestsAgree, IssuedOK
<1>4. OneNodePerEnrollment' /\ CredentialsAgree' /\ KeyIsKept'
  BY <1>1, UseIsKept
     DEF IInv, OneNodePerEnrollment, CredentialsAgree, KeyIsKept, Registered, Issued
<1>5. QED
  BY <1>2, <1>3, <1>4 DEF IInv

(* A new join.  Its key occurs nowhere, so nothing is said of it yet. *)
LEMMA JoinBeginsKeeps ==
    ASSUME IInv, NEW p \in Procs, NEW d \in Dirs, NEW name \in Names, NEW t \in TokenIDs,
           JoinBegins(p, d, name, t)
    PROVE  IInv'
<1>1. SavedOK' /\ RequestsAgree' /\ IssuedOK' /\ OneNodePerEnrollment'
      /\ CredentialsAgree' /\ KeyIsKept'
  BY DEF IInv, SavedOK, RequestsAgree, IssuedOK, OneNodePerEnrollment,
         CredentialsAgree, KeyIsKept, Used, Issued, Registered, server,
         JoinBegins, Takes, LockFree, KnownKeys, Pending
<1>2. TypeOK'
  BY DEF IInv, TypeOK, server, Credential, Enrolled, Reply, Request, State,
         Token, JoinBegins, Takes, LockFree, KnownKeys, Pending
<1>3. LocksOK'
  BY EnrollmentAssumption DEF IInv, TypeOK, LocksOK, Credential, Enrolled,
         Reply, Request, State, Token, JoinBegins, Takes, LockFree,
         KnownKeys, Pending
<1>4. MemoryOK'
  BY EnrollmentAssumption DEF IInv, TypeOK, MemoryOK, PendingState, Used,
         Issued, server, JoinBegins, Takes, LockFree, KnownKeys, Pending
<1>5. KeysApart'
  BY DEF IInv, TypeOK, LocksOK, KeysApart, Used, Issued, server, JoinBegins,
         Takes, LockFree, KnownKeys, Pending
<1>6. QED
  BY <1>1, <1>2, <1>3, <1>4, <1>5 DEF IInv

(* A join that goes on has what is saved, which is pending (SavedOK). *)
LEMMA JoinResumesKeeps ==
    ASSUME IInv, NEW p \in Procs, NEW d \in Dirs, NEW name \in Names,
           NEW t \in TokenIDs \cup {None}, JoinResumes(p, d, name, t)
    PROVE  IInv'
<1>1. TypeOK' /\ SavedOK' /\ KeysApart' /\ RequestsAgree' /\ IssuedOK'
      /\ OneNodePerEnrollment' /\ CredentialsAgree' /\ KeyIsKept'
  BY DEF IInv, TypeOK, SavedOK, KeysApart, RequestsAgree, IssuedOK,
         OneNodePerEnrollment, CredentialsAgree, KeyIsKept, Used, Issued,
         Registered, server, JoinResumes, Takes, LockFree
<1>2. LocksOK'
  BY DEF IInv, TypeOK, LocksOK, JoinResumes, Takes, LockFree
<1>3. MemoryOK'
  BY DEF IInv, TypeOK, MemoryOK, SavedOK, Used, Issued, server, JoinResumes,
         Takes, LockFree
<1>4. QED
  BY <1>1, <1>2, <1>3 DEF IInv

(* A worker starts. *)
LEMMA StartWorkerKeeps ==
    ASSUME IInv, NEW p \in Procs, NEW d \in Dirs, StartWorker(p, d)
    PROVE  IInv'
<1>1. TypeOK' /\ SavedOK' /\ KeysApart' /\ RequestsAgree' /\ IssuedOK'
      /\ OneNodePerEnrollment' /\ CredentialsAgree' /\ KeyIsKept'
  BY DEF IInv, TypeOK, SavedOK, KeysApart, RequestsAgree, IssuedOK,
         OneNodePerEnrollment, CredentialsAgree, KeyIsKept, Used, Issued,
         Registered, server, StartWorker, Takes, LockFree
<1>2. LocksOK'
  BY DEF IInv, TypeOK, LocksOK, StartWorker, Takes, LockFree
<1>3. MemoryOK'
  BY DEF IInv, TypeOK, MemoryOK, Used, Issued, server, StartWorker, Takes,
         LockFree
<1>4. QED
  BY <1>1, <1>2, <1>3 DEF IInv

(* The key gets its directory, before any request has it. *)
LEMMA JoinSavesPendingKeeps ==
    ASSUME IInv, NEW p \in Procs, JoinSavesPending(p)
    PROVE  IInv'
<1>1. LocksOK' /\ IssuedOK' /\ OneNodePerEnrollment'
  BY DEF IInv, LocksOK, IssuedOK, OneNodePerEnrollment, Used, Issued,
         Registered, server, JoinSavesPending
<1>2. TypeOK'
  BY DEF IInv, TypeOK, LocksOK, server, JoinSavesPending
<1>3. MemoryOK'
  BY DEF IInv, TypeOK, LocksOK, MemoryOK, Used, Issued, server,
         JoinSavesPending
<1>4. SavedOK'
  BY DEF IInv, MemoryOK, SavedOK, JoinSavesPending
<1>5. KeysApart'
  BY DEF IInv, TypeOK, KeysApart, Used, Issued, server, JoinSavesPending
<1>6. RequestsAgree'
  BY DEF IInv, KeysApart, RequestsAgree, Used, Issued, server,
         JoinSavesPending
<1>7. CredentialsAgree'
  BY DEF IInv, MemoryOK, KeysApart, CredentialsAgree, PendingState, Used,
         Issued, server, JoinSavesPending
<1>8. KeyIsKept'
  BY DEF IInv, MemoryOK, KeyIsKept, Used, server, JoinSavesPending
<1>9. QED
  BY <1>1, <1>2, <1>3, <1>4, <1>5, <1>6, <1>7, <1>8 DEF IInv

(* The request is the saved one.  It is for the token of every earlier      *)
(* request with its key and of the node that one of them has led to.        *)
LEMMA JoinSendsKeeps ==
    ASSUME IInv, NEW p \in Procs, JoinSends(p)
    PROVE  IInv'
<1>1. LocksOK' /\ MemoryOK' /\ SavedOK' /\ IssuedOK'
      /\ OneNodePerEnrollment' /\ CredentialsAgree'
  BY DEF IInv, LocksOK, MemoryOK, SavedOK, IssuedOK, OneNodePerEnrollment,
         CredentialsAgree, Used, Issued, Registered, server, JoinSends,
         JoinRequest
<1>2. TypeOK'
  BY DEF IInv, TypeOK, LocksOK, MemoryOK, PendingState, server, Credential,
         Enrolled, Reply, Request, State, Token, JoinSends, JoinRequest
<1>3. KeysApart'
  BY DEF IInv, TypeOK, LocksOK, MemoryOK, KeysApart, Used, Issued, server,
         JoinSends, JoinRequest
<1>4. RequestsAgree'
  BY DEF IInv, TypeOK, LocksOK, MemoryOK, KeysApart, RequestsAgree,
         CredentialsAgree, PendingState, Used, Issued, server, JoinSends,
         JoinRequest
<1>5. KeyIsKept'
  BY DEF IInv, TypeOK, LocksOK, MemoryOK, KeyIsKept, Used, server,
         JoinSends, JoinRequest
<1>6. QED
  BY <1>1, <1>2, <1>3, <1>4, <1>5 DEF IInv

(* The certificate comes from a token that was used for its key (IssuedOK). *)
LEMMA JoinReceivesKeeps ==
    ASSUME IInv, NEW p \in Procs, JoinReceives(p)
    PROVE  IInv'
<1>1. PICK r \in replies :
          /\ r.to = p /\ r.cert.key = mem[p].key
          /\ mem' = [mem EXCEPT ![p] = [@ EXCEPT !.node = r.node, !.cert = r.cert,
                                                 !.token = None]]
          /\ replies' = replies \ {r}
  BY DEF JoinReceives
<1>2. /\ pc[p] = "wait" /\ pc' = [pc EXCEPT ![p] = "complete"]
      /\ UNCHANGED <<server, saved, dir, requests, erased>>
  BY DEF JoinReceives
<1> DEFINE s == [mem[p] EXCEPT !.node = r.node, !.cert = r.cert, !.token = None]
<1>3. mem[p] \in State /\ r.node \in NodeIDs /\ r.cert \in Credential
  BY <1>2 DEF IInv, TypeOK, LocksOK, Reply
<1>4. /\ s \in State /\ s.name = mem[p].name /\ s.key = mem[p].key
      /\ s.node = r.node /\ s.cert = r.cert
  BY <1>3 DEF State
<1>5. mem' = [mem EXCEPT ![p] = s]
  BY <1>1
<1>6. s # None /\ s.node # None
  BY <1>3, <1>4, EnrollmentAssumption
<1> HIDE DEF s
<1>7. TypeOK'
  BY <1>1, <1>2, <1>4, <1>5 DEF IInv, TypeOK, server
<1>8. LocksOK'
  BY <1>2, <1>5, <1>6 DEF IInv, TypeOK, LocksOK
<1>9. MemoryOK'
  <2>1. \E t \in Used : /\ Issued(t).key = s.key
                        /\ Issued(t).node = s.node /\ Issued(t).cert = s.cert
    <3>1. PICK t \in Used : Issued(t).node = r.node /\ Issued(t).cert = r.cert
      BY DEF IInv, IssuedOK
    <3>2. Issued(t).cert = [node |-> Issued(t).node, key |-> Issued(t).key]
      BY DEF IInv, IssuedOK
    <3>3. QED
      BY <1>1, <1>4, <3>1, <3>2
  <2>2. saved[dir[p]] = mem[p] /\ mem[p].node = None /\ mem[p] # None
    BY <1>2 DEF IInv, MemoryOK, PendingState, LocksOK
  <2>3. QED
    BY <1>2, <1>4, <1>5, <1>6, <2>1, <2>2 DEF IInv, TypeOK, MemoryOK, Used, Issued, server
<1>10. KeysApart'
  BY <1>2, <1>5 DEF IInv, TypeOK, KeysApart, Used, Issued, server
<1>11. IssuedOK'
  BY <1>1, <1>2 DEF IInv, IssuedOK, Used, Issued, server
<1>12. /\ SavedOK' /\ RequestsAgree' /\ OneNodePerEnrollment'
       /\ CredentialsAgree' /\ KeyIsKept'
  BY <1>2 DEF IInv, SavedOK, RequestsAgree, OneNodePerEnrollment, CredentialsAgree,
         KeyIsKept, PendingState, Used, Issued, Registered, server
<1>13. QED
  BY <1>7, <1>8, <1>9, <1>10, <1>11, <1>12 DEF IInv

(* The completed state is that of the only token used for its key. *)
LEMMA JoinCompletesKeeps ==
    ASSUME IInv, NEW p \in Procs, JoinCompletes(p)
    PROVE  IInv'
<1>1. IssuedOK' /\ OneNodePerEnrollment'
  BY DEF IInv, IssuedOK, OneNodePerEnrollment, Used, Issued, Registered,
         server, JoinCompletes
<1>2. TypeOK'
  BY DEF IInv, TypeOK, LocksOK, server, JoinCompletes
<1>3. LocksOK'
  BY DEF IInv, TypeOK, LocksOK, JoinCompletes
<1>4. MemoryOK'
  BY DEF IInv, TypeOK, LocksOK, MemoryOK, Used, Issued, server,
         JoinCompletes
<1>5. SavedOK'
  BY DEF IInv, MemoryOK, SavedOK, JoinCompletes
<1>6. KeysApart'
  BY DEF IInv, MemoryOK, KeysApart, Used, Issued, server, JoinCompletes
<1>7. RequestsAgree'
  BY DEF IInv, MemoryOK, RequestsAgree, Used, Issued, server, JoinCompletes
<1>8. CredentialsAgree'
  BY DEF IInv, MemoryOK, CredentialsAgree, Used, Issued, server,
         JoinCompletes
<1>9. KeyIsKept'
  BY DEF IInv, LocksOK, MemoryOK, KeyIsKept, Used, server, JoinCompletes
<1>10. QED
  BY <1>1, <1>2, <1>3, <1>4, <1>5, <1>6, <1>7, <1>8, <1>9 DEF IInv

(* A process ends. *)
LEMMA ExitKeeps ==
    ASSUME IInv, NEW p \in Procs, Exit(p)
    PROVE  IInv'
<1>1. SavedOK' /\ IssuedOK' /\ OneNodePerEnrollment' /\ CredentialsAgree'
  BY DEF IInv, SavedOK, IssuedOK, OneNodePerEnrollment, CredentialsAgree,
         Used, Issued, Registered, server, Exit
<1>2. TypeOK'
  BY DEF IInv, TypeOK, KeyIsKept, server, Credential, Enrolled, Reply,
         Request, State, Token, Exit
<1>3. LocksOK'
  BY DEF IInv, TypeOK, LocksOK, Exit
<1>4. MemoryOK'
  BY DEF IInv, TypeOK, MemoryOK, Used, Issued, server, Exit
<1>5. KeysApart'
  BY DEF IInv, TypeOK, KeysApart, Used, Issued, server, Credential,
         Enrolled, Reply, Request, State, Token, Exit
<1>6. RequestsAgree'
  BY DEF IInv, TypeOK, RequestsAgree, Used, Issued, server, Credential,
         Enrolled, Reply, Request, State, Token, Exit
<1>7. KeyIsKept'
  BY DEF IInv, TypeOK, KeyIsKept, Used, server, Credential, Enrolled, Reply,
         Request, State, Token, Exit
<1>8. QED
  BY <1>1, <1>2, <1>3, <1>4, <1>5, <1>6, <1>7 DEF IInv

(* A reset finds nobody in the directory. *)
LEMMA ResetKeeps ==
    ASSUME IInv, NEW d \in Dirs, Reset(d)
    PROVE  IInv'
<1>1. LocksOK' /\ MemoryOK' /\ SavedOK' /\ KeysApart' /\ RequestsAgree'
      /\ IssuedOK' /\ OneNodePerEnrollment' /\ CredentialsAgree' /\ KeyIsKept'
  BY DEF IInv, LocksOK, MemoryOK, SavedOK, KeysApart, RequestsAgree,
         IssuedOK, OneNodePerEnrollment, CredentialsAgree, KeyIsKept, Used,
         Issued, Registered, server, Reset, LockFree
<1>2. TypeOK'
  BY DEF IInv, TypeOK, server, Credential, Enrolled, Reply, Request, State,
         Token, Reset, LockFree
<1>3. QED
  BY <1>1, <1>2 DEF IInv

(* A request that is refused. *)
LEMMA RefuseJoinKeeps ==
    ASSUME IInv, NEW r \in requests, HandleJoin(r), RefuseJoin(r)
    PROVE  IInv'
<1>1. TypeOK' /\ LocksOK' /\ MemoryOK' /\ SavedOK' /\ KeysApart' /\ RequestsAgree'
      /\ IssuedOK' /\ OneNodePerEnrollment' /\ CredentialsAgree' /\ KeyIsKept'
  BY DEF IInv, TypeOK, LocksOK, MemoryOK, SavedOK, KeysApart, RequestsAgree,
         IssuedOK, OneNodePerEnrollment, CredentialsAgree, KeyIsKept, Used,
         Issued, Registered, server, HandleJoin, RefuseJoin
<1>2. QED
  BY <1>1 DEF IInv

(* A request that is answered again. *)
LEMMA RepeatAnswerKeeps ==
    ASSUME IInv, NEW r \in requests, HandleJoin(r), RepeatAnswer(r)
    PROVE  IInv'
<1>1. LocksOK' /\ MemoryOK' /\ SavedOK' /\ KeysApart' /\ RequestsAgree'
      /\ OneNodePerEnrollment' /\ CredentialsAgree' /\ KeyIsKept'
  BY DEF IInv, LocksOK, MemoryOK, SavedOK, KeysApart, RequestsAgree,
         OneNodePerEnrollment, CredentialsAgree, KeyIsKept, Used, Issued,
         Registered, server, HandleJoin, RepeatAnswer, Answer, Usable,
         SameRequest
<1>2. TypeOK'
  BY DEF IInv, TypeOK, server, Credential, Enrolled, Reply, Request, State,
         Token, HandleJoin, RepeatAnswer, Answer, Usable, SameRequest
<1>3. IssuedOK'
  <2>1. r.token \in Used
    BY DEF IInv, TypeOK, Request, RepeatAnswer, Usable, Used
  <2>2. Used' = Used /\ nodes' = nodes /\ \A t \in Used : Issued(t)' = Issued(t)
    BY DEF RepeatAnswer, server, Used, Issued
  <2>3. \A a \in replies' : a \in replies \/ (/\ a.node = Issued(r.token).node
                                            /\ a.cert = Issued(r.token).cert)
    BY DEF RepeatAnswer, Answer, Issued
  <2>4. QED
    BY <2>1, <2>2, <2>3 DEF IInv, IssuedOK
<1>4. QED
  BY <1>1, <1>2, <1>3 DEF IInv

(* A request that is lost. *)
LEMMA LoseRequestKeeps ==
    ASSUME IInv, NEW r \in requests, LoseRequest(r)
    PROVE  IInv'
<1>1. TypeOK' /\ LocksOK' /\ MemoryOK' /\ SavedOK' /\ KeysApart' /\ RequestsAgree'
      /\ IssuedOK' /\ OneNodePerEnrollment' /\ CredentialsAgree' /\ KeyIsKept'
  BY DEF IInv, TypeOK, LocksOK, MemoryOK, SavedOK, KeysApart, RequestsAgree,
         IssuedOK, OneNodePerEnrollment, CredentialsAgree, KeyIsKept, Used,
         Issued, Registered, server, LoseRequest
<1>2. QED
  BY <1>1 DEF IInv

(* A node is registered for a token that was not used, with a new ID.  No   *)
(* other token was used for the key, or RequestsAgree would make it this    *)
(* one; and so no directory has completed with it.                          *)
LEMMA EnrollNodeKeeps ==
    ASSUME IInv, NEW r \in requests, HandleJoin(r), EnrollNode(r)
    PROVE  IInv'
<1> DEFINE E(n) == [name |-> r.name, key |-> r.key, node |-> n,
                    cert |-> [node |-> n, key |-> r.key]]
           t == r.token
<1>1. /\ requests' = requests \ {r}
      /\ UNCHANGED <<saved, pc, dir, mem, erased>>
      /\ tokens[t] # None /\ tokens[t].enrollment = None
  BY DEF HandleJoin, EnrollNode, Usable
<1>2. PICK n \in NodeIDs :
          /\ nodes[n] = None
          /\ nodes' = [nodes EXCEPT ![n] = r.name]
          /\ tokens' = [tokens EXCEPT ![t].enrollment = E(n)]
          /\ replies' = replies \cup Answer(r, E(n))
  BY DEF EnrollNode
<1> DEFINE e == E(n)
           k == [tokens[t] EXCEPT !.enrollment = e]
<1>3. r \in Request /\ t \in TokenIDs /\ tokens[t] \in Token
  BY <1>1 DEF IInv, TypeOK, Request
<1>4. /\ e \in Enrolled /\ e.node = n /\ e.name = r.name /\ e.key = r.key
      /\ e.cert = [node |-> n, key |-> r.key] /\ e.cert \in Credential
  BY <1>3 DEF Enrolled, Request, Credential
<1>5. k \in Token /\ k.enrollment = e
  BY <1>3, <1>4 DEF Token
<1>6. k # None /\ e # None /\ r.name # None
  BY <1>3, <1>4, <1>5, EnrollmentAssumption DEF Request
<1>7. tokens' = [tokens EXCEPT ![t] = k]
  BY <1>2
<1>8. replies' = replies \cup (IF r.from = None THEN {}
                              ELSE {[to |-> r.from, node |-> n, cert |-> e.cert]})
  BY <1>2, <1>4 DEF Answer
<1> HIDE DEF e, k
<1>9. /\ t \notin Used /\ Used' = Used \cup {t} /\ Issued(t)' = e
      /\ \A u \in Used : Issued(u)' = Issued(u)
  BY <1>1, <1>3, <1>5, <1>6, <1>7 DEF IInv, TypeOK, Used, Issued
<1>10. nodes'[n] = r.name /\ \A m \in NodeIDs \ {n} : nodes'[m] = nodes[m]
  BY <1>2 DEF IInv, TypeOK
<1>11. \A u \in Used : Issued(u).node \in NodeIDs \ {n} /\ Issued(u).key # r.key
  <2>1. \A u \in Used : Issued(u) \in Enrolled
    BY DEF IInv, TypeOK, Used, Issued, Token
  <2>2. \A u \in Used : Issued(u).node \in NodeIDs
    BY <2>1 DEF Enrolled
  <2>3. \A u \in Used : Issued(u).node # n
    BY <1>2 DEF IInv, IssuedOK
  <2>4. \A u \in Used : Issued(u).key # r.key
    BY <1>9 DEF IInv, RequestsAgree
  <2>5. QED
    BY <2>2, <2>3, <2>4
<1>12. TypeOK'
  <2>1. tokens' \in [TokenIDs -> Token \cup {None}] /\ nodes' \in [NodeIDs -> Names \cup {None}]
    BY <1>2, <1>3, <1>5, <1>7 DEF IInv, TypeOK, Request
  <2>2. replies' \subseteq Reply
    BY <1>3, <1>4, <1>8 DEF IInv, TypeOK, Reply, Request
  <2>3. QED
    BY <1>1, <2>1, <2>2 DEF IInv, TypeOK
<1>13. LocksOK' /\ SavedOK'
  BY <1>1 DEF IInv, LocksOK, SavedOK
<1>14. MemoryOK'
  BY <1>1, <1>9 DEF IInv, MemoryOK
<1>15. KeysApart'
  BY <1>1, <1>4, <1>9 DEF IInv, KeysApart
<1>16. RequestsAgree'
  BY <1>1, <1>4, <1>9 DEF IInv, RequestsAgree
<1>17. IssuedOK'
  <2>1. \A u \in Used' : /\ nodes'[Issued(u)'.node] # None
                         /\ Issued(u)'.cert = [node |-> Issued(u)'.node, key |-> Issued(u)'.key]
    BY <1>4, <1>6, <1>9, <1>10, <1>11 DEF IInv, IssuedOK
  <2>2. \A a \in replies' : \E u \in Used' :
            Issued(u)'.node = a.node /\ Issued(u)'.cert = a.cert
    BY <1>4, <1>8, <1>9 DEF IInv, IssuedOK
  <2>3. QED
    BY <2>1, <2>2 DEF IssuedOK
<1>18. OneNodePerEnrollment'
  <2>1. Registered' = Registered \cup {n}
    BY <1>6, <1>10 DEF Registered
  <2>2. \A m \in Registered' : \E u \in Used' : Issued(u)'.node = m
    BY <1>4, <1>9, <2>1 DEF IInv, OneNodePerEnrollment, Issued
  <2>3. \A u, v \in Used' :
            u = v \/ (Issued(u)'.node # Issued(v)'.node /\ Issued(u)'.key # Issued(v)'.key)
    BY <1>4, <1>9, <1>11 DEF IInv, OneNodePerEnrollment, Issued
  <2>4. QED
    BY <2>2, <2>3 DEF OneNodePerEnrollment, Issued
<1>19. CredentialsAgree'
  <2>1. \A d \in Dirs : saved[d] # None /\ saved[d].key = r.key =>
            saved[d].name = r.name /\ saved[d].node = None /\ saved[d].token = t
    BY <1>11 DEF IInv, RequestsAgree, CredentialsAgree, Issued
  <2>2. QED
    BY <1>1, <1>4, <1>9, <2>1 DEF IInv, CredentialsAgree, Issued
<1>20. KeyIsKept'
  BY <1>1, <1>4, <1>9 DEF IInv, KeyIsKept, Issued
<1>21. QED
  BY <1>12, <1>13, <1>14, <1>15, <1>16, <1>17, <1>18, <1>19, <1>20 DEF IInv

----------------------------------------------------------------------------
LEMMA InitIInv == Init => IInv
<1>1. Init => Used = {} /\ Registered = {}
  BY DEF Init, Used, Registered
<1>2. QED
  BY <1>1 DEF Init, IInv, TypeOK, LocksOK, MemoryOK, SavedOK, KeysApart, RequestsAgree,
              IssuedOK, OneNodePerEnrollment, CredentialsAgree, KeyIsKept

(* A request that is handled is refused, answered again or enrolled. *)
LEMMA HandleJoinKeeps ==
    ASSUME IInv, NEW r \in requests, HandleJoin(r)
    PROVE  IInv'
BY RefuseJoinKeeps, RepeatAnswerKeeps, EnrollNodeKeeps DEF HandleJoin

LEMMA NextIInv == IInv /\ [Next]_vars => IInv'
<1> SUFFICES ASSUME IInv, [Next]_vars PROVE IInv'
  OBVIOUS
<1>1. ASSUME NEW t \in TokenIDs, CreateToken(t) \/ TokenExpires(t) PROVE IInv'
  BY <1>1, TokenKeeps
<1>2. ASSUME NEW p \in Procs, NEW d \in Dirs, NEW name \in Names, NEW t \in TokenIDs,
             JoinBegins(p, d, name, t)
      PROVE  IInv'
  BY <1>2, JoinBeginsKeeps
<1>3. ASSUME NEW p \in Procs, NEW d \in Dirs, NEW name \in Names,
             NEW t \in TokenIDs \cup {None}, JoinResumes(p, d, name, t)
      PROVE  IInv'
  BY <1>3, JoinResumesKeeps
<1>4. ASSUME NEW p \in Procs, NEW d \in Dirs, StartWorker(p, d) PROVE IInv'
  BY <1>4, StartWorkerKeeps
<1>5. ASSUME NEW p \in Procs,
             \/ JoinSavesPending(p) \/ JoinSends(p) \/ JoinReceives(p)
             \/ JoinCompletes(p) \/ Exit(p)
      PROVE  IInv'
  BY <1>5, JoinSavesPendingKeeps, JoinSendsKeeps, JoinReceivesKeeps, JoinCompletesKeeps,
     ExitKeeps
<1>6. ASSUME NEW d \in Dirs, Reset(d) PROVE IInv'
  BY <1>6, ResetKeeps
<1>7. ASSUME NEW r \in requests, HandleJoin(r) \/ LoseRequest(r) PROVE IInv'
  BY <1>7, HandleJoinKeeps, LoseRequestKeeps
<1>8. CASE UNCHANGED vars
  BY <1>8 DEF vars, server, IInv, TypeOK, LocksOK, MemoryOK, SavedOK, KeysApart,
         RequestsAgree, IssuedOK, OneNodePerEnrollment, CredentialsAgree, KeyIsKept,
         Used, Issued, Registered
<1>9. QED
  BY <1>1, <1>2, <1>3, <1>4, <1>5, <1>6, <1>7, <1>8 DEF Next

LEMMA Invariant == Safety => []IInv
<1>1. QED
  BY InitIInv, NextIInv, PTL DEF Safety

----------------------------------------------------------------------------
(* The type invariant: what join reads from its memory, its disk and an     *)
(* answer has the shape the code expects, so a request always carries the   *)
(* token it was made with.                                                  *)
THEOREM EnrollmentTypeOK == Safety => []TypeOK
<1>1. IInv => TypeOK
  BY DEF IInv
<1>2. QED
  BY <1>1, Invariant, PTL

(* A node of the store is there for one token and one key, whatever is sent *)
(* again, lost or handled late by joinNodeHandler: a token is usable for    *)
(* only one enrollment (nodes.go:40).                                       *)
THEOREM EnrollmentOneNodePerEnrollment == Safety => []OneNodePerEnrollment
<1>1. IInv => OneNodePerEnrollment
  BY DEF IInv
<1>2. QED
  BY <1>1, Invariant, PTL

(* What a data directory has saved is what the server has recorded for its  *)
(* key, so a join that is run again completes with the node it was given    *)
(* the first time.                                                          *)
THEOREM EnrollmentCredentialsAgree == Safety => []CredentialsAgree
<1>1. IInv => CredentialsAgree
  BY DEF IInv
<1>2. QED
  BY <1>1, Invariant, PTL

(* The key of every request and of every registered node is on disk, unless *)
(* a reset removed it: join saves before it contacts the server             *)
(* (join.go:59).                                                            *)
THEOREM EnrollmentKeyIsKept == Safety => []KeyIsKept
<1>1. IInv => KeyIsKept
  BY DEF IInv
<1>2. QED
  BY <1>1, Invariant, PTL

(* The lock of the data directory does what it is for: nobody replaces or   *)
(* removes worker.json under a join or a worker that uses it.               *)
THEOREM EnrollmentStateIsNotPulledAway == Safety => []StateIsNotPulledAway
<1>1. IInv => StateIsNotPulledAway
  BY DEF IInv, MemoryOK, LocksOK, PendingState, StateIsNotPulledAway
<1>2. QED
  BY <1>1, Invariant, PTL

(* What a token was used for never changes, and an expired one is never     *)
(* used: joinNodeHandler checks both in the transaction that registers the  *)
(* node.                                                                    *)
THEOREM EnrollmentEnrollmentIsFinal == Safety => EnrollmentIsFinal
<1> DEFINE Final(t) ==
          tokens[t] # None =>
          /\ tokens'[t] # None
          /\ tokens[t].expired => tokens'[t] = tokens[t]
          /\ tokens[t].enrollment # None =>
                tokens'[t].enrollment = tokens[t].enrollment
<1>1. ASSUME IInv, NEW u \in TokenIDs, CreateToken(u), NEW t \in TokenIDs PROVE Final(t)
  BY <1>1 DEF IInv, TypeOK, CreateToken
<1>2. ASSUME IInv, NEW u \in TokenIDs, TokenExpires(u), NEW t \in TokenIDs PROVE Final(t)
  <2>1. tokens[u] \in Token
    BY <1>2 DEF IInv, TypeOK, TokenExpires
  <2>2. [tokens[u] EXCEPT !.expired = TRUE] \in Token
    BY <2>1 DEF Token
  <2>3. [tokens[u] EXCEPT !.expired = TRUE] # None
    BY <2>2, EnrollmentAssumption
  <2>4. QED
    BY <1>2, <2>1, <2>3 DEF IInv, TypeOK, TokenExpires, Token
<1>3. ASSUME IInv, NEW r \in requests, EnrollNode(r), NEW t \in TokenIDs PROVE Final(t)
  <2>1. PICK n \in NodeIDs :
            tokens' = [tokens EXCEPT ![r.token].enrollment =
                          [name |-> r.name, key |-> r.key, node |-> n,
                           cert |-> [node |-> n, key |-> r.key]]]
    BY <1>3 DEF EnrollNode
  <2> DEFINE e == [name |-> r.name, key |-> r.key, node |-> n,
                   cert |-> [node |-> n, key |-> r.key]]
             k == [tokens[r.token] EXCEPT !.enrollment = e]
  <2>2. r \in Request /\ tokens[r.token] \in Token
    BY <1>3 DEF IInv, TypeOK, Request, EnrollNode, Usable
  <2>3. e \in Enrolled
    BY <2>2 DEF Enrolled, Credential, Request
  <2>4. k \in Token /\ tokens' = [tokens EXCEPT ![r.token] = k]
    BY <2>1, <2>2, <2>3 DEF Token
  <2>5. k # None
    BY <2>4, EnrollmentAssumption
  <2> HIDE DEF k
  <2>6. QED
    BY <1>3, <2>2, <2>4, <2>5 DEF EnrollNode, Usable, IInv, TypeOK
<1>4. ASSUME IInv, [Next]_vars, NEW t \in TokenIDs PROVE Final(t)
  <2>1. CASE UNCHANGED tokens
    BY <2>1
  <2>2. CASE ~UNCHANGED tokens
    <3>1. \/ \E u \in TokenIDs : CreateToken(u) \/ TokenExpires(u)
          \/ \E r \in requests : EnrollNode(r)
      BY <1>4, <2>2
         DEF Next, vars, server, JoinBegins, JoinResumes, StartWorker, JoinSavesPending,
             JoinSends, JoinReceives, JoinCompletes, Exit, Reset, HandleJoin, RefuseJoin,
             RepeatAnswer, LoseRequest
    <3>2. QED
      BY <1>1, <1>2, <1>3, <1>4, <3>1
  <2>3. QED
    BY <2>1, <2>2
<1>5. IInv /\ [Next]_vars => [\A t \in TokenIDs : Final(t)]_vars
  BY <1>4
<1>6. QED
  BY <1>5, Invariant, PTL DEF Safety, EnrollmentIsFinal
============================================================================
