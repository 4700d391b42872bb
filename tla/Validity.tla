------------------------------ MODULE Validity ------------------------------
(***************************************************************************)
(* What depends on the time of day: the validity of the certificates that  *)
(* internal/pki/ca.go issues, the expiry of join tokens and the heartbeat  *)
(* that makes a node reachable.  All of them are stored as times of the    *)
(* server's clock and compared later with the clock of the server or of a  *)
(* client, which are set forward and back meanwhile.                       *)
(*                                                                         *)
(* TLS is external: a side of a handshake accepts a certificate if it and  *)
(* the CA are valid by its own clock, and nobody looks again while the     *)
(* connection is open.  ServerInit models the files and Enrollment the     *)
(* messages; here init has just succeeded and a join is one step.          *)
(***************************************************************************)
EXTENDS Integers

CONSTANTS
    Nodes,
    Server, Admin,      \* the other two machines with a clock
    None,               \* no token, certificate or report
    Backdate,           \* 5 minutes: NotBefore lies this far back
    CALife,             \* 5 years
    LeafLife,           \* 90 days
    HeartbeatMaxAge,    \* 90 seconds
    TokenTTL,           \* of every token; at most 24 hours
    MaxSkew,            \* how far any two clocks are apart at most
    MaxTime             \* bound of elapsed

Hosts == Nodes \cup {Server, Admin}

Certificate == [from : Int, until : Int, at : Nat]
Token == [until : Int, at : Nat]
Seen == [clock : Int, at : Nat]

ASSUME ValidityAssumption ==
    /\ None \notin Certificate \cup Token \cup Seen
    /\ {Backdate, CALife, LeafLife, HeartbeatMaxAge, TokenTTL} \subseteq Nat \ {0}
    /\ MaxSkew \in 0..Backdate
    /\ MaxTime \in Nat

VARIABLES
    elapsed,            \* time since init by a perfect clock
    ahead,              \* how far each clock is ahead of elapsed
    ca, serverCert, adminCert,
    tokens,             \* the token made for a node that has not joined, or None
    certs,              \* the certificate of a node, or None
    open,               \* nodes with a connection to the server
    reports,            \* LastSeenAt of a node, or None
    since               \* when the server process started

\* The fields "at" and the variable since are times by the perfect clock that
\* the program does not have: only the properties look at them.

stored == <<ca, serverCert, adminCert, tokens, certs, reports>>
vars == <<elapsed, ahead, stored, open, since>>

Clock(h) == elapsed + ahead[h]

----------------------------------------------------------------------------
(* The CA. *)

Later(a, b) == IF a < b THEN b ELSE a
Earlier(a, b) == IF a < b THEN a ELSE b

\* Faulty: valid from now on.
GenerateCA_NotBackdated(now) == [from |-> now, until |-> now + CALife, at |-> elapsed]

GenerateCA(now) == [from |-> now - Backdate, until |-> now + CALife, at |-> elapsed]

\* Faulty: a certificate that ends with its CA.
Leaf_UntilCA(now, issuer) ==
    [from |-> Later(now - Backdate, issuer.from), until |-> issuer.until, at |-> elapsed]

(* A certificate of a server, an administrator or a node. *)
Leaf(now, issuer) ==
    [from  |-> Later(now - Backdate, issuer.from),
     until |-> Earlier(now + LeafLife, issuer.until),
     at    |-> elapsed]

MayIssue(now) == ca.from <= now /\ now < ca.until

ValidAt(c, time) == c.from <= time /\ time <= c.until

(* Host h verifies the certificate it is shown and the CA above it. *)
Accepts(h, c) == ValidAt(c, Clock(h)) /\ ValidAt(ca, Clock(h))

(* Mutual TLS between the server and a client. *)
Handshake(h, c) == Accepts(h, serverCert) /\ Accepts(Server, c)

----------------------------------------------------------------------------
(* Right after hambo-server init, whose three certificates share one now.   *)

Init ==
    /\ elapsed = 0
    /\ ahead \in [Hosts -> 0..MaxSkew]
    /\ ca = GenerateCA(Clock(Server))
    /\ serverCert = Leaf(Clock(Server), ca)
    /\ adminCert = Leaf(Clock(Server), ca)
    /\ tokens = [n \in Nodes |-> None]
    /\ certs = [n \in Nodes |-> None]
    /\ open = {}
    /\ reports = [n \in Nodes |-> None]
    /\ since = 0

Tick ==
    /\ elapsed < MaxTime
    /\ elapsed' = elapsed + 1
    /\ UNCHANGED <<ahead, stored, open, since>>

SetClock(h) ==
    /\ \E a \in 0..MaxSkew : ahead' = [ahead EXCEPT ![h] = a]
    /\ UNCHANGED <<elapsed, stored, open, since>>

(* The server process ends and starts again.  LoadCA does not look at the   *)
(* dates; every connection is gone.                                         *)
RestartServer ==
    /\ open' = {}
    /\ since' = elapsed
    /\ UNCHANGED <<elapsed, ahead, stored>>

----------------------------------------------------------------------------
(* Tokens and enrollment. *)

Expired(token) == token.until <= Clock(Server)

(* createTokenHandler, for an administrator. *)
CreateToken(n) ==
    /\ Handshake(Admin, adminCert)
    /\ certs[n] = None
    /\ tokens' = [tokens EXCEPT ![n] = [until |-> Clock(Server) + TokenTTL, at |-> elapsed]]
    /\ UNCHANGED <<elapsed, ahead, ca, serverCert, adminCert, certs, reports, open, since>>

(* JoinNode and joinNodeHandler: the worker verifies the server and has no  *)
(* certificate of its own yet.                                              *)
MayJoin(n) ==
    /\ Accepts(n, serverCert)
    /\ ~Expired(tokens[n])
    /\ MayIssue(Clock(Server))

Join(n) ==
    /\ certs[n] = None
    /\ tokens[n] # None
    /\ MayJoin(n)
    /\ certs' = [certs EXCEPT ![n] = Leaf(Clock(Server), ca)]
    /\ UNCHANGED <<elapsed, ahead, ca, serverCert, adminCert, tokens, reports, open, since>>

----------------------------------------------------------------------------
(* The connection of a worker and its reports. *)

Connect(n) ==
    /\ n \notin open
    /\ certs[n] # None
    /\ Handshake(n, certs[n])
    /\ open' = open \cup {n}
    /\ UNCHANGED <<elapsed, ahead, stored, since>>

Disconnect(n) ==
    /\ n \in open
    /\ open' = open \ {n}
    /\ UNCHANGED <<elapsed, ahead, stored, since>>

\* Faulty: a route without nodeOnly, which trusts the node ID it is sent.
Report_NoCertificate(n) ==
    /\ certs[n] # None
    /\ reports' = [reports EXCEPT ![n] = [clock |-> Clock(Server), at |-> elapsed]]
    /\ UNCHANGED <<elapsed, ahead, ca, serverCert, adminCert, tokens, certs, open, since>>

(* The middleware looks at the chain that was verified in the handshake of  *)
(* the connection, not at the dates of the certificate.                     *)
NodeOnly(n) == n \in open

(* An accepted report. *)
Report(n) ==
    /\ NodeOnly(n)
    /\ reports' = [reports EXCEPT ![n] = [clock |-> Clock(Server), at |-> elapsed]]
    /\ UNCHANGED <<elapsed, ahead, ca, serverCert, adminCert, tokens, certs, open, since>>

IsReachable(n) ==
    /\ reports[n] # None
    /\ Clock(Server) < reports[n].clock + HeartbeatMaxAge

----------------------------------------------------------------------------
Next ==
    \/ Tick
    \/ \E h \in Hosts : SetClock(h)
    \/ RestartServer
    \/ \E n \in Nodes : \/ CreateToken(n) \/ Join(n)
                        \/ Connect(n) \/ Disconnect(n) \/ Report(n)

Spec == Init /\ [][Next]_vars

----------------------------------------------------------------------------
(* Properties *)

Age(x) == elapsed - x.at

Joined == {n \in Nodes : certs[n] # None}
Reported == {n \in Nodes : reports[n] # None}
Invited == {n \in Nodes : tokens[n] # None}

TypeOK ==
    /\ elapsed \in 0..MaxTime
    /\ ahead \in [Hosts -> 0..MaxSkew]
    /\ {ca, serverCert, adminCert} \subseteq Certificate
    /\ tokens \in [Nodes -> Token \cup {None}]
    /\ certs \in [Nodes -> Certificate \cup {None}]
    /\ open \subseteq Nodes
    /\ reports \in [Nodes -> Seen \cup {None}]
    /\ since \in 0..elapsed

(* While clocks are at most five minutes apart nothing is refused too       *)
(* early, however they are set in between: a certificate is accepted from   *)
(* the moment it is issued until its life, or that of its CA, is over but   *)
(* for the skew (NotBefore five minutes back, clamped to the CA); so is a   *)
(* token, and a node that has just reported is reachable.                   *)
YoungIsAccepted ==
    /\ Age(ca) + MaxSkew < CALife /\ Age(serverCert) + MaxSkew <= LeafLife =>
          /\ Age(adminCert) + MaxSkew <= LeafLife => Handshake(Admin, adminCert)
          /\ \A n \in Joined : Age(certs[n]) + MaxSkew <= LeafLife => Handshake(n, certs[n])
          /\ \A n \in Invited : Age(tokens[n]) + MaxSkew < TokenTTL => MayJoin(n)
    /\ \A n \in Reported : Age(reports[n]) + MaxSkew < HeartbeatMaxAge => IsReachable(n)

(* Nothing is honoured for longer than its life and the skew, also when the *)
(* server's clock was set back after it was issued or stored: certificates  *)
(* in a new handshake, tokens, and the last report of a silent node.        *)
OldIsRefused ==
    /\ \A n \in Joined : Age(certs[n]) > LeafLife + MaxSkew \/ Age(ca) > CALife + MaxSkew =>
          ~Handshake(n, certs[n])
    /\ \A n \in Invited : Age(tokens[n]) >= TokenTTL + MaxSkew => ~MayJoin(n)
    /\ \A n \in Reported : Age(reports[n]) >= HeartbeatMaxAge + MaxSkew => ~IsReachable(n)

(* A certificate is checked when a connection is made and not again, so a   *)
(* node may go on after the end of its certificate.  A restart of the       *)
(* server is the end of that: it never becomes reachable again.             *)
ExpiredNodeIsGone ==
    \A n \in Joined :
        /\ since - certs[n].at > LeafLife + MaxSkew
        /\ elapsed - since >= HeartbeatMaxAge + MaxSkew
        => ~IsReachable(n)
============================================================================
