--------------------------- MODULE ValidityProofs ---------------------------
(***************************************************************************)
(* Theorems about Validity, for any nodes, lives, backdating, and any      *)
(* skew that is not larger than the backdating.                            *)
(*                                                                         *)
(* Stamped ties every stored time to the moment it was stored at.  With it *)
(* YoungIsAccepted and OldIsRefused are arithmetic; ExpiredNodeIsGone      *)
(* needs the history that Silenced keeps.                                  *)
(***************************************************************************)
EXTENDS Validity, TLAPS

(* What GenerateCA, Leaf, CreateToken and Report leave in the store. *)
StampedCA ==
    /\ ca.at <= elapsed
    /\ ca.from <= ca.at
    /\ ca.at + CALife <= ca.until /\ ca.until <= ca.at + MaxSkew + CALife

StampedLeaf(c) ==
    /\ ca.at <= c.at /\ c.at <= elapsed
    /\ c.from <= c.at
    /\ c.at + LeafLife <= c.until \/ ca.until <= c.until
    /\ c.until <= c.at + MaxSkew + LeafLife

StampedToken(t) ==
    /\ t.at <= elapsed
    /\ t.at + TokenTTL <= t.until /\ t.until <= t.at + MaxSkew + TokenTTL

StampedReport(r) ==
    /\ r.at <= elapsed
    /\ r.at <= r.clock /\ r.clock <= r.at + MaxSkew

Stamped ==
    /\ StampedCA
    /\ StampedLeaf(serverCert)
    /\ StampedLeaf(adminCert)
    /\ \A n \in Joined : StampedLeaf(certs[n])
    /\ \A n \in Invited : StampedToken(tokens[n])
    /\ \A n \in Reported : StampedReport(reports[n])

(* A node whose certificate was over when the server last started has       *)
(* neither a connection nor a report since.                                 *)
Silenced ==
    \A n \in Joined :
        since - certs[n].at > LeafLife + MaxSkew =>
            /\ n \notin open
            /\ n \in Reported => reports[n].at <= since

IInv == TypeOK /\ Stamped /\ Silenced

----------------------------------------------------------------------------
(* A clock is never behind, and never further ahead than MaxSkew. *)
LEMMA ClockBounds ==
    ASSUME TypeOK, NEW h \in Hosts
    PROVE  /\ Clock(h) \in Nat
           /\ elapsed <= Clock(h) /\ Clock(h) <= elapsed + MaxSkew
<1>1. ahead[h] \in 0..MaxSkew /\ elapsed \in Nat /\ MaxSkew \in Nat
  BY ValidityAssumption DEF TypeOK
<1>2. QED
  BY <1>1 DEF Clock

(* A certificate issued now, by the server's clock, is stamped. *)
LEMMA LeafIsStamped ==
    ASSUME TypeOK, StampedCA
    PROVE  /\ Leaf(Clock(Server), ca) \in Certificate
           /\ StampedLeaf(Leaf(Clock(Server), ca))
           /\ Leaf(Clock(Server), ca).at = elapsed
<1> DEFINE now == Clock(Server)
           leaf == Leaf(now, ca)
<1>1. /\ now \in Nat /\ elapsed <= now /\ now <= elapsed + MaxSkew
  BY ClockBounds DEF Hosts
<1>2. /\ Backdate \in Nat /\ LeafLife \in Nat /\ CALife \in Nat /\ MaxSkew \in Nat
      /\ MaxSkew <= Backdate
      /\ elapsed \in Nat
      /\ ca.from \in Int /\ ca.until \in Int /\ ca.at \in Nat
  BY ValidityAssumption DEF TypeOK, Certificate
<1>3. /\ leaf.from = IF now - Backdate < ca.from THEN ca.from ELSE now - Backdate
      /\ leaf.until = IF now + LeafLife < ca.until THEN now + LeafLife ELSE ca.until
      /\ leaf.at = elapsed
  BY DEF Leaf, Later, Earlier
<1> HIDE DEF now
<1>4. leaf.from \in Int /\ leaf.until \in Int /\ leaf.at \in Nat
  BY <1>1, <1>2, <1>3
<1>5. leaf \in Certificate
  BY <1>4 DEF Leaf, Certificate
<1>6. StampedLeaf(leaf)
  BY <1>1, <1>2, <1>3, <1>4 DEF StampedLeaf, StampedCA
<1>7. QED
  BY <1>3, <1>5, <1>6 DEF now

----------------------------------------------------------------------------
LEMMA InitIInv == Init => IInv
<1> SUFFICES ASSUME Init PROVE IInv
  OBVIOUS
<1>1. /\ Backdate \in Nat /\ LeafLife \in Nat /\ CALife \in Nat /\ MaxSkew \in Nat
      /\ MaxSkew <= Backdate /\ MaxTime \in Nat
      /\ elapsed = 0
      /\ ahead \in [Hosts -> 0..MaxSkew]
  BY ValidityAssumption DEF Init
<1>2. /\ Clock(Server) \in Nat /\ 0 <= Clock(Server) /\ Clock(Server) <= MaxSkew
  BY <1>1 DEF Clock, Hosts
<1>3. ca \in Certificate /\ StampedCA
  BY <1>1, <1>2 DEF Init, GenerateCA, Certificate, StampedCA
<1>4. /\ ca.from \in Int /\ ca.until \in Int /\ ca.at \in Nat
  BY <1>3 DEF Certificate
<1>5. /\ Leaf(Clock(Server), ca) \in Certificate
      /\ StampedLeaf(Leaf(Clock(Server), ca))
  <2> DEFINE now == Clock(Server)
             leaf == Leaf(now, ca)
  <2>1. /\ leaf.from = IF now - Backdate < ca.from THEN ca.from ELSE now - Backdate
        /\ leaf.until = IF now + LeafLife < ca.until THEN now + LeafLife ELSE ca.until
        /\ leaf.at = elapsed
    BY DEF Leaf, Later, Earlier
  <2>2. now \in Nat /\ now <= MaxSkew
    BY <1>2
  <2> HIDE DEF now
  <2>3. leaf.from \in Int /\ leaf.until \in Int /\ leaf.at \in Nat
    BY <1>1, <1>4, <2>1, <2>2
  <2>4. leaf \in Certificate
    BY <2>3 DEF Leaf, Certificate
  <2>5. StampedLeaf(leaf)
    BY <1>1, <1>3, <1>4, <2>1, <2>2, <2>3 DEF StampedLeaf, StampedCA
  <2>6. QED
    BY <2>4, <2>5 DEF now
<1>6. Joined = {} /\ Invited = {} /\ Reported = {}
  BY DEF Init, Joined, Invited, Reported
<1>7. TypeOK
  BY <1>1, <1>3, <1>5 DEF Init, TypeOK
<1>8. Stamped
  BY <1>3, <1>5, <1>6 DEF Init, Stamped
<1>9. QED
  BY <1>6, <1>7, <1>8 DEF IInv, Silenced

(* Nothing that is stored loses its stamp while time goes on. *)
LEMMA StampsLast ==
    ASSUME IInv, UNCHANGED stored, elapsed' \in Nat, elapsed <= elapsed'
    PROVE  Stamped'
<1>1. UNCHANGED <<Joined, Invited, Reported>>
  BY DEF stored, Joined, Invited, Reported
<1>2. elapsed \in Nat /\ ca.at \in Nat /\ serverCert.at \in Nat /\ adminCert.at \in Nat
  BY DEF IInv, TypeOK, Certificate
<1>3. StampedCA' /\ StampedLeaf(serverCert)' /\ StampedLeaf(adminCert)'
  BY <1>2 DEF IInv, Stamped, StampedCA, StampedLeaf, stored
<1>4. ASSUME NEW n \in Joined PROVE StampedLeaf(certs[n])'
  <2>1. StampedLeaf(certs[n]) /\ certs[n].at \in Nat
    BY DEF IInv, Stamped, TypeOK, Joined, Certificate
  <2>2. QED
    BY <1>2, <2>1 DEF StampedLeaf, stored
<1>5. ASSUME NEW n \in Invited PROVE StampedToken(tokens[n])'
  <2>1. StampedToken(tokens[n]) /\ tokens[n].at \in Nat
    BY DEF IInv, Stamped, TypeOK, Invited, Token
  <2>2. QED
    BY <1>2, <2>1 DEF StampedToken, stored
<1>6. ASSUME NEW n \in Reported PROVE StampedReport(reports[n])'
  <2>1. StampedReport(reports[n]) /\ reports[n].at \in Nat
    BY DEF IInv, Stamped, TypeOK, Reported, Seen
  <2>2. QED
    BY <1>2, <2>1 DEF StampedReport, stored
<1>7. QED
  BY <1>1, <1>3, <1>4, <1>5, <1>6 DEF Stamped

(* A handshake that the server accepts dates the certificate. *)
LEMMA AcceptedIsYoung ==
    ASSUME IInv, NEW n \in Joined, NEW h \in Hosts, Handshake(h, certs[n])
    PROVE  ~(since - certs[n].at > LeafLife + MaxSkew)
<1>1. /\ elapsed \in Nat /\ since \in 0..elapsed /\ MaxSkew \in Nat /\ LeafLife \in Nat
      /\ certs[n].at \in Nat /\ certs[n].until \in Int
      /\ StampedLeaf(certs[n])
  BY ValidityAssumption DEF IInv, TypeOK, Stamped, Joined, Certificate
<1>2. Clock(Server) \in Nat /\ elapsed <= Clock(Server)
  BY ClockBounds DEF IInv, Hosts
<1>3. Clock(Server) <= certs[n].until
  BY DEF Handshake, Accepts, ValidAt
<1>4. QED
  BY <1>1, <1>2, <1>3 DEF StampedLeaf

(* Steps that change no certificate, token or report. *)
LEMMA ClockStepsKeepIInv ==
    ASSUME IInv,
           \/ Tick
           \/ \E h \in Hosts : SetClock(h)
           \/ RestartServer
           \/ \E n \in Nodes : Connect(n) \/ Disconnect(n)
           \/ UNCHANGED vars
    PROVE  IInv'
<1>1. /\ elapsed \in Nat /\ elapsed <= MaxTime /\ MaxTime \in Nat
      /\ since \in 0..elapsed
      /\ \A n \in Joined : certs[n].at \in Nat /\ certs[n].at <= elapsed
      /\ \A n \in Reported : reports[n].at \in Nat /\ reports[n].at <= elapsed
  <2>1. \A n \in Joined : certs[n].at \in Nat /\ certs[n].at <= elapsed
    BY DEF IInv, TypeOK, Stamped, StampedLeaf, Joined, Certificate
  <2>2. \A n \in Reported : reports[n].at \in Nat /\ reports[n].at <= elapsed
    BY DEF IInv, TypeOK, Stamped, StampedReport, Reported, Seen
  <2>3. QED
    BY <2>1, <2>2, ValidityAssumption DEF IInv, TypeOK
<1>2. CASE Tick
  <2>1. UNCHANGED stored /\ elapsed' = elapsed + 1 /\ elapsed' \in 0..MaxTime
    BY <1>1, <1>2 DEF Tick
  <2>2. TypeOK'
    BY <1>1, <1>2, <2>1 DEF Tick, IInv, TypeOK, stored
  <2>3. Stamped'
    BY <1>1, <2>1, StampsLast
  <2>4. Silenced'
    BY <1>2 DEF Tick, IInv, Silenced, Joined, Reported, stored
  <2>5. QED
    BY <2>2, <2>3, <2>4 DEF IInv
<1>3. CASE \E h \in Hosts : SetClock(h)
  <2>1. PICK h \in Hosts : SetClock(h)
    BY <1>3
  <2>2. TypeOK'
    BY <2>1 DEF SetClock, IInv, TypeOK, stored
  <2>3. Stamped'
    BY <1>1, <2>1, StampsLast DEF SetClock
  <2>4. Silenced'
    BY <2>1 DEF SetClock, IInv, Silenced, Joined, Reported, stored
  <2>5. QED
    BY <2>2, <2>3, <2>4 DEF IInv
<1>4. CASE RestartServer
  <2>1. UNCHANGED stored /\ elapsed' = elapsed /\ since' = elapsed /\ open' = {}
    BY <1>4 DEF RestartServer
  <2>2. TypeOK'
    BY <1>1, <1>4 DEF RestartServer, IInv, TypeOK, stored
  <2>3. Stamped'
    BY <1>1, <2>1, StampsLast
  <2>4. Silenced'
    BY <1>1, <2>1 DEF Silenced, Joined, Reported, stored
  <2>5. QED
    BY <2>2, <2>3, <2>4 DEF IInv
<1>5. CASE \E n \in Nodes : Connect(n)
  <2>1. PICK n \in Nodes : Connect(n)
    BY <1>5
  <2>2. TypeOK'
    BY <2>1 DEF Connect, IInv, TypeOK, stored
  <2>3. Stamped'
    BY <1>1, <2>1, StampsLast DEF Connect
  <2>4. ~(since - certs[n].at > LeafLife + MaxSkew)
    BY <2>1, AcceptedIsYoung DEF Connect, Joined, Hosts
  <2>5. Silenced'
    BY <2>1, <2>4 DEF Connect, IInv, Silenced, Joined, Reported, stored
  <2>6. QED
    BY <2>2, <2>3, <2>5 DEF IInv
<1>6. CASE \E n \in Nodes : Disconnect(n)
  <2>1. PICK n \in Nodes : Disconnect(n)
    BY <1>6
  <2>2. TypeOK'
    BY <2>1 DEF Disconnect, IInv, TypeOK, stored
  <2>3. Stamped'
    BY <1>1, <2>1, StampsLast DEF Disconnect
  <2>4. Silenced'
    BY <2>1 DEF Disconnect, IInv, Silenced, Joined, Reported, stored
  <2>5. QED
    BY <2>2, <2>3, <2>4 DEF IInv
<1>7. CASE UNCHANGED vars
  <2>1. TypeOK' /\ Silenced'
    BY <1>7 DEF vars, stored, IInv, TypeOK, Silenced, Joined, Reported
  <2>2. Stamped'
    BY <1>1, <1>7, StampsLast DEF vars
  <2>3. QED
    BY <2>1, <2>2 DEF IInv
<1>8. QED
  BY <1>2, <1>3, <1>4, <1>5, <1>6, <1>7

LEMMA CreateTokenKeepsIInv ==
    ASSUME IInv, NEW n \in Nodes, CreateToken(n)
    PROVE  IInv'
<1> DEFINE token == [until |-> Clock(Server) + TokenTTL, at |-> elapsed]
<1>1. /\ Clock(Server) \in Nat
      /\ elapsed <= Clock(Server) /\ Clock(Server) <= elapsed + MaxSkew
      /\ elapsed \in Nat /\ TokenTTL \in Nat /\ MaxSkew \in Nat
  BY ClockBounds, ValidityAssumption DEF IInv, TypeOK, Hosts
<1>2. token \in Token /\ StampedToken(token)
  BY <1>1 DEF Token, StampedToken
<1>3. /\ tokens' = [tokens EXCEPT ![n] = token]
      /\ UNCHANGED <<elapsed, ahead, ca, serverCert, adminCert, certs, reports, open, since>>
  BY DEF CreateToken
<1> HIDE DEF token
<1>4. TypeOK'
  BY <1>2, <1>3 DEF IInv, TypeOK
<1>5. ASSUME NEW m \in Invited' PROVE StampedToken(tokens[m])'
  <2>1. CASE m = n
    BY <1>2, <1>3, <2>1 DEF IInv, TypeOK, StampedToken
  <2>2. CASE m # n
    <3>1. m \in Invited /\ tokens'[m] = tokens[m]
      BY <1>3, <2>2 DEF IInv, TypeOK, Invited
    <3>2. QED
      BY <1>3, <3>1 DEF IInv, Stamped, StampedToken
  <2>3. QED
    BY <2>1, <2>2
<1>6. Stamped'
  BY <1>3, <1>5 DEF IInv, Stamped, StampedCA, StampedLeaf, StampedReport, Joined, Reported
<1>7. Silenced'
  BY <1>3 DEF IInv, Silenced, Joined, Reported
<1>8. QED
  BY <1>4, <1>6, <1>7 DEF IInv

LEMMA JoinKeepsIInv ==
    ASSUME IInv, NEW n \in Nodes, Join(n)
    PROVE  IInv'
<1> DEFINE leaf == Leaf(Clock(Server), ca)
<1>1. leaf \in Certificate /\ StampedLeaf(leaf) /\ leaf.at = elapsed
  BY LeafIsStamped DEF IInv, Stamped
<1>2. /\ certs' = [certs EXCEPT ![n] = leaf]
      /\ UNCHANGED <<elapsed, ahead, ca, serverCert, adminCert, tokens, reports, open, since>>
  BY DEF Join
<1> HIDE DEF leaf
<1>3. TypeOK'
  BY <1>1, <1>2 DEF IInv, TypeOK
<1>4. ASSUME NEW m \in Joined', m # n
      PROVE  m \in Joined /\ certs'[m] = certs[m]
  BY <1>2, <1>4 DEF IInv, TypeOK, Joined
<1>5. certs'[n] = leaf
  BY <1>2 DEF IInv, TypeOK
<1>6. ASSUME NEW m \in Joined' PROVE StampedLeaf(certs[m])'
  <2>1. CASE m = n
    BY <1>1, <1>2, <1>5, <2>1 DEF StampedLeaf
  <2>2. CASE m # n
    BY <1>2, <1>4, <2>2 DEF IInv, Stamped, StampedLeaf
  <2>3. QED
    BY <2>1, <2>2
<1>7. Stamped'
  BY <1>2, <1>6 DEF IInv, Stamped, StampedCA, StampedLeaf, StampedToken, StampedReport,
                    Invited, Reported
<1>8. ASSUME NEW m \in Joined', since' - certs'[m].at > LeafLife + MaxSkew
      PROVE  m \notin open' /\ (m \in Reported' => reports'[m].at <= since')
  <2>1. CASE m = n
    <3>1. certs'[m].at = elapsed /\ since' = since /\ since \in 0..elapsed /\ elapsed \in Nat
          /\ LeafLife \in Nat /\ MaxSkew \in Nat
      BY <1>1, <1>2, <1>5, <2>1, ValidityAssumption DEF IInv, TypeOK
    <3>2. QED
      BY <1>8, <3>1
  <2>2. CASE m # n
    BY <1>2, <1>4, <1>8, <2>2 DEF IInv, Silenced, Reported
  <2>3. QED
    BY <2>1, <2>2
<1>9. QED
  BY <1>3, <1>7, <1>8 DEF IInv, Silenced

LEMMA ReportKeepsIInv ==
    ASSUME IInv, NEW n \in Nodes, Report(n)
    PROVE  IInv'
<1> DEFINE seen == [clock |-> Clock(Server), at |-> elapsed]
<1>1. /\ Clock(Server) \in Nat
      /\ elapsed <= Clock(Server) /\ Clock(Server) <= elapsed + MaxSkew
      /\ elapsed \in Nat
  BY ClockBounds DEF IInv, TypeOK, Hosts
<1>2. seen \in Seen /\ StampedReport(seen)
  BY <1>1 DEF Seen, StampedReport
<1>3. /\ n \in open
      /\ reports' = [reports EXCEPT ![n] = seen]
      /\ UNCHANGED <<elapsed, ahead, ca, serverCert, adminCert, tokens, certs, open, since>>
  BY DEF Report, NodeOnly
<1> HIDE DEF seen
<1>4. TypeOK'
  BY <1>2, <1>3 DEF IInv, TypeOK
<1>5. ASSUME NEW m \in Reported', m # n
      PROVE  m \in Reported /\ reports'[m] = reports[m]
  BY <1>3, <1>5 DEF IInv, TypeOK, Reported
<1>6. ASSUME NEW m \in Reported' PROVE StampedReport(reports[m])'
  <2>1. CASE m = n
    BY <1>2, <1>3, <2>1 DEF IInv, TypeOK, StampedReport
  <2>2. CASE m # n
    BY <1>3, <1>5, <2>2 DEF IInv, Stamped, StampedReport
  <2>3. QED
    BY <2>1, <2>2
<1>7. Stamped'
  BY <1>3, <1>6 DEF IInv, Stamped, StampedCA, StampedLeaf, StampedToken, Joined, Invited
<1>8. ASSUME NEW m \in Joined', since' - certs'[m].at > LeafLife + MaxSkew
      PROVE  m \notin open' /\ (m \in Reported' => reports'[m].at <= since')
  <2>1. m \in Joined /\ m \notin open /\ (m \in Reported => reports[m].at <= since)
    BY <1>3, <1>8 DEF IInv, Silenced, Joined
  <2>2. m # n
    BY <1>3, <2>1
  <2>3. QED
    BY <1>3, <1>5, <2>1, <2>2
<1>9. QED
  BY <1>4, <1>7, <1>8 DEF IInv, Silenced

LEMMA NextIInv == IInv /\ [Next]_vars => IInv'
<1> SUFFICES ASSUME IInv, [Next]_vars PROVE IInv'
  OBVIOUS
<1>1. CASE \/ Tick \/ (\E h \in Hosts : SetClock(h)) \/ RestartServer
           \/ (\E n \in Nodes : Connect(n) \/ Disconnect(n)) \/ UNCHANGED vars
  BY <1>1, ClockStepsKeepIInv
<1>2. CASE \E n \in Nodes : CreateToken(n)
  BY <1>2, CreateTokenKeepsIInv
<1>3. CASE \E n \in Nodes : Join(n)
  BY <1>3, JoinKeepsIInv
<1>4. CASE \E n \in Nodes : Report(n)
  BY <1>4, ReportKeepsIInv
<1>5. QED
  BY <1>1, <1>2, <1>3, <1>4 DEF Next

LEMMA SpecIInv == Spec => []IInv
BY InitIInv, NextIInv, PTL DEF Spec

----------------------------------------------------------------------------
(* Clocks, certificates, tokens and reports keep their types: the dates of  *)
(* ca.go, of tokens.go and of LastSeenAt.                                   *)
THEOREM ValidityTypeOK == Spec => []TypeOK
<1>1. IInv => TypeOK
  BY DEF IInv
<1>2. QED
  BY <1>1, SpecIInv, PTL

(* A certificate that is young by every clock is accepted on all of them,   *)
(* if its CA is.                                                            *)
LEMMA YoungLeafIsValid ==
    ASSUME TypeOK, StampedCA, NEW c \in Certificate, StampedLeaf(c), NEW h \in Hosts,
           elapsed - ca.at + MaxSkew < CALife, elapsed - c.at + MaxSkew <= LeafLife
    PROVE  Accepts(h, c)
<1>1. /\ Clock(h) \in Nat /\ elapsed <= Clock(h) /\ Clock(h) <= elapsed + MaxSkew
      /\ elapsed \in Nat /\ MaxSkew \in Nat /\ LeafLife \in Nat /\ CALife \in Nat
  BY ClockBounds, ValidityAssumption DEF TypeOK
<1>2. /\ c.from \in Int /\ c.until \in Int /\ c.at \in Nat
      /\ ca.from \in Int /\ ca.until \in Int /\ ca.at \in Nat
  BY DEF TypeOK, Certificate
<1>3. ValidAt(ca, Clock(h))
  BY <1>1, <1>2 DEF StampedCA, ValidAt
<1>4. ValidAt(c, Clock(h))
  BY <1>1, <1>2, <1>3 DEF StampedLeaf, ValidAt
<1>5. QED
  BY <1>3, <1>4 DEF Accepts

(* However the clocks are set within five minutes of each other, nothing    *)
(* that was just issued is refused: the dates of ca.go, tokens.go, node.go. *)
THEOREM ValidityYoungIsAccepted == Spec => []YoungIsAccepted
<1>1. IInv => YoungIsAccepted
  <2> SUFFICES ASSUME IInv PROVE YoungIsAccepted
    OBVIOUS
  <2>1. /\ TypeOK /\ StampedCA /\ StampedLeaf(serverCert) /\ StampedLeaf(adminCert)
        /\ serverCert \in Certificate /\ adminCert \in Certificate
    BY DEF IInv, Stamped, TypeOK
  <2>2. /\ Clock(Server) \in Nat
        /\ elapsed <= Clock(Server) /\ Clock(Server) <= elapsed + MaxSkew
        /\ elapsed \in Nat /\ MaxSkew \in Nat
        /\ CALife \in Nat /\ TokenTTL \in Nat /\ HeartbeatMaxAge \in Nat
    BY <2>1, ClockBounds, ValidityAssumption DEF Hosts, TypeOK
  <2>3. ASSUME Age(ca) + MaxSkew < CALife, Age(serverCert) + MaxSkew <= LeafLife,
               NEW n \in Joined, Age(certs[n]) + MaxSkew <= LeafLife
        PROVE  Handshake(n, certs[n])
    <3>1. certs[n] \in Certificate /\ StampedLeaf(certs[n])
      BY DEF IInv, Stamped, TypeOK, Joined
    <3>2. Accepts(n, serverCert)
      BY <2>1, <2>3, YoungLeafIsValid DEF Age, Hosts, Joined
    <3>3. Accepts(Server, certs[n])
      BY <2>1, <2>3, <3>1, YoungLeafIsValid DEF Age, Hosts
    <3>4. QED
      BY <3>2, <3>3 DEF Handshake
  <2>4. ASSUME Age(ca) + MaxSkew < CALife, Age(adminCert) + MaxSkew <= LeafLife,
               Age(serverCert) + MaxSkew <= LeafLife
        PROVE  Handshake(Admin, adminCert)
    <3>1. Accepts(Admin, serverCert) /\ Accepts(Server, adminCert)
      BY <2>1, <2>4, YoungLeafIsValid DEF Age, Hosts
    <3>2. QED
      BY <3>1 DEF Handshake
  <2>5. ASSUME Age(ca) + MaxSkew < CALife, Age(serverCert) + MaxSkew <= LeafLife,
               NEW n \in Invited, Age(tokens[n]) + MaxSkew < TokenTTL
        PROVE  MayJoin(n)
    <3>1. Accepts(n, serverCert)
      BY <2>1, <2>5, YoungLeafIsValid DEF Age, Hosts, Invited
    <3>2. StampedToken(tokens[n]) /\ tokens[n].until \in Int /\ tokens[n].at \in Nat
      BY DEF IInv, Stamped, TypeOK, Invited, Token
    <3>3. ~Expired(tokens[n])
      BY <2>2, <2>5, <3>2 DEF Expired, StampedToken, Age
    <3>4. /\ ca.from \in Int /\ ca.until \in Int /\ ca.at \in Nat
      BY <2>1 DEF TypeOK, Certificate
    <3>5. MayIssue(Clock(Server))
      BY <2>1, <2>2, <2>5, <3>4 DEF MayIssue, StampedCA, Age
    <3>6. QED
      BY <3>1, <3>3, <3>5 DEF MayJoin
  <2>6. ASSUME NEW n \in Reported, Age(reports[n]) + MaxSkew < HeartbeatMaxAge
        PROVE  IsReachable(n)
    <3>1. StampedReport(reports[n]) /\ reports[n].clock \in Int /\ reports[n].at \in Nat
      BY DEF IInv, Stamped, TypeOK, Reported, Seen
    <3>2. QED
      BY <2>2, <2>6, <3>1 DEF IsReachable, StampedReport, Age, Reported
  <2>7. QED
    BY <2>3, <2>4, <2>5, <2>6 DEF YoungIsAccepted
<1>2. QED
  BY <1>1, SpecIInv, PTL

(* However the clocks are set, nothing outlives its life by more than the   *)
(* skew: certificates, tokens and the last report of a silent node.         *)
THEOREM ValidityOldIsRefused == Spec => []OldIsRefused
<1>1. IInv => OldIsRefused
  <2> SUFFICES ASSUME IInv PROVE OldIsRefused
    OBVIOUS
  <2>1. /\ Clock(Server) \in Nat /\ elapsed <= Clock(Server)
        /\ elapsed \in Nat /\ MaxSkew \in Nat
        /\ CALife \in Nat /\ LeafLife \in Nat /\ TokenTTL \in Nat /\ HeartbeatMaxAge \in Nat
    BY ClockBounds, ValidityAssumption DEF IInv, Hosts, TypeOK
  <2>2. ASSUME NEW n \in Joined,
               Age(certs[n]) > LeafLife + MaxSkew \/ Age(ca) > CALife + MaxSkew
        PROVE  ~Handshake(n, certs[n])
    <3>1. /\ StampedLeaf(certs[n]) /\ certs[n].until \in Int /\ certs[n].at \in Nat
          /\ StampedCA /\ ca.until \in Int /\ ca.at \in Nat
      BY DEF IInv, Stamped, TypeOK, Joined, Certificate
    <3>2. Clock(Server) > certs[n].until \/ Clock(Server) > ca.until
      BY <2>1, <2>2, <3>1 DEF StampedLeaf, StampedCA, Age
    <3>3. QED
      BY <2>1, <3>1, <3>2 DEF Handshake, Accepts, ValidAt
  <2>3. ASSUME NEW n \in Invited, Age(tokens[n]) >= TokenTTL + MaxSkew
        PROVE  ~MayJoin(n)
    <3>1. StampedToken(tokens[n]) /\ tokens[n].until \in Int /\ tokens[n].at \in Nat
      BY DEF IInv, Stamped, TypeOK, Invited, Token
    <3>2. QED
      BY <2>1, <2>3, <3>1 DEF MayJoin, Expired, StampedToken, Age
  <2>4. ASSUME NEW n \in Reported, Age(reports[n]) >= HeartbeatMaxAge + MaxSkew
        PROVE  ~IsReachable(n)
    <3>1. StampedReport(reports[n]) /\ reports[n].clock \in Int /\ reports[n].at \in Nat
      BY DEF IInv, Stamped, TypeOK, Reported, Seen
    <3>2. QED
      BY <2>1, <2>4, <3>1 DEF IsReachable, StampedReport, Age
  <2>5. QED
    BY <2>2, <2>3, <2>4 DEF OldIsRefused
<1>2. QED
  BY <1>1, SpecIInv, PTL

(* A restart of the server ends what an open connection kept alive past its *)
(* certificate (middleware.go looks only at the handshake's chain).         *)
THEOREM ValidityExpiredNodeIsGone == Spec => []ExpiredNodeIsGone
<1>1. IInv => ExpiredNodeIsGone
  <2> SUFFICES ASSUME IInv, NEW n \in Joined,
                      since - certs[n].at > LeafLife + MaxSkew,
                      elapsed - since >= HeartbeatMaxAge + MaxSkew
               PROVE  ~IsReachable(n)
    BY DEF ExpiredNodeIsGone
  <2>1. CASE n \notin Reported
    BY <2>1 DEF IsReachable, Reported, Joined
  <2>2. CASE n \in Reported
    <3>1. /\ StampedReport(reports[n]) /\ reports[n].clock \in Int /\ reports[n].at \in Nat
          /\ reports[n].at <= since
      BY <2>2 DEF IInv, Stamped, Silenced, TypeOK, Reported, Seen
    <3>2. /\ Clock(Server) \in Nat /\ elapsed <= Clock(Server)
          /\ elapsed \in Nat /\ since \in Nat /\ MaxSkew \in Nat /\ HeartbeatMaxAge \in Nat
      BY ClockBounds, ValidityAssumption DEF IInv, Hosts, TypeOK
    <3>3. QED
      BY <3>1, <3>2 DEF IsReachable, StampedReport
  <2>3. QED
    BY <2>1, <2>2
<1>2. QED
  BY <1>1, SpecIInv, PTL
============================================================================
