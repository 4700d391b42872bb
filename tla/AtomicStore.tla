---------------------------- MODULE AtomicStore ----------------------------
(***************************************************************************)
(* What the callers of internal/store rely on: a transaction, and a call   *)
(* of a method of Collection, happens at one moment between its call and   *)
(* its return, on the entries of that moment, wholly or, if it returns an  *)
(* error, not at all; and what has happened survives the process.          *)
(***************************************************************************)
EXTENDS Naturals, Sequences

CONSTANTS
    Clients,        \* goroutines that use the store
    Keys, Values,
    Change,         \* what a caller makes of a value, None where it refuses
    Scripts,        \* what callers do in one transaction: sequences of operations
    None,           \* no entry, no value
    Unreadable      \* an entry that cannot be decoded as the type it is read as

Contents == [Keys -> Values \cup {Unreadable, None}]

VARIABLES
    db,             \* the entries
    call,           \* what a client has called, or None
    answer          \* what it will be told, or None

vars == <<db, call, answer>>

Nothing == [err |-> "ok", got |-> None, listed |-> None]

Init ==
    /\ db \in Contents
    /\ call = [c \in Clients |-> None]
    /\ answer = [c \in Clients |-> None]

----------------------------------------------------------------------------
(* A transaction as a function of the entries. *)

(* What op comes to on s: "ok" or an error.  An update writes what its       *)
(* caller makes of the value it got.                                        *)
New(s, op) ==
    CASE op.op = "create" -> op.value
      [] op.op = "update" -> Change[s.out.got]
      [] op.op = "modify" -> Change[s.db[op.key]]
      [] op.op = "delete" -> None

Error(s, op) ==
    IF op.op = "create" /\ s.db[op.key] # None THEN "exists"
    ELSE IF op.op \in {"get", "update", "modify"} /\ s.db[op.key] = None THEN "not found"
    ELSE IF \/ op.op \in {"get", "modify"} /\ s.db[op.key] = Unreadable
            \/ op.op = "list" /\ \E k \in Keys : s.db[k] = Unreadable
         THEN "not decoded"
    ELSE IF op.op \in {"update", "modify"} /\ New(s, op) = None THEN "refused"
    ELSE "ok"

(* op on the entries and the outcome so far of s. *)
Then(s, op) ==
    IF s.out.err # "ok" THEN s
    ELSE IF Error(s, op) # "ok" THEN [s EXCEPT !.out.err = Error(s, op)]
    ELSE CASE op.op = "get" -> [s EXCEPT !.out.got = s.db[op.key]]
           [] op.op = "list" -> [s EXCEPT !.out.listed = s.db]
           [] OTHER -> [s EXCEPT !.db[op.key] = New(s, op)]

Run(script, contents) ==
    LET after[i \in 0..Len(script)] ==
          IF i = 0 THEN [db |-> contents, out |-> Nothing]
          ELSE Then(after[i - 1], script[i])
    IN  after[Len(script)]

----------------------------------------------------------------------------

Call(c) ==
    /\ call[c] = None
    /\ \E s \in Scripts : call' = [call EXCEPT ![c] = s]
    /\ UNCHANGED <<db, answer>>

Execute(c) ==
    /\ call[c] # None
    /\ answer[c] = None
    /\ LET r == Run(call[c], db)
       IN  /\ answer' = [answer EXCEPT ![c] = r.out]
           /\ db' = IF r.out.err = "ok" THEN r.db ELSE db
    /\ UNCHANGED call

(* The store is closed, or the disk does not take the changes. *)
Fail(c) ==
    /\ call[c] # None
    /\ answer[c] = None
    /\ answer' = [answer EXCEPT ![c] = [Nothing EXCEPT !.err = "failed"]]
    /\ UNCHANGED <<db, call>>

Return(c) ==
    /\ answer[c] # None
    /\ call' = [call EXCEPT ![c] = None]
    /\ answer' = [answer EXCEPT ![c] = None]
    /\ UNCHANGED db

Crash ==
    /\ call' = [c \in Clients |-> None]
    /\ answer' = [c \in Clients |-> None]
    /\ UNCHANGED db

Next ==
    \/ \E c \in Clients : Call(c) \/ Execute(c) \/ Fail(c) \/ Return(c)
    \/ Crash

Safety == Init /\ [][Next]_vars
============================================================================
