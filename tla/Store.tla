------------------------------- MODULE Store -------------------------------
(***************************************************************************)
(* internal/store: collections of JSON entries in bolt.  A caller runs a   *)
(* function in a write transaction (WriteTx) that uses the ...Tx methods,  *)
(* or calls a method of Collection, which is a transaction of its own.     *)
(*                                                                         *)
(* bolt is external: one write transaction at a time, on a copy of the     *)
(* pages that its commit makes the contents of the file in one step; a     *)
(* read transaction sees the contents at its start; an error returned by   *)
(* the function, or by the commit, drops the copy; Close waits for both.   *)
(* The process may end between any two steps.                              *)
(***************************************************************************)
EXTENDS Naturals, Sequences

CONSTANTS
    Clients,        \* goroutines that use the store
    Keys, Values,
    Initial,        \* the value that new entries have
    Change,         \* what a caller makes of a value, None where it refuses
    Functions,      \* what is passed to WriteTx: sequences of operations
    None,           \* no entry, no value, no client
    Unreadable      \* an entry that cannot be decoded as the type it is read as

VARIABLES
    disk,           \* the committed contents
    isOpen,         \* the database is open
    writer,         \* the client whose write transaction runs, or None
    draft,          \* the contents as that transaction sees them, or None
    snapshot,       \* what the read transaction of a client sees, or None
    call,           \* the operations of the function a client runs, or None
    pos,            \* how many of them it has done
    err, got, listed,   \* what they have returned so far
    answer          \* what the transaction has returned, or None

local == <<pos, err, got, listed>>
storeVars == <<disk, isOpen, writer, draft, snapshot, call, local, answer>>

(* The methods of Collection: transactions of one operation. *)
Create(k) == <<[op |-> "create", key |-> k, value |-> Initial]>>
Get(k)    == <<[op |-> "get", key |-> k]>>
Modify(k) == <<[op |-> "modify", key |-> k]>>
Delete(k) == <<[op |-> "delete", key |-> k]>>
List      == <<[op |-> "list"]>>

(* Get and List are a View each, everything else is an Update. *)
Views == {Get(k) : k \in Keys} \cup {List}
Updates == {Create(k) : k \in Keys} \cup {Modify(k) : k \in Keys}
           \cup {Delete(k) : k \in Keys} \cup Functions

\* An entry stored as another type by an earlier version cannot be decoded.
Contents == [Keys -> Values \cup {Unreadable, None}]

\* What a function calls in its transaction: the ...Tx methods.
Operation ==
    [op : {"create"}, key : Keys, value : Values]
    \cup [op : {"get", "update", "modify", "delete"}, key : Keys]
    \cup [op : {"list"}]

\* The errors of the package, of the caller's change and of bolt.
Errors == {"exists", "not found", "not decoded", "refused", "failed"}
Answer == [err : Errors \cup {"ok"}, got : Values \cup {None}, listed : Contents \cup {None}]

(* Every function that calls UpdateTx has called GetTx before: it writes    *)
(* back what it has read (scheduler.go:69-138, nodes.go:113-176, 403-462).  *)
ASSUME StoreAssumption ==
    /\ None \notin Clients \cup Values \cup {Unreadable}
    /\ None \notin Contents /\ None \notin Views \cup Updates
    /\ Unreadable \notin Values
    /\ Initial \in Values
    /\ Change \in [Values -> Values \cup {None}]
    /\ Functions \subseteq Seq(Operation)
    /\ \A f \in Functions : \A i \in DOMAIN f :
          f[i].op = "update" => \E j \in 1..(i - 1) : f[j].op = "get"

InTx(c) == writer = c \/ snapshot[c] # None

StoreInit ==
    /\ disk \in Contents
    /\ isOpen = TRUE
    /\ writer = None
    /\ draft = None
    /\ snapshot = [c \in Clients |-> None]
    /\ call = [c \in Clients |-> None]
    /\ pos = [c \in Clients |-> 0]
    /\ err = [c \in Clients |-> "ok"]
    /\ got = [c \in Clients |-> None]
    /\ listed = [c \in Clients |-> None]
    /\ answer = [c \in Clients |-> None]

----------------------------------------------------------------------------
(* Transactions. *)

Call(c) ==
    /\ call[c] = None
    /\ \E script \in Views \cup Updates : call' = [call EXCEPT ![c] = script]
    /\ UNCHANGED <<disk, isOpen, writer, draft, snapshot, local, answer>>

Waits(c) == call[c] # None /\ answer[c] = None /\ ~InTx(c)

(* bolt: Begin of a write transaction, on the newest contents. *)
BeginUpdate(c) ==
    /\ Waits(c)
    /\ call[c] \in Updates
    /\ isOpen
    /\ writer = None
    /\ writer' = c
    /\ draft' = disk
    /\ UNCHANGED <<disk, isOpen, snapshot, call, local, answer>>

BeginView(c) ==
    /\ Waits(c)
    /\ call[c] \in Views
    /\ isOpen
    /\ snapshot' = [snapshot EXCEPT ![c] = disk]
    /\ UNCHANGED <<disk, isOpen, writer, draft, call, local, answer>>

(* The database is not open. *)
BeginFails(c) ==
    /\ Waits(c)
    /\ ~isOpen
    /\ answer' = [answer EXCEPT ![c] = [err |-> "failed", got |-> None, listed |-> None]]
    /\ UNCHANGED <<disk, isOpen, writer, draft, snapshot, call, local>>

(* The function's variables end with it. *)
Forgets(c) ==
    /\ pos' = [pos EXCEPT ![c] = 0]
    /\ err' = [err EXCEPT ![c] = "ok"]
    /\ got' = [got EXCEPT ![c] = None]
    /\ listed' = [listed EXCEPT ![c] = None]

Returns(c, e) ==
    /\ answer' = [answer EXCEPT ![c] =
                      [err |-> e, got |-> IF e = "failed" THEN None ELSE got[c],
                       listed |-> IF e = "failed" THEN None ELSE listed[c]]]
    /\ Forgets(c)

Ended(c) == err[c] # "ok" \/ pos[c] = Len(call[c])

(* The function has returned nil: bolt commits. *)
Commit(c) ==
    /\ writer = c
    /\ Ended(c) /\ err[c] = "ok"
    /\ disk' = draft
    /\ writer' = None
    /\ draft' = None
    /\ Returns(c, "ok")
    /\ UNCHANGED <<isOpen, snapshot, call>>

CommitFails(c) ==
    /\ writer = c
    /\ Ended(c) /\ err[c] = "ok"
    /\ writer' = None
    /\ draft' = None
    /\ Returns(c, "failed")
    /\ UNCHANGED <<disk, isOpen, snapshot, call>>

\* Faulty: the function handles its error and returns nil to bolt.
Rollback_Commits(c) ==
    /\ writer = c
    /\ err[c] # "ok"
    /\ disk' = draft
    /\ writer' = None
    /\ draft' = None
    /\ Returns(c, err[c])
    /\ UNCHANGED <<isOpen, snapshot, call>>

\* Faulty: a transaction begun by hand that nobody rolls back on an error.
Rollback_LeavesOpen(c) ==
    /\ writer = c
    /\ err[c] # "ok"
    /\ writer' = "nobody"
    /\ draft' = None
    /\ Returns(c, err[c])
    /\ UNCHANGED <<disk, isOpen, snapshot, call>>

(* The function has returned an error. *)
Rollback(c) ==
    /\ writer = c
    /\ err[c] # "ok"
    /\ writer' = None
    /\ draft' = None
    /\ Returns(c, err[c])
    /\ UNCHANGED <<disk, isOpen, snapshot, call>>

EndView(c) ==
    /\ snapshot[c] # None
    /\ Ended(c)
    /\ snapshot' = [snapshot EXCEPT ![c] = None]
    /\ Returns(c, err[c])
    /\ UNCHANGED <<disk, isOpen, writer, draft, call>>

Return(c) ==
    /\ answer[c] # None
    /\ call' = [call EXCEPT ![c] = None]
    /\ answer' = [answer EXCEPT ![c] = None]
    /\ UNCHANGED <<disk, isOpen, writer, draft, snapshot, local>>

----------------------------------------------------------------------------
(* The operations of a function in its transaction. *)

At(c, op) == ~Ended(c) /\ call[c][pos[c] + 1].op = op

Key(c) == call[c][pos[c] + 1].key
Value(c) == call[c][pos[c] + 1].value

Advances(c) == pos' = [pos EXCEPT ![c] = @ + 1]

Errs(c, e) ==
    /\ err' = [err EXCEPT ![c] = e]
    /\ UNCHANGED <<draft, got>>

Puts(k, v) ==
    /\ draft' = [draft EXCEPT ![k] = v]
    /\ UNCHANGED <<err, got>>

CreateTx(c) ==
    /\ writer = c
    /\ At(c, "create")
    /\ \/ draft[Key(c)] # None /\ Errs(c, "exists")
       \/ draft[Key(c)] = None /\ Puts(Key(c), Value(c))
    /\ Advances(c)
    /\ UNCHANGED <<disk, isOpen, writer, snapshot, call, listed, answer>>

UpdateTx(c) ==
    /\ writer = c
    /\ At(c, "update")
    /\ \/ draft[Key(c)] = None /\ Errs(c, "not found")
       \/ /\ draft[Key(c)] # None
          /\ \/ Change[got[c]] = None /\ Errs(c, "refused")
             \/ Change[got[c]] # None /\ Puts(Key(c), Change[got[c]])
    /\ Advances(c)
    /\ UNCHANGED <<disk, isOpen, writer, snapshot, call, listed, answer>>

ModifyTx(c) ==
    /\ writer = c
    /\ At(c, "modify")
    /\ LET old == draft[Key(c)]
       IN  \/ old = None /\ Errs(c, "not found")
           \/ old = Unreadable /\ Errs(c, "not decoded")
           \/ old \in Values /\ Change[old] = None /\ Errs(c, "refused")
           \/ old \in Values /\ Change[old] # None /\ Puts(Key(c), Change[old])
    /\ Advances(c)
    /\ UNCHANGED <<disk, isOpen, writer, snapshot, call, listed, answer>>

(* Deleting what is not there is no error. *)
DeleteTx(c) ==
    /\ writer = c
    /\ At(c, "delete")
    /\ Puts(Key(c), None)
    /\ Advances(c)
    /\ UNCHANGED <<disk, isOpen, writer, snapshot, call, listed, answer>>

(* What the transaction of c sees. *)
View(c) == IF writer = c THEN draft ELSE snapshot[c]

GetTx(c) ==
    /\ InTx(c)
    /\ At(c, "get")
    /\ LET value == View(c)[Key(c)]
       IN  \/ value = None /\ Errs(c, "not found")
           \/ value = Unreadable /\ Errs(c, "not decoded")
           \/ /\ value \in Values
              /\ got' = [got EXCEPT ![c] = value]
              /\ UNCHANGED <<draft, err>>
    /\ Advances(c)
    /\ UNCHANGED <<disk, isOpen, writer, snapshot, call, listed, answer>>

(* One entry that cannot be decoded fails the whole list. *)
ListTx(c) ==
    /\ InTx(c)
    /\ At(c, "list")
    /\ \/ /\ \E k \in Keys : View(c)[k] = Unreadable
          /\ Errs(c, "not decoded")
          /\ UNCHANGED listed
       \/ /\ \A k \in Keys : View(c)[k] # Unreadable
          /\ listed' = [listed EXCEPT ![c] = View(c)]
          /\ UNCHANGED <<draft, err, got>>
    /\ Advances(c)
    /\ UNCHANGED <<disk, isOpen, writer, snapshot, call, answer>>

----------------------------------------------------------------------------
(* The database. *)

Close ==
    /\ isOpen
    /\ \A c \in Clients : ~InTx(c)
    /\ isOpen' = FALSE
    /\ UNCHANGED <<disk, writer, draft, snapshot, call, local, answer>>

(* The process ends, wherever its goroutines are, and another one opens the *)
(* file: what was not committed is gone.                                    *)
Open ==
    /\ isOpen' = TRUE
    /\ writer' = None
    /\ snapshot' = [c \in Clients |-> None]
    /\ call' = [c \in Clients |-> None]
    /\ answer' = [c \in Clients |-> None]
    /\ draft' = None
    /\ pos' = [c \in Clients |-> 0]
    /\ err' = [c \in Clients |-> "ok"]
    /\ got' = [c \in Clients |-> None]
    /\ listed' = [c \in Clients |-> None]
    /\ UNCHANGED disk

----------------------------------------------------------------------------
Step(c) ==
    \/ CreateTx(c) \/ GetTx(c) \/ UpdateTx(c) \/ ModifyTx(c) \/ DeleteTx(c) \/ ListTx(c)
    \/ Commit(c) \/ CommitFails(c) \/ Rollback(c)
    \/ BeginView(c) \/ BeginFails(c) \/ EndView(c) \/ Return(c)

StoreNext ==
    \/ \E c \in Clients : Call(c) \/ BeginUpdate(c) \/ Step(c)
    \/ Close \/ Open

(* Goroutines run on, and the mutex of bolt's writers starves nobody.       *)
StoreFairness ==
    \A c \in Clients : WF_storeVars(Step(c)) /\ SF_storeVars(BeginUpdate(c))

StoreSpec == StoreInit /\ [][StoreNext]_storeVars /\ StoreFairness

----------------------------------------------------------------------------
(* Properties *)

R == INSTANCE AtomicStore WITH db <- disk, Scripts <- Views \cup Updates

(* Get and List happen when they begin: their answer is decided then. *)
Told == [c \in Clients |->
            IF snapshot[c] # None THEN R!Run(call[c], snapshot[c]).out ELSE answer[c]]

A == INSTANCE AtomicStore WITH db <- disk, Scripts <- Views \cup Updates, answer <- Told

(* Every transaction, and every call of a method of Collection, happens at  *)
(* one moment between its call and its return, wholly or not at all: no     *)
(* other transaction comes between what one reads and what it then writes,  *)
(* an error after a write (collection.go, tx.go) takes the write back, and  *)
(* the end of the process loses and revives nothing.                        *)
ImplementsAtomicStore == A!Safety

(* No transaction waits for ever: each one that begins ends, on its errors  *)
(* too (WriteTx, tx.go:10-17), and so lets the next writer in.              *)
EveryCallReturns == \A c \in Clients : call[c] # None ~> call[c] = None
============================================================================
