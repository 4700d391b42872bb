----------------------------- MODULE ServerInit -----------------------------
(***************************************************************************)
(* hambo-server init (cmd/hambo-server/init.go): a run generates a CA, a   *)
(* server certificate and the administrator's configuration in memory and  *)
(* then creates five files, each with O_EXCL.  When a file is in the way   *)
(* or a write fails, the run removes what it has created, by path.  Runs   *)
(* may be concurrent, may be killed at any point, and an operator may      *)
(* delete the pki directory to start over.                                 *)
(*                                                                         *)
(* A file stands for the run that created it and whether its contents are  *)
(* complete; MkdirAll is left out.                                         *)
(***************************************************************************)
EXTENDS Naturals, Sequences

CONSTANTS
    Runs,           \* runs of hambo-server init
    NoFile,           \* no such file
    MaxOperator     \* bound: how often the operator starts over

ASSUME ServerInitAssumption ==
    /\ NoFile \notin [owner : Runs, whole : BOOLEAN]
    /\ MaxOperator \in Nat

VARIABLES
    files,          \* what is at a path: a file or NoFile
    pc,             \* what a run does next
    position,       \* the file a run is at, an index of Order
    undo,           \* paths a failing run has still to remove
    unremoved,      \* runs whose error says that a clean-up failed
    operator        \* how often the operator has started over

runVars == <<files, pc, position, undo, unremoved, operator>>

(* The order of ca.Save, serverCert.Save and cliconfig.Save. *)
Order == <<"ca.crt", "ca.key", "server.crt", "server.key", "admin.yaml">>
Paths == {Order[i] : i \in 1..5}
PKI == Paths \ {"admin.yaml"}

CAPair == <<"ca.crt", "ca.key">>
ServerPair == <<"server.crt", "server.key">>

Mine(r, f) == files[f] # NoFile /\ files[f].owner = r

RunsInit ==
    /\ files = [f \in Paths |-> NoFile]
    /\ pc = [r \in Runs |-> "create"]
    /\ position = [r \in Runs |-> 1]
    /\ undo = [r \in Runs |-> <<>>]
    /\ unremoved = {}
    /\ operator = 0

----------------------------------------------------------------------------
(* What a run removes when it fails at file i: the save that fails removes  *)
(* its own file, if it has created it, and the certificate before a key;    *)
(* then the deferred functions remove the pairs that were saved, the last   *)
(* one first.                                                               *)

SaveUndo(i, created) ==
    (IF created THEN <<Order[i]>> ELSE <<>>)
    \o (IF i \in {2, 4} THEN <<Order[i - 1]>> ELSE <<>>)

\* Faulty: each clean-up is deferred before the save it belongs to.
Deferred_BeforeSave(i) ==
    CASE i \in {1, 2} -> CAPair
      [] i \in {3, 4} -> ServerPair \o CAPair
      [] i = 5 -> ServerPair \o CAPair

\* Faulty: only the CA is removed.
Deferred_CAOnly(i) ==
    IF i \in {1, 2} THEN <<>> ELSE CAPair

\* Faulty: the deferred functions run in the order they were deferred in.
Deferred_FirstFirst(i) ==
    CASE i \in {1, 2} -> <<>>
      [] i \in {3, 4} -> CAPair
      [] i = 5 -> CAPair \o ServerPair

Deferred(i) ==
    CASE i \in {1, 2} -> <<>>
      [] i \in {3, 4} -> CAPair
      [] i = 5 -> ServerPair \o CAPair

Fail(r, created) ==
    /\ pc' = [pc EXCEPT ![r] = "undo"]
    /\ undo' = [undo EXCEPT ![r] = SaveUndo(position[r], created) \o Deferred(position[r])]
    /\ UNCHANGED position

(* MkdirAll, and OpenFile with O_CREATE and O_EXCL: it fails if there is a  *)
(* file, and may fail for reasons of the file system.                       *)
CreateFile(r) ==
    /\ pc[r] = "create"
    /\ LET f == Order[position[r]]
       IN  \/ /\ files[f] = NoFile
              /\ files' = [files EXCEPT ![f] = [owner |-> r, whole |-> FALSE]]
              /\ pc' = [pc EXCEPT ![r] = "write"]
              /\ UNCHANGED <<position, undo>>
           \/ /\ Fail(r, FALSE)
              /\ UNCHANGED files
    /\ UNCHANGED <<unremoved, operator>>

(* A write goes to the file that r has opened, whatever is at its path now. *)
Written(r, f) ==
    IF Mine(r, f) THEN [files EXCEPT ![f].whole = TRUE] ELSE files

(* Write and Close, and on to the next file. *)
WriteFile(r) ==
    /\ pc[r] = "write"
    /\ files' = Written(r, Order[position[r]])
    /\ IF position[r] = 5
       THEN /\ pc' = [pc EXCEPT ![r] = "ok"]
            /\ UNCHANGED position
       ELSE /\ pc' = [pc EXCEPT ![r] = "create"]
            /\ position' = [position EXCEPT ![r] = @ + 1]
    /\ UNCHANGED <<undo, unremoved, operator>>

WriteFails(r) ==
    /\ pc[r] = "write"
    /\ Fail(r, TRUE)
    /\ UNCHANGED <<files, unremoved, operator>>

(* os.Remove: the path, whatever is there. *)
RemoveFile(r) ==
    /\ pc[r] = "undo"
    /\ undo[r] # <<>>
    /\ files' = [files EXCEPT ![Head(undo[r])] = NoFile]
    /\ undo' = [undo EXCEPT ![r] = Tail(@)]
    /\ UNCHANGED <<pc, position, unremoved, operator>>

(* An error other than that the file is not there: the run goes on with the *)
(* next file and adds it to what it reports.                                *)
RemoveFails(r) ==
    /\ pc[r] = "undo"
    /\ undo[r] # <<>>
    /\ undo' = [undo EXCEPT ![r] = Tail(@)]
    /\ unremoved' = unremoved \cup {r}
    /\ UNCHANGED <<files, pc, position, operator>>

ReportError(r) ==
    /\ pc[r] = "undo"
    /\ undo[r] = <<>>
    /\ pc' = [pc EXCEPT ![r] = "failed"]
    /\ UNCHANGED <<files, position, undo, unremoved, operator>>

(* The run is killed. *)
Kill(r) ==
    /\ pc[r] \in {"create", "write", "undo"}
    /\ pc' = [pc EXCEPT ![r] = "killed"]
    /\ UNCHANGED <<files, position, undo, unremoved, operator>>

Busy(r) == pc[r] \in {"create", "write", "undo"} /\ (pc[r] = "create" => position[r] # 1)

(* Somebody deletes the pki directory, while no run is on the way. *)
OperatorDeletesPKI ==
    /\ operator < MaxOperator
    /\ \A r \in Runs : ~Busy(r)
    /\ files' = [f \in Paths |-> IF f \in PKI THEN NoFile ELSE files[f]]
    /\ pc' = [r \in Runs |-> IF pc[r] = "ok" THEN "replaced" ELSE pc[r]]
    /\ operator' = operator + 1
    /\ UNCHANGED <<position, undo, unremoved>>

RunStep(r) ==
    \/ CreateFile(r) \/ WriteFile(r) \/ WriteFails(r)
    \/ RemoveFile(r) \/ RemoveFails(r) \/ ReportError(r)

RunsNext ==
    \/ \E r \in Runs : RunStep(r) \/ Kill(r)
    \/ OperatorDeletesPKI

RunsSpec == RunsInit /\ [][RunsNext]_runVars

----------------------------------------------------------------------------
(* Properties *)

RunsTypeOK ==
    /\ files \in [Paths -> [owner : Runs, whole : BOOLEAN] \cup {NoFile}]
    /\ pc \in [Runs -> {"create", "write", "undo", "ok", "failed", "killed",
                        "replaced"}]
    /\ position \in [Runs -> 1..5]
    /\ \A r \in Runs : Len(undo[r]) <= 5 /\ \A i \in 1..Len(undo[r]) : undo[r][i] \in Paths
    /\ unremoved \subseteq Runs
    /\ operator \in 0..MaxOperator

(* What a run that succeeded has written stays, whichever other runs start, *)
(* fail and clean up by path at the same time.                              *)
SuccessStays ==
    \A r \in Runs : pc[r] = "ok" => \A f \in Paths : Mine(r, f) /\ files[f].whole

(* A run that fails has left none of its files behind, or its error says so. *)
FailureLeavesNothing ==
    \A r \in Runs : pc[r] = "failed" => r \in unremoved \/ \A f \in Paths : ~Mine(r, f)

(* A complete server certificate and key on disk always come with the CA    *)
(* that signed them, also halfway through a clean-up and after a kill: the  *)
(* clean-up removes the CA last.  Only a clean-up that failed may part them. *)
ServerHasItsCA ==
    \A f \in {"server.crt", "server.key"} :
        files[f] # NoFile /\ files[f].owner \notin unremoved => \A g \in {"ca.crt", "ca.key"} :
            files[g] # NoFile /\ files[g].whole /\ files[g].owner = files[f].owner

============================================================================
