------------------------- MODULE HamboServerProofs -------------------------
(***************************************************************************)
(* Theorems about hambo-server: the command init for any runs of it, the   *)
(* command serve for any requests, and the store for any goroutines and    *)
(* functions.  The three share no state.                                   *)
(*                                                                         *)
(* init: what a failing run removes is, at any moment, exactly what it     *)
(* still has on disk (Undoing), and until then it has created the files    *)
(* of Order up to the one it is at (Creating).  The two together say that  *)
(* a removal by path never hits the file of another run, and the order of  *)
(* the list says that the CA goes last.                                    *)
(*                                                                         *)
(* serve: run stops its parts in order (InOrder).                          *)
(*                                                                         *)
(* The store: in a transaction, a function that has done some operations   *)
(* sees what they come to from the contents that it began with (Inside),   *)
(* which is still what is on disk if it writes.                            *)
(***************************************************************************)
EXTENDS ServerInit, ServeLifecycle, Store, WellFoundedInduction, TLAPS

CAFiles == {"ca.crt", "ca.key"}
ServerFiles == {"server.crt", "server.key"}
Whole(r, f) == Mine(r, f) /\ files[f].whole

(* A run has written the files before the one it is at, and has created no  *)
(* file after it.                                                           *)
Creating ==
    \A r \in Runs : pc[r] \in {"create", "write"} => \A i \in 1..5 :
        /\ i < position[r] => Whole(r, Order[i])
        /\ i > position[r] => ~Mine(r, Order[i])
        /\ i = position[r] => (Mine(r, Order[i]) <=> pc[r] = "write")

(* What a run removes: no path twice, and nothing of the CA before anything *)
(* of the server's pair.                                                    *)
CleanUp(s) ==
    /\ s \in Seq(Paths) /\ Len(s) <= 5
    /\ \A i, j \in 1..Len(s) : s[i] = s[j] => i = j
    /\ \A i, j \in 1..Len(s) : i < j /\ s[i] \in CAFiles => s[j] \notin ServerFiles

Covers(r, s) == \A f \in Paths : Mine(r, f) => \E j \in 1..Len(s) : s[j] = f
Owns(r, s) == \A j \in 1..Len(s) : Mine(r, s[j])

(* A failing run removes its own files only, and has all of them on its     *)
(* list unless a removal has failed.                                        *)
Undoing ==
    \A r \in Runs : pc[r] = "undo" =>
        /\ CleanUp(undo[r])
        /\ Owns(r, undo[r])
        /\ r \notin unremoved => Covers(r, undo[r])

UndoType == undo \in [Runs -> Seq(Paths)]

RunsIInv ==
    /\ RunsTypeOK /\ UndoType
    /\ Creating /\ Undoing
    /\ SuccessStays /\ FailureLeavesNothing /\ ServerHasItsCA

----------------------------------------------------------------------------
(* The files of init.go, one by one.                                        *)
LEMMA OrderFacts ==
    /\ Paths = {"ca.crt", "ca.key", "server.crt", "server.key", "admin.yaml"}
    /\ Order[1] = "ca.crt" /\ Order[2] = "ca.key" /\ Order[3] = "server.crt"
    /\ Order[4] = "server.key" /\ Order[5] = "admin.yaml"
BY DEF Paths, Order

(* No file is created twice by one run.                                     *)
LEMMA OrderIsInjective ==
    \A i, j \in 1..5 : Order[i] \in Paths /\ (Order[i] = Order[j] => i = j)
BY DEF Paths, Order

(* Every path has its turn.                                                 *)
LEMMA PathsAreOrdered == \A f \in Paths : \E i \in 1..5 : f = Order[i]
BY DEF Paths

(* A removal by path hits a file of the run's own, and what it has still to *)
(* remove stays complete.                                                   *)
LEMMA RemoveFileKeeps ==
    ASSUME RunsIInv, NEW r \in Runs, RemoveFile(r)
    PROVE  RunsIInv'
<1>0. PICK s, h : s = undo[r] /\ h = Head(s)
  OBVIOUS
<1>1. /\ pc[r] = "undo" /\ s \in Seq(Paths) /\ s # <<>>
      /\ files' = [files EXCEPT ![h] = NoFile]
      /\ undo' = [undo EXCEPT ![r] = Tail(s)]
      /\ UNCHANGED <<pc, position, unremoved, operator>>
  BY <1>0 DEF RemoveFile, RunsIInv, UndoType
<1>2. CleanUp(s) /\ Owns(r, s) /\ (r \notin unremoved => Covers(r, s))
  BY <1>0, <1>1 DEF RunsIInv, Undoing
<1>3. h \in Paths /\ Mine(r, h)
  BY <1>0, <1>1, <1>2 DEF Owns
<1>4. \A q \in Runs, f \in Paths :
          /\ Mine(q, f)' <=> Mine(q, f) /\ f # h
          /\ f # h => files'[f] = files[f]
          /\ f = h => files'[f] = NoFile
  BY <1>1, <1>3 DEF RunsIInv, RunsTypeOK, Mine
<1>5. \A q \in Runs \ {r} : ~Mine(q, h)
  BY <1>3 DEF Mine
<1>6. /\ Tail(s) \in Seq(Paths) /\ Len(Tail(s)) = Len(s) - 1 /\ Len(s) \in Nat \ {0}
      /\ s[1] = h
      /\ \A j \in 1..Len(Tail(s)) : Tail(s)[j] = s[j + 1]
  BY <1>0, <1>1
<1>7. CleanUp(Tail(s)) /\ \A j \in 1..Len(Tail(s)) : Tail(s)[j] # h
  BY <1>2, <1>6 DEF CleanUp
<1>8. RunsTypeOK'
  BY <1>1, <1>3, <1>6, <1>7 DEF RunsIInv, RunsTypeOK, UndoType, CleanUp
<1>9. UndoType'
  BY <1>1, <1>6 DEF RunsIInv, UndoType
<1>10. Creating'
  BY <1>1, <1>4, <1>5, OrderIsInjective DEF RunsIInv, Creating, Whole, RunsTypeOK
<1>11. Undoing'
  <2>1. /\ undo'[r] = Tail(s)
        /\ \A q \in Runs \ {r} : undo'[q] = undo[q]
    BY <1>1 DEF RunsIInv, UndoType
  <2>2. Owns(r, Tail(s))'
    BY <1>2, <1>4, <1>6, <1>7 DEF Owns, CleanUp
  <2>3. r \notin unremoved => Covers(r, Tail(s))'
    <3>1. SUFFICES ASSUME r \notin unremoved, NEW f \in Paths, Mine(r, f), f # h
                   PROVE  \E j \in 1..Len(Tail(s)) : Tail(s)[j] = f
      BY <1>4 DEF Covers
    <3>2. PICK k \in 1..Len(s) : s[k] = f
      BY <1>2, <3>1 DEF Covers
    <3>3. k # 1 /\ k - 1 \in 1..Len(Tail(s)) /\ Tail(s)[k - 1] = f
      BY <1>6, <3>1, <3>2
    <3>4. QED
      BY <3>3
  <2>4. ASSUME NEW q \in Runs \ {r}, pc[q] = "undo"
        PROVE  /\ CleanUp(undo[q]) /\ Owns(q, undo[q])'
               /\ q \notin unremoved => Covers(q, undo[q])'
    <3>1. /\ CleanUp(undo[q]) /\ Owns(q, undo[q])
          /\ q \notin unremoved => Covers(q, undo[q])
      BY <2>4 DEF RunsIInv, Undoing
    <3>2. \A f \in Paths : Mine(q, f)' <=> Mine(q, f)
      BY <1>4, <1>5
    <3>3. \A j \in 1..Len(undo[q]) : undo[q][j] \in Paths
      BY <3>1 DEF CleanUp
    <3>4. QED
      BY <2>1, <3>1, <3>2, <3>3 DEF Owns, Covers
  <2>5. QED
    <3>1. SUFFICES ASSUME NEW q \in Runs, pc'[q] = "undo"
                   PROVE  /\ CleanUp(undo[q])' /\ Owns(q, undo[q])'
                          /\ q \notin unremoved' => Covers(q, undo[q])'
      BY DEF Undoing
    <3>2. CASE q = r
      <4>1. /\ undo'[q] = Tail(s)
            /\ unremoved' = unremoved
        BY <1>1, <2>1, <3>2
      <4>2. /\ CleanUp(Tail(s))' /\ Owns(q, Tail(s))'
            /\ q \notin unremoved => Covers(q, Tail(s))'
        BY <1>7, <2>2, <2>3, <3>2 DEF CleanUp
      <4>3. QED
        BY <4>1, <4>2 DEF Owns, Covers, CleanUp
    <3>3. CASE q # r
      BY <1>1, <2>1, <2>4, <3>1, <3>3 DEF CleanUp
    <3>4. QED
      BY <3>2, <3>3
<1>12. SuccessStays'
  BY <1>1, <1>4, <1>5 DEF RunsIInv, SuccessStays
<1>13. FailureLeavesNothing'
  BY <1>1, <1>4 DEF RunsIInv, FailureLeavesNothing
<1>14. ServerHasItsCA'
  BY <1>1, <1>2, <1>3, <1>4, <1>5, <1>6, OrderFacts
     DEF RunsIInv, ServerHasItsCA, CleanUp, Covers, CAFiles, ServerFiles, Mine,
         RunsTypeOK
<1>15. QED
  BY <1>8, <1>9, <1>10, <1>11, <1>12, <1>13, <1>14 DEF RunsIInv

(* A removal that fails is remembered in what the run reports.              *)
LEMMA RemoveFailsKeeps ==
    ASSUME RunsIInv, NEW r \in Runs, RemoveFails(r)
    PROVE  RunsIInv'
<1>0. PICK s : s = undo[r]
  OBVIOUS
<1>1. /\ pc[r] = "undo" /\ s \in Seq(Paths) /\ s # <<>>
      /\ undo' = [undo EXCEPT ![r] = Tail(s)]
      /\ unremoved' = unremoved \cup {r}
      /\ UNCHANGED <<files, pc, position, operator>>
  BY <1>0 DEF RemoveFails, RunsIInv, UndoType
<1>2. CleanUp(s) /\ Owns(r, s)
  BY <1>0, <1>1 DEF RunsIInv, Undoing
<1>6. /\ Tail(s) \in Seq(Paths) /\ Len(Tail(s)) = Len(s) - 1 /\ Len(s) \in Nat \ {0}
      /\ \A j \in 1..Len(Tail(s)) : Tail(s)[j] = s[j + 1]
  BY <1>0, <1>1
<1>7. CleanUp(Tail(s))
  BY <1>2, <1>6 DEF CleanUp
<1>8. RunsTypeOK'
  BY <1>1, <1>6, <1>7 DEF RunsIInv, RunsTypeOK, UndoType, CleanUp
<1>9. UndoType'
  BY <1>1, <1>6 DEF RunsIInv, UndoType
<1>10. Creating'
  BY <1>1 DEF RunsIInv, Creating, Whole, Mine
<1>11. Undoing'
  <2>1. /\ undo'[r] = Tail(s)
        /\ \A q \in Runs \ {r} : undo'[q] = undo[q]
    BY <1>1 DEF RunsIInv, UndoType
  <2>2. Owns(r, Tail(s))
    BY <1>2, <1>6 DEF Owns
  <2>3. QED
    BY <1>1, <1>7, <2>1, <2>2 DEF RunsIInv, Undoing, Owns, Covers, Mine
<1>12. SuccessStays' /\ FailureLeavesNothing' /\ ServerHasItsCA'
  BY <1>1 DEF RunsIInv, SuccessStays, FailureLeavesNothing, ServerHasItsCA, Mine
<1>15. QED
  BY <1>8, <1>9, <1>10, <1>11, <1>12 DEF RunsIInv

(* A run that reports with nothing left to remove has nothing left at all.  *)
LEMMA ReportErrorKeeps ==
    ASSUME RunsIInv, NEW r \in Runs, ReportError(r)
    PROVE  RunsIInv'
<1>1. RunsTypeOK' /\ UndoType' /\ Creating' /\ Undoing' /\ SuccessStays' /\ ServerHasItsCA'
  BY
     DEF RunsIInv, ReportError, RunsTypeOK, UndoType, Creating, Undoing, SuccessStays,
         ServerHasItsCA, Mine, Whole, Owns, Covers, CleanUp
<1>2. FailureLeavesNothing'
  BY
     DEF RunsIInv, ReportError, RunsTypeOK, UndoType, Undoing, FailureLeavesNothing,
         Mine, Covers
<1>3. QED
  BY <1>1, <1>2 DEF RunsIInv

(* A killed run leaves its files as they are.                               *)
LEMMA KillKeeps ==
    ASSUME RunsIInv, NEW r \in Runs, Kill(r)
    PROVE  RunsIInv'
BY
   DEF RunsIInv, Kill, RunsTypeOK, UndoType, Creating, Undoing, SuccessStays,
       ServerHasItsCA, Mine, Whole, Owns, Covers, CleanUp, FailureLeavesNothing

(* The operator deletes both pairs together, while no run is on the way.    *)
LEMMA OperatorKeeps ==
    ASSUME RunsIInv, OperatorDeletesPKI
    PROVE  RunsIInv'
<1>1. /\ \A r \in Runs : pc[r] \notin {"write", "undo"} /\ (pc[r] = "create" => position[r] = 1)
      /\ \A r \in Runs : pc'[r] = IF pc[r] = "ok" THEN "replaced" ELSE pc[r]
      /\ UNCHANGED <<position, undo, unremoved>>
  BY DEF OperatorDeletesPKI, Busy
<1>2. \A r \in Runs, f \in Paths : Mine(r, f)' => Mine(r, f)
  BY DEF OperatorDeletesPKI, Mine
<1>3. \A f \in Paths \ {"admin.yaml"} : files'[f] = NoFile
  BY DEF OperatorDeletesPKI, PKI
<1>4. RunsTypeOK' /\ UndoType'
  BY ServerInitAssumption DEF RunsIInv, RunsTypeOK, UndoType, OperatorDeletesPKI
<1>5. Creating'
  BY <1>1, <1>2, OrderIsInjective DEF RunsIInv, Creating, RunsTypeOK
<1>6. Undoing' /\ SuccessStays'
  BY <1>1 DEF Undoing, SuccessStays
<1>7. FailureLeavesNothing'
  BY <1>1, <1>2 DEF RunsIInv, FailureLeavesNothing
<1>8. ServerHasItsCA'
  BY <1>3, OrderFacts DEF ServerHasItsCA
<1>9. QED
  BY <1>4, <1>5, <1>6, <1>7, <1>8 DEF RunsIInv

----------------------------------------------------------------------------
(* Tuples appended to tuples, for the clean-up lists.                       *)
(* A file and a file.                                                       *)
LEMMA OneAndOne ==
    ASSUME NEW a, NEW b PROVE <<a>> \o <<b>> = <<a, b>>
<1> DEFINE s == <<a>> \o <<b>>
           S == {a, b}
<1>1. s \in Seq(S) /\ Len(s) = 2 /\ s[1] = a /\ s[2] = b
  OBVIOUS
<1> HIDE DEF s, S
<1>2. s = <<a, b>>
  BY <1>1
<1> QED
  BY <1>2 DEF s

(* A file and a pair.                                                       *)
LEMMA OneAndTwo ==
    ASSUME NEW a, NEW b, NEW c PROVE <<a>> \o <<b, c>> = <<a, b, c>>
<1> DEFINE s == <<a>> \o <<b, c>>
           S == {a, b, c}
<1>1. s \in Seq(S) /\ Len(s) = 3 /\ s[1] = a /\ s[2] = b /\ s[3] = c
  OBVIOUS
<1> HIDE DEF s, S
<1>2. s = <<a, b, c>>
  BY <1>1
<1> QED
  BY <1>2 DEF s

(* A pair and a pair.                                                       *)
LEMMA TwoAndTwo ==
    ASSUME NEW a, NEW b, NEW c, NEW d PROVE <<a, b>> \o <<c, d>> = <<a, b, c, d>>
<1> DEFINE s == <<a, b>> \o <<c, d>>
           S == {a, b, c, d}
<1>1. s \in Seq(S) /\ Len(s) = 4 /\ s[1] = a /\ s[2] = b /\ s[3] = c /\ s[4] = d
  OBVIOUS
<1> HIDE DEF s, S
<1>2. s = <<a, b, c, d>>
  BY <1>1
<1> QED
  BY <1>2 DEF s

(* A file and two pairs.                                                    *)
LEMMA OneAndFour ==
    ASSUME NEW a, NEW b, NEW c, NEW d, NEW e PROVE <<a>> \o <<b, c, d, e>> = <<a, b, c, d, e>>
<1> DEFINE s == <<a>> \o <<b, c, d, e>>
           S == {a, b, c, d, e}
<1>1. s \in Seq(S) /\ Len(s) = 5 /\ s[1] = a /\ s[2] = b /\ s[3] = c /\ s[4] = d /\ s[5] = e
  OBVIOUS
<1> HIDE DEF s, S
<1>2. s = <<a, b, c, d, e>>
  BY <1>1
<1> QED
  BY <1>2 DEF s

(* Nothing and two pairs.                                                   *)
LEMMA NoneAndFour ==
    ASSUME NEW a, NEW b, NEW c, NEW d PROVE <<>> \o <<a, b, c, d>> = <<a, b, c, d>>
<1>1. <<a, b, c, d>> \in Seq({a, b, c, d})
  OBVIOUS
<1> QED
  BY <1>1

(* s names the first n files of Order. *)
RunsCreated(s, n) ==
    \A f \in Paths : (\E j \in 1..Len(s) : s[j] = f) <=> (\E i \in 1..n : f = Order[i])

(* What a run that fails at file i removes.                                 *)
UndoAt(i, created) == SaveUndo(i, created) \o Deferred(i)

(* The ten lists that init can be left with.                                *)
LEMMA UndoLists ==
    /\ UndoAt(1, FALSE) = <<>>
    /\ UndoAt(1, TRUE) = <<"ca.crt">>
    /\ UndoAt(2, FALSE) = <<"ca.crt">>
    /\ UndoAt(2, TRUE) = <<"ca.key", "ca.crt">>
    /\ UndoAt(3, FALSE) = <<"ca.crt", "ca.key">>
    /\ UndoAt(3, TRUE) = <<"server.crt", "ca.crt", "ca.key">>
    /\ UndoAt(4, FALSE) = <<"server.crt", "ca.crt", "ca.key">>
    /\ UndoAt(4, TRUE) = <<"server.key", "server.crt", "ca.crt", "ca.key">>
    /\ UndoAt(5, FALSE) = <<"server.crt", "server.key", "ca.crt", "ca.key">>
    /\ UndoAt(5, TRUE) = <<"admin.yaml", "server.crt", "server.key", "ca.crt", "ca.key">>
<1>1. /\ Deferred(1) = <<>> /\ Deferred(2) = <<>>
      /\ Deferred(3) = <<"ca.crt", "ca.key">> /\ Deferred(4) = <<"ca.crt", "ca.key">>
      /\ Deferred(5) = <<"server.crt", "server.key", "ca.crt", "ca.key">>
  <2>1. /\ Deferred(1) = <<>> /\ Deferred(2) = <<>>
        /\ Deferred(3) = CAPair /\ Deferred(4) = CAPair
        /\ Deferred(5) = ServerPair \o CAPair
    BY DEF Deferred
  <2>2. ServerPair \o CAPair = <<"server.crt", "server.key", "ca.crt", "ca.key">>
    BY TwoAndTwo DEF CAPair, ServerPair
  <2>3. QED
    BY <2>1, <2>2 DEF CAPair
<1>2. /\ SaveUndo(1, FALSE) = <<>> /\ SaveUndo(3, FALSE) = <<>> /\ SaveUndo(5, FALSE) = <<>>
      /\ SaveUndo(2, FALSE) = <<"ca.crt">> /\ SaveUndo(4, FALSE) = <<"server.crt">>
  BY DEF SaveUndo, Order
<1>3. /\ SaveUndo(1, TRUE) = <<"ca.crt">> /\ SaveUndo(3, TRUE) = <<"server.crt">>
      /\ SaveUndo(5, TRUE) = <<"admin.yaml">>
  BY DEF SaveUndo, Order
<1>4. /\ SaveUndo(2, TRUE) = <<"ca.key", "ca.crt">>
      /\ SaveUndo(4, TRUE) = <<"server.key", "server.crt">>
  <2>1. SaveUndo(2, TRUE) = <<Order[2]>> \o <<Order[1]>>
    BY DEF SaveUndo
  <2>2. SaveUndo(4, TRUE) = <<Order[4]>> \o <<Order[3]>>
    BY DEF SaveUndo
  <2>3. QED
    BY <2>1, <2>2, OrderFacts, OneAndOne
<1>5. UndoAt(1, FALSE) = <<>> /\ UndoAt(1, TRUE) = <<"ca.crt">>
  <2>1. <<>> \o <<>> = <<>> /\ <<"ca.crt">> \o <<>> = <<"ca.crt">>
    OBVIOUS
  <2>2. QED
    BY <1>1, <1>2, <1>3, <2>1 DEF UndoAt
<1>6. UndoAt(2, FALSE) = <<"ca.crt">>
  <2>1. <<"ca.crt">> \o <<>> = <<"ca.crt">>
    OBVIOUS
  <2>2. QED
    BY <1>1, <1>2, <2>1 DEF UndoAt
<1>7. UndoAt(2, TRUE) = <<"ca.key", "ca.crt">>
  <2>1. <<"ca.key", "ca.crt">> \o <<>> = <<"ca.key", "ca.crt">>
    OBVIOUS
  <2>2. QED
    BY <1>1, <1>4, <2>1 DEF UndoAt
<1>8. UndoAt(3, FALSE) = <<"ca.crt", "ca.key">>
  <2>1. <<>> \o <<"ca.crt", "ca.key">> = <<"ca.crt", "ca.key">>
    OBVIOUS
  <2>2. QED
    BY <1>1, <1>2, <2>1 DEF UndoAt
<1>9. UndoAt(3, TRUE) = <<"server.crt", "ca.crt", "ca.key">>
  BY <1>1, <1>3, OneAndTwo DEF UndoAt
<1>10. UndoAt(4, FALSE) = <<"server.crt", "ca.crt", "ca.key">>
  BY <1>1, <1>2, OneAndTwo DEF UndoAt
<1>11. UndoAt(4, TRUE) = <<"server.key", "server.crt", "ca.crt", "ca.key">>
  BY <1>1, <1>4, TwoAndTwo DEF UndoAt
<1>12. UndoAt(5, FALSE) = <<"server.crt", "server.key", "ca.crt", "ca.key">>
  BY <1>1, <1>2, NoneAndFour DEF UndoAt
<1>13. UndoAt(5, TRUE) = <<"admin.yaml", "server.crt", "server.key", "ca.crt", "ca.key">>
  BY <1>1, <1>3, OneAndFour DEF UndoAt
<1>14. QED
  BY <1>5, <1>6, <1>7, <1>8, <1>9, <1>10, <1>11, <1>12, <1>13

(* Each of them holds what was created, the CA last.                        *)
LEMMA UndoIsCleanUp ==
    ASSUME NEW i \in 1..5
    PROVE  /\ CleanUp(UndoAt(i, FALSE)) /\ RunsCreated(UndoAt(i, FALSE), i - 1)
           /\ CleanUp(UndoAt(i, TRUE)) /\ RunsCreated(UndoAt(i, TRUE), i)
<1>1. /\ CleanUp(<<>>) /\ RunsCreated(<<>>, 0)
      /\ CleanUp(<<"ca.crt">>) /\ RunsCreated(<<"ca.crt">>, 1)
      /\ CleanUp(<<"ca.key", "ca.crt">>) /\ RunsCreated(<<"ca.key", "ca.crt">>, 2)
      /\ CleanUp(<<"ca.crt", "ca.key">>) /\ RunsCreated(<<"ca.crt", "ca.key">>, 2)
  BY OrderFacts DEF CleanUp, RunsCreated, Order, CAFiles, ServerFiles
<1>2. /\ CleanUp(<<"server.crt", "ca.crt", "ca.key">>)
      /\ RunsCreated(<<"server.crt", "ca.crt", "ca.key">>, 3)
  BY OrderFacts DEF CleanUp, RunsCreated, Order, CAFiles, ServerFiles
<1>3. /\ CleanUp(<<"server.key", "server.crt", "ca.crt", "ca.key">>)
      /\ RunsCreated(<<"server.key", "server.crt", "ca.crt", "ca.key">>, 4)
  BY OrderFacts DEF CleanUp, RunsCreated, Order, CAFiles, ServerFiles
<1>4. /\ CleanUp(<<"server.crt", "server.key", "ca.crt", "ca.key">>)
      /\ RunsCreated(<<"server.crt", "server.key", "ca.crt", "ca.key">>, 4)
  BY OrderFacts DEF CleanUp, RunsCreated, Order, CAFiles, ServerFiles
<1>5. /\ CleanUp(<<"admin.yaml", "server.crt", "server.key", "ca.crt", "ca.key">>)
      /\ RunsCreated(<<"admin.yaml", "server.crt", "server.key", "ca.crt", "ca.key">>, 5)
  BY OrderFacts DEF CleanUp, RunsCreated, Order, CAFiles, ServerFiles
<1>6. CASE i = 1
  <2>1. i - 1 = 0
    BY <1>6
  <2>2. /\ CleanUp(UndoAt(1, FALSE)) /\ RunsCreated(UndoAt(1, FALSE), 0)
        /\ CleanUp(UndoAt(1, TRUE)) /\ RunsCreated(UndoAt(1, TRUE), 1)
    BY <1>1, UndoLists
  <2>3. QED
    BY <1>6, <2>1, <2>2
<1>7. CASE i = 2
  <2>1. i - 1 = 1
    BY <1>7
  <2>2. /\ CleanUp(UndoAt(2, FALSE)) /\ RunsCreated(UndoAt(2, FALSE), 1)
        /\ CleanUp(UndoAt(2, TRUE)) /\ RunsCreated(UndoAt(2, TRUE), 2)
    BY <1>1, UndoLists
  <2>3. QED
    BY <1>7, <2>1, <2>2
<1>8. CASE i = 3
  <2>1. i - 1 = 2
    BY <1>8
  <2>2. /\ CleanUp(UndoAt(3, FALSE)) /\ RunsCreated(UndoAt(3, FALSE), 2)
        /\ CleanUp(UndoAt(3, TRUE)) /\ RunsCreated(UndoAt(3, TRUE), 3)
    BY <1>1, <1>2, UndoLists
  <2>3. QED
    BY <1>8, <2>1, <2>2
<1>9. CASE i = 4
  <2>1. i - 1 = 3
    BY <1>9
  <2>2. /\ CleanUp(UndoAt(4, FALSE)) /\ RunsCreated(UndoAt(4, FALSE), 3)
        /\ CleanUp(UndoAt(4, TRUE)) /\ RunsCreated(UndoAt(4, TRUE), 4)
    BY <1>2, <1>3, UndoLists
  <2>3. QED
    BY <1>9, <2>1, <2>2
<1>10. CASE i = 5
  <2>1. i - 1 = 4
    BY <1>10
  <2>2. /\ CleanUp(UndoAt(5, FALSE)) /\ RunsCreated(UndoAt(5, FALSE), 4)
        /\ CleanUp(UndoAt(5, TRUE)) /\ RunsCreated(UndoAt(5, TRUE), 5)
    BY <1>4, <1>5, UndoLists
  <2>3. QED
    BY <1>10, <2>1, <2>2
<1>11. QED
  <2>1. i = 1 \/ i = 2 \/ i = 3 \/ i = 4 \/ i = 5
    OBVIOUS
  <2>2. QED
    BY <1>6, <1>7, <1>8, <1>9, <1>10, <2>1

(* A run fails with n files created and s to remove. *)
FailsWith(r, s, n) ==
    /\ pc[r] \in {"create", "write"}
    /\ pc' = [pc EXCEPT ![r] = "undo"]
    /\ undo' = [undo EXCEPT ![r] = s]
    /\ UNCHANGED <<files, position, unremoved, operator>>
    /\ n = IF pc[r] = "write" THEN position[r] ELSE position[r] - 1

(* A run that fails has on its list what it has created.                    *)
LEMMA FailKeeps ==
    ASSUME RunsIInv, NEW r \in Runs, NEW s, NEW n,
           FailsWith(r, s, n), CleanUp(s), RunsCreated(s, n)
    PROVE  RunsIInv'
<1>1. position[r] \in 1..5
  BY DEF RunsIInv, RunsTypeOK
<1>2. /\ pc' = [pc EXCEPT ![r] = "undo"]
      /\ undo' = [undo EXCEPT ![r] = s]
      /\ UNCHANGED <<files, position, unremoved, operator>>
      /\ pc[r] \in {"create", "write"}
      /\ n = IF pc[r] = "write" THEN position[r] ELSE position[r] - 1
  BY DEF FailsWith
<1>3. CleanUp(s)
  OBVIOUS
<1>4. \A f \in Paths : Mine(r, f) <=> \E i \in 1..n : f = Order[i]
  <2>1. CASE pc[r] = "write"
    BY <1>1, <1>2, <2>1, PathsAreOrdered, OrderIsInjective DEF RunsIInv, Creating, Whole
  <2>2. CASE pc[r] = "create"
    BY <1>1, <1>2, <2>2, PathsAreOrdered, OrderIsInjective DEF RunsIInv, Creating, Whole
  <2>3. QED
    BY <1>2, <2>1, <2>2
<1>5. Owns(r, s) /\ Covers(r, s)
  BY <1>3, <1>4 DEF Owns, Covers, RunsCreated, CleanUp
<1>6. RunsTypeOK' /\ UndoType'
  BY <1>2, <1>3 DEF RunsIInv, RunsTypeOK, UndoType, CleanUp
<1>7. Creating'
  BY <1>2 DEF RunsIInv, RunsTypeOK, Creating, Whole, Mine
<1>8. Undoing'
  BY <1>2, <1>3, <1>5 DEF RunsIInv, RunsTypeOK, UndoType, Undoing, Owns, Covers, Mine
<1>9. SuccessStays' /\ FailureLeavesNothing' /\ ServerHasItsCA'
  BY <1>2 DEF RunsIInv, RunsTypeOK, SuccessStays, FailureLeavesNothing, ServerHasItsCA, Mine
<1>10. QED
  BY <1>6, <1>7, <1>8, <1>9 DEF RunsIInv

(* O_EXCL: a run creates only what is not there.                            *)
LEMMA CreateFileKeeps ==
    ASSUME RunsIInv, NEW r \in Runs, CreateFile(r)
    PROVE  RunsIInv'
<1>1. CASE Fail(r, FALSE)
  <2>1. /\ pc[r] = "create" /\ UNCHANGED <<files, position, unremoved, operator>>
        /\ pc' = [pc EXCEPT ![r] = "undo"]
        /\ undo' = [undo EXCEPT ![r] = UndoAt(position[r], FALSE)]
    BY <1>1 DEF CreateFile, Fail, RunsIInv, RunsTypeOK, UndoAt
  <2>2. position[r] \in 1..5
    BY DEF RunsIInv, RunsTypeOK
  <2>3. PICK s : s = UndoAt(position[r], FALSE)
    OBVIOUS
  <2>4. PICK n : n = position[r] - 1
    OBVIOUS
  <2>5. CleanUp(s) /\ RunsCreated(s, n)
    BY <2>2, <2>3, <2>4, UndoIsCleanUp
  <2>6. n = IF pc[r] = "write" THEN position[r] ELSE position[r] - 1
    BY <2>1, <2>4
  <2>7. undo' = [undo EXCEPT ![r] = s]
    BY <2>1, <2>3
  <2>8. FailsWith(r, s, n)
    BY <2>1, <2>6, <2>7 DEF FailsWith
  <2>9. QED
    BY <2>5, <2>8, FailKeeps
<1>2. CASE ~Fail(r, FALSE)
  <2>1. PICK f : f = Order[position[r]]
    OBVIOUS
  <2>2. /\ pc[r] = "create" /\ pc' = [pc EXCEPT ![r] = "write"]
        /\ files[f] = NoFile
        /\ files' = [files EXCEPT ![f] = [owner |-> r, whole |-> FALSE]]
        /\ UNCHANGED <<position, undo, unremoved, operator>>
    BY <1>2, <2>1 DEF CreateFile
  <2>3. position[r] \in 1..5 /\ f \in Paths
    BY <2>1, OrderIsInjective DEF RunsIInv, RunsTypeOK
  <2>4. [owner |-> r, whole |-> FALSE] # NoFile
    <3>1. [owner |-> r, whole |-> FALSE] \in [owner : Runs, whole : BOOLEAN]
      OBVIOUS
    <3>2. QED
      BY <3>1, ServerInitAssumption
  <2>5. /\ files'[f] # NoFile /\ files'[f].owner = r
        /\ \A g \in Paths : g # f => files'[g] = files[g]
    BY <2>2, <2>3, <2>4 DEF RunsIInv, RunsTypeOK
  <2>6. \A q \in Runs, g \in Paths : Mine(q, g)' <=> Mine(q, g) \/ (q = r /\ g = f)
    BY <2>2, <2>5 DEF Mine
  <2>7. \A q \in Runs : ~Mine(q, f)
    BY <2>2 DEF Mine
  <2>8. RunsTypeOK' /\ UndoType'
    BY <2>2, <2>3 DEF RunsIInv, RunsTypeOK, UndoType
  <2>9. Creating'
    BY <2>1, <2>2, <2>3, <2>5, <2>6, <2>7, OrderIsInjective
       DEF RunsIInv, RunsTypeOK, Creating, Whole
  <2>10. Undoing'
    BY <2>2, <2>6, <2>7 DEF RunsIInv, RunsTypeOK, Undoing, Owns, Covers
  <2>11. SuccessStays' /\ FailureLeavesNothing'
    BY <2>2, <2>5, <2>6, <2>7 DEF RunsIInv, RunsTypeOK, SuccessStays, FailureLeavesNothing
  <2>12. ServerHasItsCA'
    BY <2>1, <2>2, <2>3, <2>5, <2>6, <2>7, OrderFacts
       DEF RunsIInv, RunsTypeOK, ServerHasItsCA, Creating, Whole, Mine
  <2>13. QED
    BY <2>8, <2>9, <2>10, <2>11, <2>12 DEF RunsIInv
<1>3. QED
  BY <1>1, <1>2

(* A run writes the file that it has created.                               *)
LEMMA WriteFileKeeps ==
    ASSUME RunsIInv, NEW r \in Runs, WriteFile(r)
    PROVE  RunsIInv'
<1>1. PICK f : f = Order[position[r]]
  OBVIOUS
<1>2. /\ pc[r] = "write" /\ position[r] \in 1..5 /\ f \in Paths
      /\ UNCHANGED <<undo, unremoved, operator>>
  BY <1>1, OrderIsInjective DEF WriteFile, RunsIInv, RunsTypeOK
<1>3. Mine(r, f)
  BY <1>1, <1>2 DEF RunsIInv, Creating
<1>4. files' = [files EXCEPT ![f].whole = TRUE]
  BY <1>1, <1>3 DEF WriteFile, Written
<1>5. files[f] \in [owner : Runs, whole : BOOLEAN]
  BY <1>2, <1>3 DEF RunsIInv, RunsTypeOK, Mine
<1>6. [files[f] EXCEPT !.whole = TRUE] \in [owner : Runs, whole : BOOLEAN]
  BY <1>5
<1>7. /\ files'[f] # NoFile /\ files'[f].whole /\ files'[f].owner = files[f].owner
      /\ \A g \in Paths \ {f} : files'[g] = files[g]
  BY <1>2, <1>4, <1>5, <1>6, ServerInitAssumption DEF RunsIInv, RunsTypeOK
<1>8. \A q \in Runs, g \in Paths :
          /\ Mine(q, g)' <=> Mine(q, g)
          /\ Whole(q, g) => Whole(q, g)'
  BY <1>3, <1>7 DEF Mine, Whole
<1>9. RunsTypeOK' /\ UndoType'
  <2>1. files' \in [Paths -> [owner : Runs, whole : BOOLEAN] \cup {NoFile}]
    BY <1>4, <1>6 DEF RunsIInv, RunsTypeOK
  <2>2. position' \in [Runs -> 1..5] /\ pc' \in [Runs -> {"create", "write", "undo", "ok",
                                               "failed", "killed", "replaced"}]
    BY <1>2 DEF WriteFile, RunsIInv, RunsTypeOK
  <2>3. QED
    BY <1>2, <2>1, <2>2 DEF RunsIInv, RunsTypeOK, UndoType
<1>10. Creating'
  BY <1>1, <1>2, <1>3, <1>7, <1>8, OrderIsInjective
     DEF WriteFile, RunsIInv, RunsTypeOK, Creating, Whole
<1>11. Undoing'
  <2>1. SUFFICES ASSUME NEW q \in Runs, pc'[q] = "undo"
                 PROVE  /\ CleanUp(undo[q])' /\ Owns(q, undo[q])'
                        /\ q \notin unremoved' => Covers(q, undo[q])'
    BY DEF Undoing
  <2>2. pc[q] = "undo"
    BY <1>2, <2>1 DEF WriteFile, RunsIInv, RunsTypeOK
  <2>3. PICK s : s = undo[q] /\ s = undo'[q]
    BY <1>2
  <2>4. CleanUp(s) /\ Owns(q, s) /\ (q \notin unremoved => Covers(q, s))
    BY <2>2, <2>3 DEF RunsIInv, Undoing
  <2>5. \A j \in 1..Len(s) : s[j] \in Paths
    BY <2>4 DEF CleanUp
  <2>6. Owns(q, s)' /\ (q \notin unremoved => Covers(q, s)')
    BY <1>8, <2>4, <2>5 DEF Owns, Covers
  <2>7. QED
    BY <1>2, <2>3, <2>4, <2>6 DEF CleanUp, Owns, Covers
<1>12. SuccessStays'
  BY <1>1, <1>2, <1>3, <1>7, <1>8, PathsAreOrdered
     DEF WriteFile, RunsIInv, RunsTypeOK, SuccessStays, Creating, Whole
<1>13. FailureLeavesNothing'
  BY <1>2, <1>8 DEF WriteFile, RunsIInv, RunsTypeOK, FailureLeavesNothing
<1>14. ServerHasItsCA'
  <2>1. SUFFICES ASSUME NEW g \in ServerFiles, NEW h \in CAFiles,
                        files'[g] # NoFile, files'[g].owner \notin unremoved
                 PROVE  /\ files'[h] # NoFile /\ files'[h].whole
                        /\ files'[h].owner = files'[g].owner
    BY <1>2 DEF ServerHasItsCA, ServerFiles, CAFiles
  <2>2. g \in Paths /\ h \in Paths
    BY OrderFacts DEF ServerFiles, CAFiles
  <2>3. files[g] # NoFile /\ files[g].owner = files'[g].owner
    BY <1>3, <1>7, <2>1, <2>2 DEF Mine
  <2>4. files[h] # NoFile /\ files[h].whole /\ files[h].owner = files[g].owner
    BY <2>1, <2>3 DEF RunsIInv, ServerHasItsCA, ServerFiles, CAFiles
  <2>5. QED
    BY <1>7, <2>2, <2>3, <2>4
<1>15. QED
  BY <1>9, <1>10, <1>11, <1>12, <1>13, <1>14 DEF RunsIInv

(* A write that fails leaves its file on the list.                          *)
LEMMA WriteFailsKeeps ==
    ASSUME RunsIInv, NEW r \in Runs, WriteFails(r)
    PROVE  RunsIInv'
<1>1. /\ pc[r] = "write" /\ UNCHANGED <<files, position, unremoved, operator>>
      /\ pc' = [pc EXCEPT ![r] = "undo"]
      /\ undo' = [undo EXCEPT ![r] = UndoAt(position[r], TRUE)]
  BY DEF WriteFails, Fail, UndoAt
<1>2. position[r] \in 1..5
  BY DEF RunsIInv, RunsTypeOK
<1>3. PICK s : s = UndoAt(position[r], TRUE)
  OBVIOUS
<1>4. PICK n : n = position[r]
  OBVIOUS
<1>5. CleanUp(s) /\ RunsCreated(s, n)
  BY <1>2, <1>3, <1>4, UndoIsCleanUp
<1>6. n = IF pc[r] = "write" THEN position[r] ELSE position[r] - 1
  BY <1>1, <1>4
<1>7. undo' = [undo EXCEPT ![r] = s]
  BY <1>1, <1>3
<1>8. FailsWith(r, s, n)
  BY <1>1, <1>6, <1>7 DEF FailsWith
<1>9. QED
  BY <1>5, <1>8, FailKeeps

(* Nothing is there at the start.                                           *)
LEMMA RunsInitIInv == RunsInit => RunsIInv
BY OrderIsInjective, OrderFacts, ServerInitAssumption
   DEF RunsInit, RunsIInv, RunsTypeOK, UndoType, Creating, Undoing, SuccessStays,
       FailureLeavesNothing, ServerHasItsCA, Whole, Mine

(* Every step of any run, and of the operator, keeps the invariant.         *)
LEMMA RunsNextIInv == RunsIInv /\ [RunsNext]_runVars => RunsIInv'
<1> SUFFICES ASSUME RunsIInv, [RunsNext]_runVars PROVE RunsIInv'
  OBVIOUS
<1>1. ASSUME NEW r \in Runs, RunStep(r)
      PROVE  RunsIInv'
  BY <1>1, CreateFileKeeps, WriteFileKeeps, WriteFailsKeeps, RemoveFileKeeps,
     RemoveFailsKeeps, ReportErrorKeeps DEF RunStep
<1>2. ASSUME NEW r \in Runs, Kill(r)
      PROVE  RunsIInv'
  BY <1>2, KillKeeps
<1>3. CASE OperatorDeletesPKI
  BY <1>3, OperatorKeeps
<1>4. CASE UNCHANGED runVars
  BY <1>4 DEF runVars, RunsIInv, RunsTypeOK, UndoType, Creating, Undoing, SuccessStays,
              FailureLeavesNothing, ServerHasItsCA, Whole, Mine, Owns, Covers, CleanUp
<1> QED
  BY <1>1, <1>2, <1>3, <1>4 DEF RunsNext

(* The inductive invariant holds in every state.                            *)
LEMMA RunsInvariant == RunsSpec => []RunsIInv
  BY RunsInitIInv, RunsNextIInv, PTL DEF RunsSpec

(* Files, control points and clean-up lists keep their types.               *)
THEOREM InitTypeOK == RunsSpec => []RunsTypeOK
<1>1. RunsIInv => RunsTypeOK
  BY DEF RunsIInv
<1> QED
  BY <1>1, RunsInvariant, PTL

(* The files of a run of init that succeeded stay complete and its own, for *)
(* any number of runs that start, fail, clean up and are killed meanwhile.  *)
THEOREM InitSuccessStays == RunsSpec => []SuccessStays
<1>1. RunsIInv => SuccessStays
  BY DEF RunsIInv
<1> QED
  BY <1>1, RunsInvariant, PTL

(* A run of init that returns an error has removed all it created, or its   *)
(* error says that a removal failed.                                        *)
THEOREM InitFailureLeavesNothing == RunsSpec => []FailureLeavesNothing
<1>1. RunsIInv => FailureLeavesNothing
  BY DEF RunsIInv
<1> QED
  BY <1>1, RunsInvariant, PTL

(* At every moment, halfway through a clean-up and after a kill too, the    *)
(* server's files come with the CA that signed them.                        *)
THEOREM InitServerHasItsCA == RunsSpec => []ServerHasItsCA
<1>1. RunsIInv => ServerHasItsCA
  BY DEF RunsIInv
<1> QED
  BY <1>1, RunsInvariant, PTL

----------------------------------------------------------------------------
(* serve *)

AfterDrain == {"serveErr", "stopQueue", "join", "closeDB", "exit", "exited"}
AfterServe == AfterDrain \ {"serveErr"}

CutOff == errors \cap {"grace", "serve"} # {}
Quiet == \A r \in Requests : at[r] = "none"

(* Where main is says who has ended: past the drain nobody is served, or    *)
(* the error says so; past serveErr nobody can connect any more; queue and  *)
(* store are shut in this order, the store after the scheduler.             *)
InOrder ==
    /\ main \in AfterDrain => CutOff \/ Quiet
    /\ main \in AfterServe => serving # "running"
    /\ main \in {"closeDB", "exit", "exited"} => sched \in {"ended", "failed"}
    /\ ~queueOpen => main \in {"join", "closeDB", "exit", "exited"}
    /\ ~dbOpen => main \in {"exit", "exited"}

LifecycleIInv == TypeOK /\ InOrder

(* The types hold and the ends come in order at the start.                  *)
LEMMA LifecycleInit == Init => LifecycleIInv
  BY DEF Init, LifecycleIInv, TypeOK, InOrder, AfterDrain, AfterServe

(* A step of a request: no request appears while nobody listens, and        *)
(* nothing else moves.                                                      *)
LEMMA RequestKeeps ==
  ASSUME LifecycleIInv, NEW r \in Requests,
         Accept(r) \/ Handles(r) \/ WatchWakes(r) \/ ClientActs(r)
            \/ ConnectionEnds(r) \/ ConnectionBreaks(r)
  PROVE  LifecycleIInv'
<1>1. UNCHANGED <<main, errors, cancelled, serving, sched, closed, queueOpen, dbOpen>>
  BY DEF Accept, Handles, UseStore, AddToQueue, WatchBegins, WatchLists, WatchEnds,
         WatchWakes, ClientActs, RequestArrives, BodyArrives, ClientReads,
         ConnectionEnds, ConnectionBreaks, Moves, goroutines
<1>2. at' \in [Requests -> {"none", "new", "body", "store", "add", "answer",
                            "watch", "list", "send", "wait"}]
  BY DEF LifecycleIInv, TypeOK, Accept, Handles, UseStore, AddToQueue, WatchBegins,
         WatchLists, WatchEnds, WatchWakes, ClientActs, RequestArrives, BodyArrives,
         ClientReads, ConnectionEnds, ConnectionBreaks, Moves
<1>3. main \in AfterDrain /\ Quiet => FALSE
  <2>1. SUFFICES ASSUME main \in AfterDrain, Quiet, Accept(r) PROVE FALSE
    BY DEF Quiet, Handles, UseStore, AddToQueue, WatchBegins, WatchLists, WatchEnds,
           WatchWakes, ClientActs, RequestArrives, BodyArrives, ClientReads,
           ConnectionEnds, ConnectionBreaks
  <2> QED
    BY <2>1 DEF LifecycleIInv, InOrder, AfterDrain, AfterServe, Accept,
                ListenerClosed
<1> QED
  BY <1>1, <1>2, <1>3 DEF LifecycleIInv, TypeOK, InOrder, CutOff

(* The goroutines of the scheduler and of ServeTLS only move towards their  *)
(* ends.                                                                    *)
LEMMA GoroutineKeeps ==
  ASSUME LifecycleIInv, Scheduler \/ ServeFails \/ ServeReturns
  PROVE  LifecycleIInv'
<1>1. UNCHANGED <<main, errors, closed, queueOpen, dbOpen, at>>
  BY DEF Scheduler, SchedulerFails, SchedulerStarts, SchedulerGets,
         SchedulerAssigns, ServeFails, ServeReturns
<1>2. TypeOK'
  BY <1>1 DEF LifecycleIInv, TypeOK, Scheduler, SchedulerFails, SchedulerStarts,
              SchedulerGets, SchedulerAssigns, ServeFails, ServeReturns
<1>3. /\ serving # "running" => serving' # "running"
      /\ sched \in {"ended", "failed"} => sched' = sched
  BY DEF Scheduler, SchedulerFails, SchedulerStarts, SchedulerGets,
         SchedulerAssigns, ServeFails, ServeReturns
<1> QED
  BY <1>1, <1>2, <1>3 DEF LifecycleIInv, InOrder, CutOff, Quiet

(* The steps of run and runServer, the expiry and the signal.               *)
LEMMA RunKeeps ==
  ASSUME LifecycleIInv, Run \/ GraceExpires \/ Signal
  PROVE  LifecycleIInv'
<1>1. CASE ReturnServeError
  BY <1>1 DEF ReturnServeError, Goes, LifecycleIInv, TypeOK, InOrder, AfterDrain,
              AfterServe, CutOff, goroutines
<1>2. CASE StartShutdown
  BY <1>2 DEF StartShutdown, Goes, LifecycleIInv, TypeOK, InOrder, AfterDrain,
              AfterServe, CutOff, Quiet, goroutines
<1>3. CASE ShutdownReturns
  BY <1>3 DEF ShutdownReturns, Goes, LifecycleIInv, TypeOK, InOrder, AfterDrain,
              AfterServe, CutOff, Quiet, goroutines
<1>4. CASE ReceiveServeErr
  BY <1>4 DEF ReceiveServeErr, Goes, LifecycleIInv, TypeOK, InOrder, AfterDrain,
              AfterServe, CutOff, Quiet, goroutines
<1>5. CASE StopQueue
  BY <1>5 DEF StopQueue, Goes, LifecycleIInv, TypeOK, InOrder, AfterDrain,
              AfterServe, CutOff, Quiet, goroutines
<1>6. CASE JoinScheduler
  BY <1>6 DEF JoinScheduler, Goes, LifecycleIInv, TypeOK, InOrder, AfterDrain,
              AfterServe, CutOff, Quiet, goroutines
<1>7. CASE CloseDB
  BY <1>7 DEF CloseDB, Goes, LifecycleIInv, TypeOK, InOrder, AfterDrain, AfterServe,
              CutOff, Quiet, goroutines
<1>8. CASE Exit
  BY <1>8 DEF Exit, Goes, LifecycleIInv, TypeOK, InOrder, AfterDrain, AfterServe,
              CutOff, Quiet, goroutines
<1>9. CASE GraceExpires
  BY <1>9 DEF GraceExpires, Goes, LifecycleIInv, TypeOK, InOrder, AfterDrain,
              AfterServe, CutOff, goroutines
<1>10. CASE Signal
  BY <1>10 DEF Signal, LifecycleIInv, TypeOK, InOrder, CutOff, Quiet, goroutines
<1> QED
  BY <1>1, <1>2, <1>3, <1>4, <1>5, <1>6, <1>7, <1>8, <1>9, <1>10 DEF Run

(* Every step keeps the order of the ends.                                  *)
LEMMA LifecycleNext == LifecycleIInv /\ [Next]_vars => LifecycleIInv'
<1> SUFFICES ASSUME LifecycleIInv, [Next]_vars PROVE LifecycleIInv'
  OBVIOUS
<1>1. CASE Run \/ GraceExpires \/ Signal
  BY <1>1, RunKeeps
<1>2. CASE Scheduler \/ ServeFails \/ ServeReturns
  BY <1>2, GoroutineKeeps
<1>3. CASE \E r \in Requests :
              \/ Accept(r) \/ Handles(r) \/ WatchWakes(r) \/ ClientActs(r)
              \/ ConnectionEnds(r) \/ ConnectionBreaks(r)
  BY <1>3, RequestKeeps
<1>4. CASE UNCHANGED vars
  BY <1>4 DEF vars, goroutines, LifecycleIInv, TypeOK, InOrder, CutOff, Quiet
<1> QED
  BY <1>1, <1>2, <1>3, <1>4 DEF Next

(* The inductive invariant holds in every state.                            *)
LEMMA LifecycleInvariant == Safety => []LifecycleIInv
  BY LifecycleInit, LifecycleNext, PTL DEF Safety

(* The control points of run, its errors and all goroutines keep their      *)
(* types.                                                                   *)
THEOREM LifecycleTypeOK == Safety => []TypeOK
<1>1. LifecycleIInv => TypeOK
  BY DEF LifecycleIInv
<1> QED
  BY <1>1, LifecycleInvariant, PTL

(* serve.go closes nothing under its users, for any number of requests: the *)
(* scheduler has ended when the store closes, and a request that meets a    *)
(* closed queue or store is accounted for by the error that run returns.    *)
THEOREM LifecycleCutsNothingOff == Safety => []NothingIsCutOff
<1>1. LifecycleIInv => NothingIsCutOff
  BY DEF LifecycleIInv, InOrder, AfterDrain, CutOff, Quiet, NothingIsCutOff
<1> QED
  BY <1>1, LifecycleInvariant, PTL

----------------------------------------------------------------------------
(* The store.                                                               *)

(* A set of numbers has a least one.                                        *)
LEMMA LeastNat ==
  ASSUME NEW T \in SUBSET Nat, T # {}
  PROVE  \E m \in T : \A n \in T : m <= n
<1>1. PICK R0 : R0 = OpToRel(<, Nat)
  OBVIOUS
<1>2. IsWellFoundedOn(R0, Nat)
  BY <1>1, NatLessThanWellFounded
<1>3. PICK m \in T : \A y \in T : ~(<<y, m>> \in R0)
  BY <1>2, WFMin
<1>4. R0 = {ss \in Nat \X Nat : ss[1] < ss[2]}
  BY <1>1 DEF OpToRel
<1>5. \A y \in T : ~(y < m)
  BY <1>3, <1>4
<1> QED
  BY <1>5

(* Induction over the numbers, for a set.                                   *)
LEMMA SetInduction ==
  ASSUME NEW T \in SUBSET Nat, 0 \in T, \A n \in T : n + 1 \in T
  PROVE  T = Nat
<1>1. SUFFICES ASSUME Nat \ T # {} PROVE FALSE
  OBVIOUS
<1>2. PICK m \in Nat \ T : \A n \in Nat \ T : m <= n
  BY <1>1, LeastNat
<1>3. m # 0 /\ m - 1 \in Nat /\ m - 1 \notin Nat \ T
  BY <1>2
<1> QED
  BY <1>2, <1>3

----------------------------------------------------------------------------
(* A transaction as a function of the contents, operation by operation.     *)

(* The contents that a function sees and what its operations have returned. *)
Seen(d, e, g, l) == [db |-> d, out |-> [err |-> e, got |-> g, listed |-> l]]

(* f is what the first k operations of the script come to.                  *)
Executes(f, k, script, contents) ==
    f = [i \in 0..k |-> IF i = 0 THEN Seen(contents, "ok", None, None)
                        ELSE R!Then(f[i - 1], script[i])]

After(script, contents) == CHOOSE f : Executes(f, Len(script), script, contents)

(* The function goes on for one operation more.                             *)
LEMMA ExecutesStep ==
  ASSUME NEW k \in Nat, NEW script, NEW contents, NEW g, Executes(g, k, script, contents)
  PROVE  \E h : Executes(h, k + 1, script, contents)
<1> DEFINE h == [i \in 0..(k + 1) |-> IF i <= k THEN g[i] ELSE R!Then(g[k], script[k + 1])]
<1>1. \A i \in 0..k : h[i] = g[i]
  OBVIOUS
<1>2. \A i \in 0..k : g[i] = IF i = 0 THEN Seen(contents, "ok", None, None)
                             ELSE R!Then(g[i - 1], script[i])
  BY DEF Executes
<1>3. h[k + 1] = R!Then(h[k], script[k + 1])
  BY <1>1
<1>4. \A i \in 0..(k + 1) : h[i] = IF i = 0 THEN Seen(contents, "ok", None, None)
                                   ELSE R!Then(h[i - 1], script[i])
  <2>1. ASSUME NEW i \in 0..k
        PROVE  h[i] = IF i = 0 THEN Seen(contents, "ok", None, None)
                      ELSE R!Then(h[i - 1], script[i])
    <3>1. CASE i = 0
      BY <1>1, <1>2, <3>1
    <3>2. CASE i # 0
      <4>1. i - 1 \in 0..k
        BY <3>2
      <4>2. PICK x, y : x = g[i - 1] /\ y = h[i - 1]
        OBVIOUS
      <4>3. x = y
        BY <1>1, <4>1, <4>2
      <4>4. g[i] = R!Then(x, script[i])
        BY <1>2, <3>2, <4>2
      <4>5. h[i] = R!Then(y, script[i])
        BY <1>1, <4>3, <4>4
      <4> QED
        BY <3>2, <4>2, <4>5
    <3> QED
      BY <3>1, <3>2
  <2> QED
    BY <1>3, <2>1
<1>5. h = [i \in 0..(k + 1) |-> h[i]]
  OBVIOUS
<1> HIDE DEF h
<1>6. Executes(h, k + 1, script, contents)
  BY <1>4, <1>5 DEF Executes
<1> QED
  BY <1>6

(* A function of any length comes to something.                             *)
LEMMA ExecutesExists ==
  ASSUME NEW k \in Nat, NEW script, NEW contents
  PROVE  \E f : Executes(f, k, script, contents)
<1> DEFINE T == {n \in Nat : \E f : Executes(f, n, script, contents)}
<1>1. 0 \in T
  <2>1. Executes([i \in 0..0 |-> Seen(contents, "ok", None, None)], 0, script, contents)
    BY DEF Executes
  <2> QED
    BY <2>1
<1>2. \A n \in T : n + 1 \in T
  BY ExecutesStep
<1>3. T = Nat
  <2> HIDE DEF T
  <2>1. T \in SUBSET Nat
    BY DEF T
  <2> QED
    BY <1>1, <1>2, <2>1, SetInduction
<1> QED
  BY <1>3

(* After is that.                                                           *)
LEMMA AfterExecutes ==
  ASSUME NEW script, NEW contents, Len(script) \in Nat
  PROVE  Executes(After(script, contents), Len(script), script, contents)
BY ExecutesExists DEF After

(* What a function comes to, operation by operation.                        *)
LEMMA AfterDef ==
  ASSUME NEW script, NEW contents, Len(script) \in Nat
  PROVE  /\ After(script, contents)[0] = Seen(contents, "ok", None, None)
         /\ \A i \in 0..(Len(script) - 1) :
               After(script, contents)[i + 1] = R!Then(After(script, contents)[i], script[i + 1])
<1>1. PICK f : f = After(script, contents) /\ Executes(f, Len(script), script, contents)
  BY AfterExecutes
<1>2. \A i \in 0..Len(script) : f[i] = IF i = 0 THEN Seen(contents, "ok", None, None)
                                       ELSE R!Then(f[i - 1], script[i])
  BY <1>1 DEF Executes
<1>3. f[0] = Seen(contents, "ok", None, None)
  BY <1>2
<1>4. ASSUME NEW i \in 0..(Len(script) - 1)
      PROVE  f[i + 1] = R!Then(f[i], script[i + 1])
  <2>1. PICK j : j = i + 1
    OBVIOUS
  <2>2. j \in 0..Len(script) /\ j # 0 /\ j - 1 = i
    BY <2>1
  <2>3. f[j] = R!Then(f[j - 1], script[j])
    BY <1>2, <2>2
  <2> QED
    BY <2>1, <2>2, <2>3
<1> QED
  BY <1>1, <1>3, <1>4

(* An operation and a transaction do not depend on what clients are told.   *)
LEMMA SameThen == \A s, op : R!Then(s, op) = A!Then(s, op)
BY DEF R!Then, A!Then, R!Error, A!Error, R!New, A!New

LEMMA SameRun == \A script, contents : R!Run(script, contents) = A!Run(script, contents)
BY SameThen DEF R!Run, A!Run, R!Nothing, A!Nothing

(* A transaction of the abstract store is all its operations in order.      *)
LEMMA RunIsAfter ==
  ASSUME NEW script, NEW contents, Len(script) \in Nat
  PROVE  A!Run(script, contents) = After(script, contents)[Len(script)]
BY AfterExecutes, SameRun DEF After, Executes, Seen, R!Run, R!Nothing

(* An operation after an error does nothing.                                *)
LEMMA AfterError ==
  ASSUME NEW script, NEW contents, Len(script) \in Nat, NEW i \in 0..Len(script),
         After(script, contents)[i].out.err # "ok"
  PROVE  After(script, contents)[Len(script)] = After(script, contents)[i]
<1> DEFINE T == {k \in Nat : i + k <= Len(script) =>
                    After(script, contents)[i + k] = After(script, contents)[i]}
<1>1. 0 \in T
  OBVIOUS
<1>2. ASSUME NEW k \in T PROVE k + 1 \in T
  <2>1. SUFFICES ASSUME i + (k + 1) <= Len(script)
                 PROVE  After(script, contents)[i + (k + 1)] = After(script, contents)[i]
    OBVIOUS
  <2>2. PICK j : j = i + k
    OBVIOUS
  <2>3. j \in 0..(Len(script) - 1) /\ j + 1 = i + (k + 1)
    BY <2>1, <2>2
  <2>4. After(script, contents)[j] = After(script, contents)[i]
    BY <2>1, <2>2, <2>3
  <2>5. After(script, contents)[j + 1] = R!Then(After(script, contents)[j], script[j + 1])
    BY <2>3, AfterDef
  <2>6. R!Then(After(script, contents)[j], script[j + 1]) = After(script, contents)[j]
    BY <2>4 DEF R!Then
  <2> QED
    BY <2>3, <2>4, <2>5, <2>6
<1>3. T = Nat
  <2> HIDE DEF T
  <2>1. T \in SUBSET Nat
    BY DEF T
  <2> QED
    BY <1>1, <1>2, <2>1, SetInduction
<1>4. PICK k \in Nat : i + k = Len(script)
  <2>1. Len(script) - i \in Nat /\ i + (Len(script) - i) = Len(script)
    OBVIOUS
  <2> QED
    BY <2>1
<1>5. k \in T
  BY <1>3
<1> QED
  BY <1>4, <1>5

(* What one operation comes to: its error or its effect.                    *)
LEMMA ThenIs ==
  ASSUME NEW d \in Contents, NEW g, NEW l, NEW s, s = Seen(d, "ok", g, l), NEW op,
         op.op \in {"create", "get", "update", "modify", "delete", "list"}
  PROVE
    /\ R!Error(s, op) # "ok" => R!Then(s, op) = Seen(d, R!Error(s, op), g, l)
    /\ R!Error(s, op) = "ok" =>
         /\ op.op = "get" => R!Then(s, op) = Seen(d, "ok", d[op.key], l)
         /\ op.op = "list" => R!Then(s, op) = Seen(d, "ok", g, d)
         /\ op.op \in {"create", "update", "modify", "delete"} =>
              R!Then(s, op) = Seen([d EXCEPT ![op.key] = R!New(s, op)], "ok", g, l)
<1>1. s.out.err = "ok" /\ s.db = d
  BY DEF Seen
<1>2. PICK e : e = R!Error(s, op)
  OBVIOUS
<1>3. PICK n : n = R!New(s, op)
  OBVIOUS
<1>4. ASSUME e # "ok" PROVE R!Then(s, op) = Seen(d, e, g, l)
  <2>1. R!Then(s, op) = [s EXCEPT !.out.err = e]
    BY <1>1, <1>2, <1>4 DEF R!Then
  <2> QED
    BY <2>1 DEF Seen
<1>5. ASSUME e = "ok", op.op = "get" PROVE R!Then(s, op) = Seen(d, "ok", d[op.key], l)
  <2>1. R!Then(s, op) = [s EXCEPT !.out.got = d[op.key]]
    BY <1>1, <1>2, <1>5 DEF R!Then
  <2> QED
    BY <2>1 DEF Seen
<1>6. ASSUME e = "ok", op.op = "list" PROVE R!Then(s, op) = Seen(d, "ok", g, d)
  <2>1. R!Then(s, op) = [s EXCEPT !.out.listed = d]
    BY <1>1, <1>2, <1>6 DEF R!Then
  <2> QED
    BY <2>1 DEF Seen
<1>7. ASSUME e = "ok", op.op \in {"create", "update", "modify", "delete"}
      PROVE  R!Then(s, op) = Seen([d EXCEPT ![op.key] = n], "ok", g, l)
  <2>1. R!Then(s, op) = [s EXCEPT !.db[op.key] = n]
    BY <1>1, <1>2, <1>3, <1>7 DEF R!Then
  <2> QED
    BY <2>1 DEF Seen
<1> QED
  BY <1>2, <1>3, <1>4, <1>5, <1>6, <1>7

----------------------------------------------------------------------------
(* The inductive invariant.                                                 *)

StoreTypeOK ==
    /\ disk \in Contents
    /\ writer \in Clients \cup {None}
    /\ writer # None => draft \in Contents
    /\ snapshot \in [Clients -> Contents \cup {None}]
    /\ call \in [Clients -> Views \cup Updates \cup {None}]
    /\ pos \in [Clients -> Nat]
    /\ err \in [Clients -> (Errors \ {"failed"}) \cup {"ok"}]
    /\ got \in [Clients -> Values \cup {None}]
    /\ listed \in [Clients -> Contents \cup {None}]
    /\ answer \in [Clients -> Answer \cup {None}]

(* Outside a transaction a client has no results. *)
Outside(c) ==
    ~InTx(c) => pos[c] = 0 /\ err[c] = "ok" /\ got[c] = None /\ listed[c] = None

(* In one it has not answered yet, and has done pos[c] of the operations of *)
(* its function, from the contents that the transaction began with.         *)
Inside(c) ==
    /\ writer = c => snapshot[c] = None /\ call[c] \in Updates
    /\ snapshot[c] # None => call[c] \in Views
    /\ InTx(c) =>
        /\ answer[c] = None
        /\ pos[c] <= Len(call[c])
        /\ \A i \in 1..pos[c] : err[c] = "ok" /\ call[c][i].op = "get" => got[c] # None
        /\ LET contents == IF writer = c THEN disk ELSE snapshot[c]
           IN  Seen(View(c), err[c], got[c], listed[c]) = After(call[c], contents)[pos[c]]

StoreIInv == StoreTypeOK /\ \A c \in Clients : Outside(c) /\ Inside(c)

(* The methods of Collection and the functions are sequences of operations. *)
LEMMA ScriptTypes ==
  /\ Views \cup Updates \subseteq Seq(Operation)
  /\ \A script \in Views \cup Updates : \A i \in 1..Len(script) :
        script[i].op = "update" => \E j \in 1..(i - 1) : script[j].op = "get"
<1>1. ASSUME NEW op \in Operation
      PROVE  <<op>> \in Seq(Operation) /\ Len(<<op>>) = 1 /\ <<op>>[1] = op
  OBVIOUS
<1>2. ASSUME NEW k \in Keys
      PROVE  /\ [op |-> "create", key |-> k, value |-> Initial] \in Operation
             /\ [op |-> "get", key |-> k] \in Operation
             /\ [op |-> "modify", key |-> k] \in Operation
             /\ [op |-> "delete", key |-> k] \in Operation
  BY StoreAssumption DEF Operation
<1>3. [op |-> "list"] \in Operation
  BY DEF Operation
<1>4. ASSUME NEW script \in Views \cup Updates
      PROVE  \/ script \in Functions
             \/ \E op \in Operation : script = <<op>> /\ op.op # "update"
  BY <1>2, <1>3 DEF Views, Updates, Create, Get, Modify, Delete, List
<1>5. ASSUME NEW script \in Functions
      PROVE  /\ script \in Seq(Operation)
             /\ \A i \in 1..Len(script) :
                  script[i].op = "update" => \E j \in 1..(i - 1) : script[j].op = "get"
  BY StoreAssumption
<1>6. ASSUME NEW script \in Views \cup Updates
      PROVE  /\ script \in Seq(Operation)
             /\ \A i \in 1..Len(script) :
                  script[i].op = "update" => \E j \in 1..(i - 1) : script[j].op = "get"
  <2>1. ASSUME NEW op \in Operation, script = <<op>>, op.op # "update"
        PROVE  /\ script \in Seq(Operation)
               /\ \A i \in 1..Len(script) : script[i].op # "update"
    BY <1>1, <2>1
  <2> QED
    BY <1>4, <1>5, <2>1
<1> QED
  BY <1>6

(* One operation of a function: on the contents that the function sees, it  *)
(* does what the operation comes to.                                        *)
Operates(c, d, e, g, l) ==
    /\ InTx(c) /\ err[c] = "ok" /\ pos[c] < Len(call[c])
    /\ UNCHANGED <<disk, writer, snapshot, call, answer>>
    /\ draft' = IF writer = c THEN d ELSE draft
    /\ writer # c => d = snapshot[c]
    /\ pos' = [pos EXCEPT ![c] = @ + 1]
    /\ err' = [err EXCEPT ![c] = e]
    /\ got' = [got EXCEPT ![c] = g]
    /\ listed' = [listed EXCEPT ![c] = l]
    /\ d \in Contents /\ e \in (Errors \ {"failed"}) \cup {"ok"}
    /\ g \in Values \cup {None} /\ l \in Contents \cup {None}
    /\ e = "ok" /\ (got[c] # None \/ call[c][pos[c] + 1].op = "get") => g # None
    /\ Seen(d, e, g, l)
          = R!Then(Seen(View(c), "ok", got[c], listed[c]), call[c][pos[c] + 1])

(* The operation that is next, and what it finds.                           *)
LEMMA OperationFacts ==
  ASSUME StoreIInv, NEW c \in Clients, InTx(c), ~Ended(c)
  PROVE  /\ call[c] \in Seq(Operation) /\ Len(call[c]) \in Nat
         /\ pos[c] \in Nat /\ pos[c] < Len(call[c]) /\ err[c] = "ok"
         /\ call[c][pos[c] + 1] \in Operation
         /\ View(c) \in Contents
         /\ call[c][pos[c] + 1].op = "update" => got[c] \in Values
<1>1. /\ call[c] \in Views \cup Updates /\ Inside(c) /\ pos[c] \in Nat
      /\ got[c] \in Values \cup {None}
  BY DEF StoreIInv, StoreTypeOK, Inside, InTx
<1>2. call[c] \in Seq(Operation) /\ Len(call[c]) \in Nat
  BY <1>1, ScriptTypes
<1>3. err[c] = "ok" /\ pos[c] < Len(call[c])
  BY <1>1, <1>2 DEF Ended, Inside
<1>4. call[c][pos[c] + 1] \in Operation
  BY <1>1, <1>2, <1>3
<1>5. View(c) \in Contents
  BY StoreAssumption DEF StoreIInv, StoreTypeOK, InTx, View
<1>6. ASSUME call[c][pos[c] + 1].op = "update"
      PROVE  got[c] \in Values
  <2>1. PICK i \in 1..Len(call[c]) : i = pos[c] + 1
    BY <1>1, <1>2, <1>3
  <2>2. PICK j \in 1..(i - 1) : call[c][j].op = "get"
    BY <1>1, <1>6, <2>1, ScriptTypes
  <2>3. got[c] # None
    BY <1>1, <1>3, <2>1, <2>2 DEF Inside
  <2> QED
    BY <1>1, <2>3
<1> QED
  BY <1>1, <1>2, <1>3, <1>4, <1>5, <1>6

OpStep(c) ==
    CreateTx(c) \/ GetTx(c) \/ UpdateTx(c) \/ ModifyTx(c) \/ DeleteTx(c) \/ ListTx(c)

(* Each ...Tx method does what its operation comes to.                      *)
LEMMA StepOperates ==
  ASSUME StoreIInv, NEW c \in Clients, OpStep(c)
  PROVE  \E d, e, g, l : Operates(c, d, e, g, l)
<1>1. InTx(c) /\ ~Ended(c)
  BY DEF OpStep, CreateTx, GetTx, UpdateTx, ModifyTx, DeleteTx, ListTx, InTx, At
<1> DEFINE op == call[c][pos[c] + 1]
           s == Seen(View(c), "ok", got[c], listed[c])
<1>2. /\ op \in Operation /\ View(c) \in Contents /\ err[c] = "ok" /\ pos[c] < Len(call[c])
      /\ op.op = "update" => got[c] \in Values
  BY <1>1, OperationFacts
<1>3. /\ op.op \in {"create", "get", "update", "modify", "delete", "list"}
      /\ op.op # "list" => op.key \in Keys
      /\ op.op = "create" => op.value \in Values
  BY <1>2 DEF Operation
<1>4. /\ s.db = View(c) /\ s.out.got = got[c]
  BY DEF Seen
<1>5. /\ err \in [Clients -> (Errors \ {"failed"}) \cup {"ok"}]
      /\ got \in [Clients -> Values \cup {None}]
      /\ listed \in [Clients -> Contents \cup {None}]
  BY DEF StoreIInv, StoreTypeOK
<1>6. /\ R!Error(s, op) # "ok" => R!Then(s, op) = Seen(View(c), R!Error(s, op), got[c], listed[c])
      /\ R!Error(s, op) = "ok" =>
         /\ op.op = "get" => R!Then(s, op) = Seen(View(c), "ok", View(c)[op.key], listed[c])
         /\ op.op = "list" => R!Then(s, op) = Seen(View(c), "ok", got[c], View(c))
         /\ op.op \in {"create", "update", "modify", "delete"} =>
              R!Then(s, op) = Seen([View(c) EXCEPT ![op.key] = R!New(s, op)], "ok", got[c], listed[c])
  <2>1. PICK o, d, g, l, t :
           o = op /\ d = View(c) /\ g = got[c] /\ l = listed[c] /\ t = Seen(d, "ok", g, l)
    OBVIOUS
  <2>2. d \in Contents /\ o.op \in {"create", "get", "update", "modify", "delete", "list"}
    BY <1>2, <1>3, <2>1
  <2>3. /\ R!Error(t, o) # "ok" => R!Then(t, o) = Seen(d, R!Error(t, o), g, l)
        /\ R!Error(t, o) = "ok" =>
           /\ o.op = "get" => R!Then(t, o) = Seen(d, "ok", d[o.key], l)
           /\ o.op = "list" => R!Then(t, o) = Seen(d, "ok", g, d)
           /\ o.op \in {"create", "update", "modify", "delete"} =>
                R!Then(t, o) = Seen([d EXCEPT ![o.key] = R!New(t, o)], "ok", g, l)
    BY <2>1, <2>2, ThenIs
  <2>4. o = op /\ t = s
    BY <2>1
  <2> QED
    BY <2>1, <2>3, <2>4
<1>7. /\ UNCHANGED <<disk, writer, snapshot, call, answer>>
      /\ pos' = [pos EXCEPT ![c] = @ + 1]
  BY DEF OpStep, CreateTx, GetTx, UpdateTx, ModifyTx, DeleteTx, ListTx, Advances
<1>8. writer = c => View(c) = draft
  BY DEF View
<1>9. writer # c => View(c) = snapshot[c]
  BY DEF View
(* The operation fails. *)
<1>10. ASSUME NEW e \in Errors \ {"failed"}, Errs(c, e), listed' = listed, R!Error(s, op) = e
       PROVE  Operates(c, View(c), e, got[c], listed[c])
  <2>1. /\ err' = [err EXCEPT ![c] = e] /\ got' = [got EXCEPT ![c] = got[c]]
        /\ listed' = [listed EXCEPT ![c] = listed[c]] /\ draft' = draft
    BY <1>5, <1>10 DEF Errs
  <2>2. e # "ok"
    BY DEF Errors
  <2>3. R!Then(s, op) = Seen(View(c), e, got[c], listed[c])
    BY <1>6, <1>10, <2>2
  <2>4. got[c] \in Values \cup {None} /\ listed[c] \in Contents \cup {None}
    BY <1>5
  <2> QED
    BY <1>1, <1>2, <1>7, <1>8, <1>9, <2>1, <2>2, <2>3, <2>4 DEF Operates
(* The operation writes. *)
<1>11. ASSUME NEW v \in Values \cup {None}, writer = c, Puts(op.key, v), listed' = listed,
              op.op \in {"create", "update", "modify", "delete"},
              R!Error(s, op) = "ok", R!New(s, op) = v
       PROVE  Operates(c, [View(c) EXCEPT ![op.key] = v], "ok", got[c], listed[c])
  <2>1. /\ err' = [err EXCEPT ![c] = "ok"] /\ got' = [got EXCEPT ![c] = got[c]]
        /\ listed' = [listed EXCEPT ![c] = listed[c]]
        /\ draft' = [View(c) EXCEPT ![op.key] = v]
    BY <1>2, <1>5, <1>8, <1>11 DEF Puts
  <2>2. [View(c) EXCEPT ![op.key] = v] \in Contents
    BY <1>2, <1>3, <1>11 DEF Contents
  <2>3. R!Then(s, op) = Seen([View(c) EXCEPT ![op.key] = v], "ok", got[c], listed[c])
    BY <1>6, <1>11
  <2>4. got[c] \in Values \cup {None} /\ listed[c] \in Contents \cup {None}
    BY <1>5
  <2>5. op.op # "get"
    BY <1>11
  <2> QED
    BY <1>1, <1>2, <1>7, <1>11, <2>1, <2>2, <2>3, <2>4, <2>5 DEF Operates
<1>12. ASSUME CreateTx(c) PROVE \E d, e, g, l : Operates(c, d, e, g, l)
  <2>1. writer = c /\ op.op = "create" /\ View(c) = draft /\ listed' = listed
    BY <1>12 DEF CreateTx, At, View
  <2>2. CASE draft[op.key] # None /\ Errs(c, "exists")
    <3>1. R!Error(s, op) = "exists"
      BY <1>4, <2>1, <2>2 DEF R!Error
    <3> QED
      BY <1>10, <2>1, <2>2, <3>1 DEF Errors
  <2>3. CASE draft[op.key] = None /\ Puts(op.key, op.value)
    <3>1. R!Error(s, op) = "ok" /\ R!New(s, op) = op.value
      BY <1>4, <2>1, <2>3 DEF R!Error, R!New
    <3> QED
      BY <1>3, <1>11, <2>1, <2>3, <3>1
  <2> QED
    BY <1>12, <2>2, <2>3 DEF CreateTx, Key, Value
<1>13. ASSUME GetTx(c) PROVE \E d, e, g, l : Operates(c, d, e, g, l)
  <2>1. op.op = "get" /\ listed' = listed
    BY <1>13 DEF GetTx, At
  <2> DEFINE value == View(c)[op.key]
  <2>2. CASE value = None /\ Errs(c, "not found")
    <3>1. R!Error(s, op) = "not found"
      BY <1>4, <2>1, <2>2 DEF R!Error
    <3> QED
      BY <1>10, <2>1, <2>2, <3>1 DEF Errors
  <2>3. CASE value = Unreadable /\ Errs(c, "not decoded")
    <3>1. R!Error(s, op) = "not decoded"
      BY <1>4, <2>1, <2>3, StoreAssumption DEF R!Error
    <3> QED
      BY <1>10, <2>1, <2>3, <3>1 DEF Errors
  <2>4. CASE value \in Values /\ got' = [got EXCEPT ![c] = value] /\ UNCHANGED <<draft, err>>
    <3>1. R!Error(s, op) = "ok"
      BY <1>4, <2>1, <2>4, StoreAssumption DEF R!Error
    <3>2. R!Then(s, op) = Seen(View(c), "ok", value, listed[c])
      BY <1>6, <2>1, <3>1
    <3>3. /\ err' = [err EXCEPT ![c] = "ok"] /\ listed' = [listed EXCEPT ![c] = listed[c]]
          /\ listed[c] \in Contents \cup {None} /\ value # None
      BY <1>2, <1>5, <2>1, <2>4, StoreAssumption
    <3>4. Operates(c, View(c), "ok", value, listed[c])
      BY <1>1, <1>2, <1>7, <1>8, <1>9, <2>4, <3>2, <3>3 DEF Operates
    <3> QED
      BY <3>4
  <2> QED
    BY <1>13, <2>2, <2>3, <2>4 DEF GetTx, Key
<1>14. ASSUME UpdateTx(c) PROVE \E d, e, g, l : Operates(c, d, e, g, l)
  <2>1. /\ writer = c /\ op.op = "update" /\ View(c) = draft /\ listed' = listed
        /\ got[c] \in Values
    BY <1>2, <1>14 DEF UpdateTx, At, View
  <2>2. R!New(s, op) = Change[got[c]]
    BY <1>4, <2>1 DEF R!New
  <2>3. CASE draft[op.key] = None /\ Errs(c, "not found")
    <3>1. R!Error(s, op) = "not found"
      BY <1>4, <2>1, <2>3 DEF R!Error
    <3> QED
      BY <1>10, <2>1, <2>3, <3>1 DEF Errors
  <2>4. CASE draft[op.key] # None /\ Change[got[c]] = None /\ Errs(c, "refused")
    <3>1. R!Error(s, op) = "refused"
      BY <1>4, <2>1, <2>2, <2>4 DEF R!Error
    <3> QED
      BY <1>10, <2>1, <2>4, <3>1 DEF Errors
  <2>5. CASE /\ draft[op.key] # None /\ Change[got[c]] # None
             /\ Puts(op.key, Change[got[c]])
    <3>1. R!Error(s, op) = "ok"
      BY <1>4, <2>1, <2>2, <2>5 DEF R!Error
    <3>2. Change[got[c]] \in Values \cup {None}
      BY <2>1, StoreAssumption
    <3> QED
      BY <1>11, <2>1, <2>2, <2>5, <3>1, <3>2
  <2> QED
    BY <1>14, <2>3, <2>4, <2>5 DEF UpdateTx, Key
<1>15. ASSUME ModifyTx(c) PROVE \E d, e, g, l : Operates(c, d, e, g, l)
  <2>1. writer = c /\ op.op = "modify" /\ View(c) = draft /\ listed' = listed
    BY <1>15 DEF ModifyTx, At, View
  <2> DEFINE old == draft[op.key]
  <2>2. R!New(s, op) = Change[old]
    BY <1>4, <2>1 DEF R!New
  <2>3. CASE old = None /\ Errs(c, "not found")
    <3>1. R!Error(s, op) = "not found"
      BY <1>4, <2>1, <2>3 DEF R!Error
    <3> QED
      BY <1>10, <2>1, <2>3, <3>1 DEF Errors
  <2>4. CASE old = Unreadable /\ Errs(c, "not decoded")
    <3>1. R!Error(s, op) = "not decoded"
      BY <1>4, <2>1, <2>4, StoreAssumption DEF R!Error
    <3> QED
      BY <1>10, <2>1, <2>4, <3>1 DEF Errors
  <2>5. CASE old \in Values /\ Change[old] = None /\ Errs(c, "refused")
    <3>1. R!Error(s, op) = "refused"
      BY <1>4, <2>1, <2>2, <2>5, StoreAssumption DEF R!Error
    <3> QED
      BY <1>10, <2>1, <2>5, <3>1 DEF Errors
  <2>6. CASE old \in Values /\ Change[old] # None /\ Puts(op.key, Change[old])
    <3>1. R!Error(s, op) = "ok"
      BY <1>4, <2>1, <2>2, <2>6, StoreAssumption DEF R!Error
    <3>2. Change[old] \in Values \cup {None}
      BY <2>6, StoreAssumption
    <3> QED
      BY <1>11, <2>1, <2>2, <2>6, <3>1, <3>2
  <2> QED
    BY <1>15, <2>3, <2>4, <2>5, <2>6 DEF ModifyTx, Key
<1>16. ASSUME DeleteTx(c) PROVE \E d, e, g, l : Operates(c, d, e, g, l)
  <2>1. /\ writer = c /\ op.op = "delete" /\ View(c) = draft /\ listed' = listed
        /\ Puts(op.key, None)
    BY <1>16 DEF DeleteTx, At, View, Key
  <2>2. R!Error(s, op) = "ok" /\ R!New(s, op) = None
    BY <2>1 DEF R!Error, R!New
  <2> QED
    BY <1>11, <2>1, <2>2
<1>17. ASSUME ListTx(c) PROVE \E d, e, g, l : Operates(c, d, e, g, l)
  <2>1. op.op = "list"
    BY <1>17 DEF ListTx, At
  <2>2. CASE /\ \E k \in Keys : View(c)[k] = Unreadable
             /\ Errs(c, "not decoded") /\ UNCHANGED listed
    <3>1. R!Error(s, op) = "not decoded"
      BY <1>4, <2>1, <2>2 DEF R!Error
    <3> QED
      BY <1>10, <2>2, <3>1 DEF Errors
  <2>3. CASE /\ \A k \in Keys : View(c)[k] # Unreadable
             /\ listed' = [listed EXCEPT ![c] = View(c)]
             /\ UNCHANGED <<draft, err, got>>
    <3>1. R!Error(s, op) = "ok"
      BY <1>4, <2>1, <2>3 DEF R!Error
    <3>2. R!Then(s, op) = Seen(View(c), "ok", got[c], View(c))
      BY <1>6, <2>1, <3>1
    <3>3. /\ err' = [err EXCEPT ![c] = "ok"] /\ got' = [got EXCEPT ![c] = got[c]]
          /\ got[c] \in Values \cup {None}
      BY <1>2, <1>5, <2>3
    <3>4. op.op # "get"
      BY <2>1
    <3>5. Operates(c, View(c), "ok", got[c], View(c))
      BY <1>1, <1>2, <1>7, <1>8, <1>9, <2>3, <3>2, <3>3, <3>4 DEF Operates
    <3> QED
      BY <3>5
  <2> QED
    BY <1>17, <2>2, <2>3 DEF ListTx
<1> QED
  BY <1>12, <1>13, <1>14, <1>15, <1>16, <1>17 DEF OpStep

(* A client that takes no part in a step.                                   *)
LEMMA Bystander ==
  ASSUME NEW x \in Clients, Outside(x), Inside(x),
         call'[x] = call[x], snapshot'[x] = snapshot[x], answer'[x] = answer[x],
         pos'[x] = pos[x], err'[x] = err[x], got'[x] = got[x], listed'[x] = listed[x],
         writer' = x <=> writer = x,
         writer = x => disk' = disk /\ draft' = draft
  PROVE  Outside(x)' /\ Inside(x)'
<1>1. Outside(x)'
  BY DEF Outside, InTx
<1>2. Inside(x)'
  <2>1. CASE writer = x
    BY <2>1 DEF Inside, InTx, View
  <2>2. CASE writer # x
    BY <2>2 DEF Inside, InTx, View
  <2> QED
    BY <2>1, <2>2
<1> QED
  BY <1>1, <1>2

(* A client that is in no transaction after a step.                         *)
LEMMA Outsider ==
  ASSUME NEW x \in Clients, writer' # x, snapshot'[x] = None,
         pos'[x] = 0, err'[x] = "ok", got'[x] = None, listed'[x] = None
  PROVE  Outside(x)' /\ Inside(x)'
BY DEF Outside, Inside, InTx

(* An operation keeps the invariant.                                        *)
LEMMA OperatesKeeps ==
  ASSUME StoreIInv, NEW c \in Clients, NEW d, NEW e, NEW g, NEW l, Operates(c, d, e, g, l)
  PROVE  StoreIInv'
<1>1. StoreTypeOK /\ Outside(c) /\ Inside(c)
  BY DEF StoreIInv
<1>2. ~Ended(c) /\ InTx(c)
  BY DEF Operates, Ended
<1>3. /\ call[c] \in Seq(Operation) /\ Len(call[c]) \in Nat
      /\ pos[c] \in Nat /\ pos[c] < Len(call[c]) /\ err[c] = "ok"
  BY <1>2, OperationFacts
<1>4. /\ disk' = disk /\ writer' = writer /\ snapshot' = snapshot /\ call' = call
      /\ answer' = answer /\ draft' = IF writer = c THEN d ELSE draft
      /\ pos' = [pos EXCEPT ![c] = @ + 1] /\ err' = [err EXCEPT ![c] = e]
      /\ got' = [got EXCEPT ![c] = g] /\ listed' = [listed EXCEPT ![c] = l]
      /\ writer # c => d = snapshot[c]
  BY DEF Operates
<1>5. /\ d \in Contents /\ e \in (Errors \ {"failed"}) \cup {"ok"}
      /\ g \in Values \cup {None} /\ l \in Contents \cup {None}
      /\ e = "ok" /\ (got[c] # None \/ call[c][pos[c] + 1].op = "get") => g # None
      /\ Seen(d, e, g, l)
            = R!Then(Seen(View(c), "ok", got[c], listed[c]), call[c][pos[c] + 1])
  BY DEF Operates
<1>6. StoreTypeOK'
  BY <1>1, <1>4, <1>5 DEF StoreTypeOK
<1>7. /\ pos'[c] = pos[c] + 1 /\ err'[c] = e /\ got'[c] = g /\ listed'[c] = l
  BY <1>1, <1>4 DEF StoreTypeOK
<1>8. ASSUME NEW x \in Clients, x # c PROVE Outside(x)' /\ Inside(x)'
  <2>1. Outside(x) /\ Inside(x)
    BY DEF StoreIInv
  <2>2. /\ pos'[x] = pos[x] /\ err'[x] = err[x] /\ got'[x] = got[x]
        /\ listed'[x] = listed[x]
    BY <1>1, <1>4, <1>8 DEF StoreTypeOK
  <2> QED
    BY <1>4, <1>8, <2>1, <2>2, Bystander
<1>9. Outside(c)' /\ Inside(c)'
  <2>1. PICK contents : contents = IF writer = c THEN disk ELSE snapshot[c]
    OBVIOUS
  <2>2. Seen(View(c), "ok", got[c], listed[c]) = After(call[c], contents)[pos[c]]
    BY <1>1, <1>2, <1>3, <2>1 DEF Inside
  <2>3. After(call[c], contents)[pos[c] + 1]
          = R!Then(After(call[c], contents)[pos[c]], call[c][pos[c] + 1])
    BY <1>3, AfterDef
  <2>4. Seen(d, e, g, l) = After(call[c], contents)[pos[c] + 1]
    BY <1>5, <2>2, <2>3
  <2>5. d = IF writer' = c THEN draft' ELSE snapshot'[c]
    BY <1>4
  <2>6. pos'[c] <= Len(call[c])
    BY <1>3, <1>7
  <2>7. \A i \in 1..pos'[c] : err'[c] = "ok" /\ call[c][i].op = "get" => got'[c] # None
    <3>1. SUFFICES ASSUME NEW i \in 1..(pos[c] + 1), e = "ok", call[c][i].op = "get"
                   PROVE  g # None
      BY <1>7
    <3>2. CASE i = pos[c] + 1
      BY <1>5, <3>1, <3>2
    <3>3. CASE i \in 1..pos[c]
      BY <1>1, <1>2, <1>3, <1>5, <3>1, <3>3 DEF Inside
    <3> QED
      BY <1>3, <3>2, <3>3
  <2>8. InTx(c)'
    BY <1>2, <1>4 DEF InTx
  <2>9. Outside(c)'
    BY <2>8 DEF Outside
  <2>10. answer'[c] = None
    BY <1>1, <1>2, <1>4 DEF Inside
  <2>11. /\ writer' = c => snapshot'[c] = None /\ call'[c] \in Updates
         /\ snapshot'[c] # None => call'[c] \in Views
    BY <1>1, <1>4 DEF Inside
  <2>12. View(c)' = d
    BY <1>4, <2>5 DEF View
  <2>13. contents = IF writer' = c THEN disk' ELSE snapshot'[c]
    BY <1>4, <2>1
  <2>14. Inside(c)'
    BY <1>4, <1>7, <2>4, <2>6, <2>7, <2>10, <2>11, <2>12, <2>13 DEF Inside
  <2> QED
    BY <2>9, <2>14
<1> QED
  BY <1>6, <1>8, <1>9 DEF StoreIInv

(* An operation is not yet a step of the abstract store.                    *)
LEMMA OperatesMaps ==
  ASSUME StoreIInv, NEW c \in Clients, NEW d, NEW e, NEW g, NEW l, Operates(c, d, e, g, l)
  PROVE  UNCHANGED <<disk, call, Told>>
BY DEF Operates, Told

(* A function that has ended has come to what the transaction comes to.     *)
LEMMA EndedIsRun ==
  ASSUME StoreIInv, NEW c \in Clients, InTx(c), Ended(c),
         NEW contents, contents = IF writer = c THEN disk ELSE snapshot[c]
  PROVE  A!Run(call[c], contents) = Seen(View(c), err[c], got[c], listed[c])
<1>1. /\ call[c] \in Views \cup Updates /\ pos[c] \in Nat /\ Inside(c)
  BY DEF StoreIInv, StoreTypeOK, Inside, InTx
<1>2. Len(call[c]) \in Nat /\ pos[c] \in 0..Len(call[c])
  BY <1>1, ScriptTypes DEF Inside
<1>3. Seen(View(c), err[c], got[c], listed[c]) = After(call[c], contents)[pos[c]]
  BY <1>1 DEF Inside
<1>4. A!Run(call[c], contents) = After(call[c], contents)[Len(call[c])]
  BY <1>2, RunIsAfter
<1>5. CASE pos[c] = Len(call[c])
  BY <1>3, <1>4, <1>5
<1>6. CASE err[c] # "ok"
  <2>1. After(call[c], contents)[pos[c]].out.err # "ok"
    BY <1>3, <1>6 DEF Seen
  <2>2. After(call[c], contents)[Len(call[c])] = After(call[c], contents)[pos[c]]
    BY <1>2, <2>1, AfterError
  <2> QED
    BY <1>3, <1>4, <2>2
<1> QED
  BY <1>5, <1>6 DEF Ended

(* The invariant holds when the store is opened for the first time.         *)
LEMMA InitIInv == StoreInit => StoreIInv
BY StoreAssumption DEF StoreInit, StoreIInv, StoreTypeOK, Outside, Inside, InTx

(* How a transaction of c can end. *)
EndsWith(c, e) ==
    /\ InTx(c)
    /\ Returns(c, e)
    /\ e \in Errors \cup {"ok"}
    /\ writer' = (IF writer = c THEN None ELSE writer)
    /\ snapshot' = [snapshot EXCEPT ![c] = None]
    /\ call' = call
    /\ disk' \in Contents
    /\ writer # c => disk' = disk /\ draft' = draft

(* The end of a transaction keeps the invariant.                            *)
LEMMA EndsWithKeeps ==
  ASSUME StoreIInv, NEW c \in Clients, NEW e, EndsWith(c, e)
  PROVE  StoreIInv'
<1>1. StoreTypeOK
  BY DEF StoreIInv
<1>2. /\ pos' = [pos EXCEPT ![c] = 0] /\ err' = [err EXCEPT ![c] = "ok"]
      /\ got' = [got EXCEPT ![c] = None] /\ listed' = [listed EXCEPT ![c] = None]
  BY DEF EndsWith, Returns, Forgets
<1>3. PICK r \in Answer : answer' = [answer EXCEPT ![c] = r]
  <2> DEFINE r == [err |-> e, got |-> IF e = "failed" THEN None ELSE got[c],
                   listed |-> IF e = "failed" THEN None ELSE listed[c]]
  <2>1. r \in Answer
    BY <1>1 DEF Answer, StoreTypeOK, EndsWith
  <2>2. answer' = [answer EXCEPT ![c] = r]
    BY DEF EndsWith, Returns
  <2> QED
    BY <2>1, <2>2
<1>4. /\ writer' = (IF writer = c THEN None ELSE writer)
      /\ snapshot' = [snapshot EXCEPT ![c] = None] /\ call' = call
      /\ disk' \in Contents
      /\ writer # c => disk' = disk /\ draft' = draft
  BY DEF EndsWith
<1>5. StoreTypeOK'
  BY <1>1, <1>2, <1>3, <1>4 DEF StoreTypeOK
<1>6. ASSUME NEW x \in Clients, x # c PROVE Outside(x)' /\ Inside(x)'
  <2>1. Outside(x) /\ Inside(x) /\ x # None
    BY StoreAssumption DEF StoreIInv
  <2>2. /\ pos'[x] = pos[x] /\ err'[x] = err[x] /\ got'[x] = got[x]
        /\ listed'[x] = listed[x] /\ answer'[x] = answer[x] /\ snapshot'[x] = snapshot[x]
        /\ call'[x] = call[x]
    BY <1>1, <1>2, <1>3, <1>4, <1>6 DEF StoreTypeOK
  <2> QED
    BY <1>4, <1>6, <2>1, <2>2, Bystander
<1>7. Outside(c)' /\ Inside(c)'
  <2>1. c # None
    BY StoreAssumption
  <2>2. writer' # c /\ snapshot'[c] = None
    BY <1>1, <1>4, <2>1 DEF StoreTypeOK
  <2>3. /\ pos'[c] = 0 /\ err'[c] = "ok" /\ got'[c] = None /\ listed'[c] = None
    BY <1>1, <1>2 DEF StoreTypeOK
  <2> QED
    BY <2>2, <2>3, Outsider
<1> QED
  BY <1>5, <1>6, <1>7 DEF StoreIInv

(* The four ways in which a transaction ends.                               *)
LEMMA StepEnds ==
  ASSUME StoreIInv, NEW c \in Clients,
         Commit(c) \/ CommitFails(c) \/ Rollback(c) \/ EndView(c)
  PROVE  \E e : EndsWith(c, e)
<1>1. StoreTypeOK /\ Outside(c) /\ Inside(c) /\ c # None
  BY StoreAssumption DEF StoreIInv
<1>2. /\ snapshot \in [Clients -> Contents \cup {None}] /\ disk \in Contents
      /\ err[c] \in Errors \cup {"ok"} /\ "failed" \in Errors
      /\ writer = c => draft \in Contents /\ snapshot[c] = None
  BY <1>1 DEF StoreTypeOK, Inside, Errors
<1>3. writer = c => snapshot = [snapshot EXCEPT ![c] = None]
  BY <1>2
<1>4. ASSUME Commit(c) PROVE EndsWith(c, "ok")
  BY <1>2, <1>3, <1>4 DEF Commit, EndsWith, InTx
<1>5. ASSUME CommitFails(c) PROVE EndsWith(c, "failed")
  BY <1>2, <1>3, <1>5 DEF CommitFails, EndsWith, InTx
<1>6. ASSUME Rollback(c) PROVE EndsWith(c, err[c])
  BY <1>2, <1>3, <1>6 DEF Rollback, EndsWith, InTx
<1>7. ASSUME EndView(c) PROVE EndsWith(c, err[c])
  BY <1>2, <1>3, <1>7 DEF EndView, EndsWith, InTx
<1> QED
  BY <1>4, <1>5, <1>6, <1>7

(* Every step of the store keeps the invariant.                             *)
LEMMA NextIInv == StoreIInv /\ [StoreNext]_storeVars => StoreIInv'
<1> SUFFICES ASSUME StoreIInv, [StoreNext]_storeVars PROVE StoreIInv'
  OBVIOUS
<1>1. /\ StoreTypeOK /\ \A x \in Clients : Outside(x) /\ Inside(x)
      /\ None \notin Clients
  BY StoreAssumption DEF StoreIInv
<1>2. ASSUME NEW c \in Clients, Call(c) PROVE StoreIInv'
  <2>1. PICK script \in Views \cup Updates : call' = [call EXCEPT ![c] = script]
    BY <1>2 DEF Call
  <2>2. UNCHANGED <<disk, isOpen, writer, draft, snapshot, local, answer>>
    BY <1>2 DEF Call
  <2>3. StoreTypeOK'
    BY <1>1, <2>1, <2>2 DEF StoreTypeOK, local
  <2>4. ASSUME NEW x \in Clients, x # c PROVE Outside(x)' /\ Inside(x)'
    <3>1. call'[x] = call[x]
      BY <1>1, <2>1, <2>4 DEF StoreTypeOK
    <3> QED
      BY <1>1, <2>2, <3>1, Bystander DEF local
  <2>5. Outside(c)' /\ Inside(c)'
    <3>1. ~InTx(c)
      BY <1>1, <1>2, StoreAssumption DEF Call, Inside, InTx
    <3> QED
      BY <1>1, <2>2, <3>1, Outsider DEF local, InTx, Outside
  <2> QED
    BY <2>3, <2>4, <2>5 DEF StoreIInv
<1>3. ASSUME NEW c \in Clients, BeginUpdate(c) \/ BeginView(c) PROVE StoreIInv'
  <2>1. /\ ~InTx(c) /\ answer[c] = None /\ disk \in Contents /\ disk # None
        /\ call[c] \in Views \cup Updates
        /\ UNCHANGED <<disk, isOpen, call, local, answer>>
    BY <1>1, <1>3, StoreAssumption DEF BeginUpdate, BeginView, Waits, StoreTypeOK
  <2>2. \/ /\ writer = None /\ writer' = c /\ draft' = disk /\ snapshot' = snapshot
           /\ call[c] \in Updates
        \/ /\ snapshot' = [snapshot EXCEPT ![c] = disk] /\ call[c] \in Views
           /\ UNCHANGED <<writer, draft>>
    BY <1>3 DEF BeginUpdate, BeginView
  <2>3. StoreTypeOK'
    BY <1>1, <2>1, <2>2 DEF StoreTypeOK, local
  <2>4. ASSUME NEW x \in Clients, x # c PROVE Outside(x)' /\ Inside(x)'
    <3>1. snapshot'[x] = snapshot[x] /\ (writer' = x <=> writer = x)
      BY <1>1, <2>2, <2>4 DEF StoreTypeOK
    <3>2. writer = x => draft' = draft
      BY <1>1, <2>2
    <3> QED
      BY <1>1, <2>1, <3>1, <3>2, Bystander DEF local
  <2>5. Outside(c)' /\ Inside(c)'
    <3>1. /\ pos'[c] = 0 /\ err'[c] = "ok" /\ got'[c] = None /\ listed'[c] = None
      BY <1>1, <2>1 DEF local, Outside
    <3>2. Len(call[c]) \in Nat
      BY <2>1, ScriptTypes
    <3>3. Seen(disk, "ok", None, None) = After(call[c], disk)[0]
      BY <3>2, AfterDef
    <3>4. \/ writer' = c /\ snapshot'[c] = None /\ draft' = disk
          \/ writer' # c /\ snapshot'[c] = disk
      BY <1>1, <2>1, <2>2 DEF StoreTypeOK, InTx
    <3>5. InTx(c)'
      BY <2>1, <3>4 DEF InTx
    <3>6. Outside(c)'
      BY <3>5 DEF Outside
    <3>7. View(c)' = disk /\ disk = IF writer' = c THEN disk' ELSE snapshot'[c]
      BY <2>1, <3>4 DEF View
    <3>8. /\ writer' = c => snapshot'[c] = None /\ call'[c] \in Updates
          /\ snapshot'[c] # None => call'[c] \in Views
      BY <1>1, <2>1, <2>2 DEF StoreTypeOK, InTx
    <3>9. Inside(c)'
      BY <2>1, <3>1, <3>2, <3>3, <3>7, <3>8 DEF Inside
    <3> QED
      BY <3>6, <3>9
  <2> QED
    BY <2>3, <2>4, <2>5 DEF StoreIInv
<1>4. ASSUME NEW c \in Clients, BeginFails(c) \/ Return(c) PROVE StoreIInv'
  <2>1. ~InTx(c) /\ UNCHANGED <<disk, isOpen, writer, draft, snapshot, local>>
    BY <1>1, <1>4 DEF BeginFails, Return, Waits, Inside
  <2>2. \/ /\ answer' = [answer EXCEPT ![c] = [err |-> "failed", got |-> None, listed |-> None]]
           /\ call' = call
        \/ answer' = [answer EXCEPT ![c] = None] /\ call' = [call EXCEPT ![c] = None]
    BY <1>4 DEF BeginFails, Return
  <2>3. [err |-> "failed", got |-> None, listed |-> None] \in Answer
    BY DEF Answer, Errors
  <2>4. StoreTypeOK'
    BY <1>1, <2>1, <2>2, <2>3 DEF StoreTypeOK, local
  <2>5. ASSUME NEW x \in Clients, x # c PROVE Outside(x)' /\ Inside(x)'
    <3>1. answer'[x] = answer[x] /\ call'[x] = call[x]
      BY <1>1, <2>2, <2>5 DEF StoreTypeOK
    <3> QED
      BY <1>1, <2>1, <3>1, Bystander DEF local
  <2>6. Outside(c)' /\ Inside(c)'
    BY <1>1, <2>1, Outsider DEF local, InTx, Outside
  <2> QED
    BY <2>4, <2>5, <2>6 DEF StoreIInv
<1>5. ASSUME NEW c \in Clients, OpStep(c) PROVE StoreIInv'
  BY <1>5, StepOperates, OperatesKeeps
<1>6. ASSUME NEW c \in Clients, Commit(c) \/ CommitFails(c) \/ Rollback(c) \/ EndView(c)
      PROVE  StoreIInv'
  BY <1>6, StepEnds, EndsWithKeeps
<1>7. CASE Close
  <2>1. UNCHANGED <<disk, writer, draft, snapshot, call, local, answer>>
    BY <1>7 DEF Close
  <2>2. StoreTypeOK'
    BY <1>1, <2>1 DEF StoreTypeOK, local
  <2> QED
    BY <1>1, <2>1, <2>2, Bystander DEF StoreIInv, local
<1>8. CASE Open
  <2>1. StoreTypeOK'
    BY <1>1, <1>8 DEF Open, StoreTypeOK
  <2>2. \A x \in Clients : Outside(x)' /\ Inside(x)'
    BY <1>1, <1>8, Outsider DEF Open
  <2> QED
    BY <2>1, <2>2 DEF StoreIInv
<1>9. CASE UNCHANGED storeVars
  <2>1. UNCHANGED <<disk, writer, draft, snapshot, call, local, answer>>
    BY <1>9 DEF storeVars
  <2>2. StoreTypeOK'
    BY <1>1, <2>1 DEF StoreTypeOK, local
  <2> QED
    BY <1>1, <2>1, <2>2, Bystander DEF StoreIInv, local
<1> QED
  BY <1>2, <1>3, <1>4, <1>5, <1>6, <1>7, <1>8, <1>9 DEF StoreNext, Step, OpStep

----------------------------------------------------------------------------
(* The steps of the transactions as steps of the abstract store.            *)

(* What the abstract client c is told, before and after a step.             *)
LEMMA ToldOf ==
  ASSUME NEW c \in Clients
  PROVE  Told[c] = IF snapshot[c] # None THEN A!Run(call[c], snapshot[c]).out ELSE answer[c]
BY SameRun DEF Told

(* A client is told nothing new unless its answer or its view changes.      *)
LEMMA ToldChanges ==
  ASSUME NEW c \in Clients, NEW r,
         \A x \in Clients \ {c} : /\ snapshot'[x] = snapshot[x] /\ answer'[x] = answer[x]
                                  /\ call'[x] = call[x],
         IF snapshot'[c] # None THEN A!Run(call'[c], snapshot'[c]).out = r
         ELSE answer'[c] = r
  PROVE  Told' = [Told EXCEPT ![c] = r]
<1>1. \A x \in Clients \ {c} :
         (IF snapshot'[x] # None THEN R!Run(call'[x], snapshot'[x]).out ELSE answer'[x])
           = (IF snapshot[x] # None THEN R!Run(call[x], snapshot[x]).out ELSE answer[x])
  OBVIOUS
<1>2. (IF snapshot'[c] # None THEN R!Run(call'[c], snapshot'[c]).out ELSE answer'[c]) = r
  BY SameRun
<1> QED
  BY <1>1, <1>2 DEF Told

(* Get and List change nothing.                                             *)
LEMMA ViewKeepsContents ==
  ASSUME NEW script \in Views, NEW contents \in Contents
  PROVE  A!Run(script, contents).db = contents
<1>1. PICK op : script = <<op>> /\ op.op \in {"get", "list"}
  BY DEF Views, Get, List
<1>2. Len(script) = 1 /\ script[1] = op
  BY <1>1
<1>3. PICK s : s = Seen(contents, "ok", None, None)
  OBVIOUS
<1>4. After(script, contents)[0] = s
  BY <1>2, <1>3, AfterDef
<1>5. After(script, contents)[1] = R!Then(s, op)
  <2>1. \A i \in 0..0 :
           After(script, contents)[i + 1] = R!Then(After(script, contents)[i], script[i + 1])
    BY <1>2, AfterDef
  <2> QED
    BY <1>2, <1>4, <2>1
<1>6. A!Run(script, contents) = R!Then(s, op)
  <2>1. Len(script) \in Nat
    BY <1>2
  <2>2. A!Run(script, contents) = After(script, contents)[Len(script)]
    BY <2>1, RunIsAfter
  <2> QED
    BY <1>2, <1>5, <2>2
<1>7. /\ R!Error(s, op) # "ok" => R!Then(s, op) = Seen(contents, R!Error(s, op), None, None)
      /\ R!Error(s, op) = "ok" =>
         /\ op.op = "get" => R!Then(s, op) = Seen(contents, "ok", contents[op.key], None)
         /\ op.op = "list" => R!Then(s, op) = Seen(contents, "ok", None, contents)
  <2>1. PICK g, l : g = None /\ l = None
    OBVIOUS
  <2>2. s = Seen(contents, "ok", g, l)
    BY <1>3, <2>1
  <2>3. op.op \in {"create", "get", "update", "modify", "delete", "list"}
    BY <1>1
  <2>4. /\ R!Error(s, op) # "ok" => R!Then(s, op) = Seen(contents, R!Error(s, op), g, l)
        /\ R!Error(s, op) = "ok" =>
           /\ op.op = "get" => R!Then(s, op) = Seen(contents, "ok", contents[op.key], l)
           /\ op.op = "list" => R!Then(s, op) = Seen(contents, "ok", g, contents)
           /\ op.op \in {"create", "update", "modify", "delete"} =>
                R!Then(s, op) = Seen([contents EXCEPT ![op.key] = R!New(s, op)], "ok", g, l)
    BY <2>2, <2>3, ThenIs
  <2> QED
    BY <2>1, <2>4
<1>8. \E f, g, l : R!Then(s, op) = Seen(contents, f, g, l)
  BY <1>1, <1>7
<1> QED
  BY <1>6, <1>8 DEF Seen

(* The store begins as the abstract one does.                               *)
LEMMA InitMaps == StoreInit => A!Init
BY StoreAssumption DEF StoreInit, A!Init, Told, Contents, A!Contents

(* A write happens when it commits or rolls back, a read when it begins.    *)
LEMMA NextMaps ==
  ASSUME StoreIInv, [StoreNext]_storeVars
  PROVE  A!Next \/ UNCHANGED A!vars
<1>1. /\ StoreTypeOK /\ \A x \in Clients : Outside(x) /\ Inside(x)
      /\ None \notin Clients
  BY StoreAssumption DEF StoreIInv
<1>2. /\ snapshot \in [Clients -> Contents \cup {None}] /\ disk # None
      /\ DOMAIN answer = Clients /\ DOMAIN call = Clients
  BY <1>1, StoreAssumption DEF StoreTypeOK
<1>3. Told = [x \in Clients |-> Told[x]]
  BY DEF Told
<1> DEFINE Same == UNCHANGED <<disk, call, Told>>
<1>4. Same => UNCHANGED A!vars
  BY DEF A!vars
<1> HIDE DEF Same
<1>5. ASSUME NEW c \in Clients, Call(c) PROVE A!Next
  <2>1. ~InTx(c)
    BY <1>1, <1>5, StoreAssumption DEF Call, Inside, InTx
  <2>2. snapshot[c] = None
    BY <2>1 DEF InTx
  <2>3. \A x \in Clients \ {c} : call'[x] = call[x]
    BY <1>2, <1>5 DEF Call
  <2>4. snapshot' = snapshot /\ answer' = answer /\ disk' = disk
    BY <1>5 DEF Call
  <2>5. Told' = [Told EXCEPT ![c] = answer[c]]
    BY <2>2, <2>3, <2>4, ToldChanges
  <2>6. Told[c] = answer[c]
    BY <2>2, ToldOf
  <2>7. Told' = Told
    BY <1>3, <2>5, <2>6
  <2>8. A!Call(c)
    BY <1>5, <2>4, <2>7 DEF Call, A!Call
  <2> QED
    BY <2>8 DEF A!Next
<1>6. ASSUME NEW c \in Clients, BeginView(c) PROVE A!Next
  <2>1. snapshot[c] = None /\ Told[c] = None /\ call[c] # None
    BY <1>6, ToldOf DEF BeginView, Waits, InTx
  <2>2. /\ snapshot'[c] = disk
        /\ \A x \in Clients \ {c} : snapshot'[x] = snapshot[x]
        /\ disk' = disk /\ call' = call /\ answer' = answer
    BY <1>2, <1>6 DEF BeginView
  <2>3. PICK r : r = A!Run(call[c], disk)
    OBVIOUS
  <2>4. Told' = [Told EXCEPT ![c] = r.out]
    BY <1>2, <2>2, <2>3, ToldChanges
  <2>5. r.db = disk
    BY <1>1, <1>6, <2>3, ViewKeepsContents DEF BeginView, StoreTypeOK
  <2>6. A!Execute(c)
    BY <2>1, <2>2, <2>3, <2>4, <2>5 DEF A!Execute
  <2> QED
    BY <2>6 DEF A!Next
<1>7. ASSUME NEW c \in Clients, Commit(c) \/ Rollback(c) PROVE A!Next
  <2>1. /\ writer = c /\ InTx(c) /\ Ended(c) /\ View(c) = draft /\ call' = call
        /\ snapshot' = snapshot
    BY <1>7 DEF Commit, Rollback, InTx, Ended, View
  <2>2. /\ snapshot[c] = None /\ answer[c] = None /\ call[c] \in Updates
    BY <1>1, <2>1 DEF Inside
  <2>3. PICK r : r = A!Run(call[c], disk)
    OBVIOUS
  <2>4. r = Seen(draft, err[c], got[c], listed[c])
    BY <2>1, <2>3, EndedIsRun
  <2>5. r.db = draft /\ r.out = [err |-> err[c], got |-> got[c], listed |-> listed[c]]
    BY <2>4 DEF Seen
  <2>6. err[c] # "failed"
    BY <1>1 DEF StoreTypeOK, Errors
  <2>7. answer' = [answer EXCEPT ![c] = r.out]
    BY <1>7, <2>5, <2>6 DEF Commit, Rollback, Returns
  <2>8. /\ answer'[c] = r.out
        /\ \A x \in Clients \ {c} : answer'[x] = answer[x]
    BY <1>2, <2>7
  <2>9. Told' = [Told EXCEPT ![c] = r.out]
    BY <2>1, <2>2, <2>8, ToldChanges
  <2>10. Told[c] = None
    BY <2>2, ToldOf
  <2>11. disk' = IF r.out.err = "ok" THEN r.db ELSE disk
    BY <1>7, <2>5 DEF Commit, Rollback
  <2>12. call[c] # None
    BY <2>2, StoreAssumption
  <2>13. A!Execute(c)
    BY <2>1, <2>3, <2>9, <2>10, <2>11, <2>12 DEF A!Execute
  <2> QED
    BY <2>13 DEF A!Next
<1>8. ASSUME NEW c \in Clients, CommitFails(c) \/ BeginFails(c) PROVE A!Next
  <2> DEFINE r == [err |-> "failed", got |-> None, listed |-> None]
  <2>1. answer' = [answer EXCEPT ![c] = r] /\ UNCHANGED <<disk, snapshot, call>>
    BY <1>8 DEF CommitFails, BeginFails, Returns
  <2>2. snapshot[c] = None /\ answer[c] = None /\ call[c] # None
    BY <1>1, <1>8, StoreAssumption DEF CommitFails, BeginFails, Waits, InTx, Inside
  <2>3. r = [A!Nothing EXCEPT !.err = "failed"]
    BY DEF A!Nothing
  <2> HIDE DEF r
  <2>4. /\ answer'[c] = r
        /\ \A x \in Clients \ {c} : answer'[x] = answer[x]
    BY <1>2, <2>1
  <2>5. Told' = [Told EXCEPT ![c] = r]
    BY <2>1, <2>2, <2>4, ToldChanges
  <2>6. Told[c] = None
    BY <2>2, ToldOf
  <2>7. A!Fail(c)
    BY <2>1, <2>2, <2>3, <2>5, <2>6 DEF A!Fail
  <2> QED
    BY <2>7 DEF A!Next
<1>9. ASSUME NEW c \in Clients, EndView(c) PROVE Same
  <2>1. /\ snapshot[c] # None /\ InTx(c) /\ Ended(c) /\ disk' = disk /\ call' = call
        /\ snapshot' = [snapshot EXCEPT ![c] = None]
    BY <1>9 DEF EndView, InTx
  <2>2. writer # c /\ View(c) = snapshot[c]
    BY <1>1, <2>1 DEF Inside, View
  <2>3. PICK r : r = A!Run(call[c], snapshot[c])
    OBVIOUS
  <2>4. r = Seen(snapshot[c], err[c], got[c], listed[c])
    BY <2>1, <2>2, <2>3, EndedIsRun
  <2>5. err[c] # "failed"
    BY <1>1 DEF StoreTypeOK, Errors
  <2>6. answer' = [answer EXCEPT ![c] = r.out]
    BY <1>9, <2>4, <2>5 DEF EndView, Returns, Seen
  <2>7. /\ answer'[c] = r.out /\ snapshot'[c] = None
        /\ \A x \in Clients \ {c} : answer'[x] = answer[x] /\ snapshot'[x] = snapshot[x]
    BY <1>2, <2>1, <2>6
  <2>8. Told' = [Told EXCEPT ![c] = r.out]
    BY <2>1, <2>7, ToldChanges
  <2>9. Told[c] = r.out
    BY <2>1, <2>3, ToldOf
  <2>10. Told' = Told
    BY <1>3, <2>8, <2>9
  <2> QED
    BY <2>1, <2>10 DEF Same
<1>10. ASSUME NEW c \in Clients, Return(c) PROVE A!Next
  <2>1. snapshot[c] = None /\ answer[c] # None
    BY <1>1, <1>10 DEF Return, Inside, InTx
  <2>2. /\ answer'[c] = None /\ snapshot' = snapshot /\ disk' = disk
        /\ call' = [call EXCEPT ![c] = None]
        /\ \A x \in Clients \ {c} : answer'[x] = answer[x] /\ call'[x] = call[x]
    BY <1>2, <1>10 DEF Return
  <2>3. Told' = [Told EXCEPT ![c] = None]
    BY <2>1, <2>2, ToldChanges
  <2>4. Told[c] # None
    BY <2>1, ToldOf
  <2>5. A!Return(c)
    BY <2>2, <2>3, <2>4 DEF A!Return
  <2> QED
    BY <2>5 DEF A!Next
<1>11. ASSUME NEW c \in Clients, OpStep(c) PROVE Same
  BY <1>11, StepOperates, OperatesMaps DEF Same
<1>12. ASSUME NEW c \in Clients, BeginUpdate(c) PROVE Same
  BY <1>12 DEF BeginUpdate, Told, Same
<1>13. CASE Close
  BY <1>4, <1>13 DEF Close, Told, Same
<1>14. CASE Open
  <2>1. /\ disk' = disk /\ call' = [c \in Clients |-> None]
        /\ snapshot' = [c \in Clients |-> None] /\ answer' = [c \in Clients |-> None]
    BY <1>14 DEF Open
  <2>2. Told' = [c \in Clients |-> None]
    BY <2>1 DEF Told
  <2>3. A!Crash
    BY <2>1, <2>2 DEF A!Crash
  <2>4. A!Next
    BY <2>3 DEF A!Next
  <2> QED
    BY <2>4
<1>15. CASE UNCHANGED storeVars
  BY <1>4, <1>15 DEF storeVars, Told, Same
<1> QED
  BY <1>4, <1>5, <1>6, <1>7, <1>8, <1>9, <1>10, <1>11, <1>12, <1>13, <1>14, <1>15
     DEF StoreNext, Step, OpStep

(* A transaction of the store, of one operation or of many, happens at one  *)
(* moment and wholly or not at all, for any functions and any goroutines.   *)
THEOREM StoreImplementsAtomicStore ==
  StoreInit /\ [][StoreNext]_storeVars => ImplementsAtomicStore
<1>1. StoreInit => StoreIInv
  BY InitIInv
<1>2. StoreIInv /\ [StoreNext]_storeVars => StoreIInv'
  BY NextIInv
<1>3. StoreInit => A!Init
  BY InitMaps
<1>4. StoreIInv /\ [StoreNext]_storeVars => [A!Next]_A!vars
  BY NextMaps
<1> QED
  BY <1>1, <1>2, <1>3, <1>4, PTL DEF ImplementsAtomicStore, A!Safety
=============================================================================
