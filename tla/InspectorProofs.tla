-------------------------- MODULE InspectorProofs --------------------------
(***************************************************************************)
(* What a row of the task list can show, proved for any number of pids and *)
(* processes.  The invariant says what each column holds in the middle of  *)
(* a row: a column already passed was read from a process that had the pid *)
(* since the row was begun, or was skipped in a moment when the pid had    *)
(* none; a column still to come holds what the row before left there.      *)
(***************************************************************************)
EXTENDS Inspector, TLAPS

InRow == pc \in {"open", "read", "print"}

(* Column number k of the row was passed. *)
Passed(k) == pc = "print" \/ k < column

(* The kernel and the file that is open. *)
Witnessed ==
  /\ InRow => pid \in Pids /\ table[pid] \in owners
  /\ pc = "read" => file \in owners \ {0}

(* Column c, with number k, of a row being read. *)
ColumnHeld(c, k) ==
  IF Passed(k) THEN value[c] \in owners \ {0} \/ (0 \in owners /\ value[c] = previous[c])
               ELSE value[c] = previous[c]

(* The state: a letter only if it was read for this row, and skipped only  *)
(* when the pid had no process.                                            *)
StateHeld ==
  /\ letter => InRow /\ Passed(3) /\ value["state"] \in owners \ {0}
  /\ InRow /\ Passed(3) /\ ~ letter => 0 \in owners

RowHeld ==
  /\ InRow => ColumnHeld("tasks", 1) /\ ColumnHeld("name", 2) /\ ColumnHeld("user", 4)
  /\ pc # "crash" => StateHeld

IInv == TypeOK /\ Witnessed /\ RowHeld /\ RowsRight

LEMMA OrderFacts ==
  /\ Len(Order) = 4
  /\ Order[1] = "tasks" /\ Order[2] = "name" /\ Order[3] = "state" /\ Order[4] = "user"
  BY DEF Order

LEMMA OrderOfColumn ==
  ASSUME column \in 1 .. Len(Order) PROVE column \in {1, 2, 3, 4} /\ Order[column] \in Columns
  <1>1. column \in {1, 2, 3, 4}
    BY OrderFacts
  <1> QED
    BY <1>1, OrderFacts DEF Columns

LEMMA InitHolds == Init => IInv
  <1> SUFFICES ASSUME Init PROVE IInv
    OBVIOUS
  <1>1. TypeOK
    <2>1. row \in [Columns \cup {"pid"} -> Nat]
      BY DEF Init, NoRow
    <2>2. value \in [Columns -> Read0] /\ previous \in [Columns -> Read0]
      BY DEF Init, Read0
    <2>3. table \in [Pids -> Read0]
      BY DEF Init, Read0
    <2>4. born \in 0 .. MaxProcess /\ pid \in 0 .. MaxPid /\ column \in 1 .. Len(Order)
      BY InspectorAssumption, OrderFacts DEF Init
    <2> QED
      BY <2>1, <2>2, <2>3, <2>4 DEF Init, TypeOK, Read0
  <1>2. Witnessed /\ RowHeld /\ RowsRight
    BY DEF Init, Witnessed, RowHeld, StateHeld, RowsRight, InRow
  <1> QED
    BY <1>1, <1>2 DEF IInv

LEMMA ReaddirPreserves == ASSUME IInv, readdir PROVE IInv'
  <1> DEFINE later == {p \in Pids : p > pid /\ table[p] # 0}
  <1>1. CASE later = {}
    BY <1>1, OrderFacts DEF IInv, readdir, kernel, TypeOK, Witnessed, RowHeld, StateHeld, RowsRight, InRow
  <1>2. CASE later # {}
    <2>1. PICK p \in later : pid' = p /\ owners' = {table[p]} /\ pc' = "open"
      BY <1>2 DEF readdir
    <2>2. pid' \in Pids /\ owners' = {table[pid']} /\ pc' = "open" /\ table' = table
      BY <2>1 DEF readdir, kernel
    <2>3. TypeOK'
      BY <2>2, OrderFacts DEF IInv, readdir, kernel, TypeOK, Pids
    <2>4. Witnessed'
      BY <2>2 DEF Witnessed, InRow
    <2>5. RowHeld'
      BY <2>2 DEF IInv, readdir, RowHeld, StateHeld, ColumnHeld, InRow, Passed
    <2>6. RowsRight'
      BY <2>2 DEF RowsRight
    <2> QED
      BY <2>3, <2>4, <2>5, <2>6 DEF IInv
  <1> QED
    BY <1>1, <1>2

LEMMA OpenPreserves == ASSUME IInv, open PROVE IInv'
  <1>1. TypeOK'
    BY OrderFacts DEF IInv, TypeOK, Witnessed, InRow, open, kernel, NextColumn
  <1>2. Witnessed'
    BY DEF IInv, Witnessed, InRow, open, kernel, NextColumn
  <1>3. RowHeld'
    BY OrderFacts DEF IInv, TypeOK, Witnessed, RowHeld, StateHeld, ColumnHeld, InRow, Passed, open, kernel, NextColumn
  <1>4. RowsRight'
    BY DEF RowsRight, open, NextColumn
  <1> QED
    BY <1>1, <1>2, <1>3, <1>4 DEF IInv

LEMMA ReadPreserves == ASSUME IInv, read PROVE IInv'
  <1>1. column \in {1, 2, 3, 4} /\ Order[column] \in Columns
    BY OrderOfColumn DEF IInv, TypeOK
  <1>2. CASE pc' = "crash"
    BY <1>2, <1>1 DEF IInv, TypeOK, Witnessed, RowHeld, RowsRight, InRow, read, kernel, NextColumn, Read0
  <1>3. CASE pc' # "crash"
    <2>1. /\ value' = [value EXCEPT ![Order[column]] = file]
          /\ letter' = (letter \/ Order[column] = "state")
          /\ NextColumn
      BY <1>3 DEF read
    <2>2. TypeOK'
      BY <1>1, <2>1, OrderFacts DEF IInv, TypeOK, read, kernel, NextColumn, Read0
    <2>3. Witnessed'
      BY <2>1 DEF IInv, Witnessed, InRow, read, kernel, NextColumn
    <2>4. RowHeld'
      <3> USE OrderFacts, <2>1 DEF IInv, TypeOK, Witnessed, RowHeld, StateHeld, ColumnHeld, InRow,
                                  Passed, read, NextColumn, Columns
      <3>1. CASE column = 1
        BY <3>1
      <3>2. CASE column = 2
        BY <3>2
      <3>3. CASE column = 3
        <4>1. value'["state"] = file /\ pc' = "open" /\ column' = 4
          BY <3>3
        <4>2. letter'
          <5>1. Order[column] = "state"
            BY <3>3
          <5> QED
            BY <5>1, Zenon
        <4>3. \A c \in {"tasks", "name", "user"} : value'[c] = value[c]
          BY <3>3
        <4> QED
          BY <3>3, <4>1, <4>2, <4>3
      <3>4. CASE column = 4
        BY <3>4
      <3> QED
        BY <1>1, <3>1, <3>2, <3>3, <3>4
    <2>5. RowsRight'
      BY <2>1 DEF RowsRight, read, NextColumn
    <2> QED
      BY <2>2, <2>3, <2>4, <2>5 DEF IInv
  <1> QED
    BY <1>2, <1>3

LEMMA PrintPreserves == ASSUME IInv, print PROVE IInv'
  <1>1. word \in Read0
    BY DEF IInv, TypeOK, word, Columns, Read0
  <1>2. value' \in [Columns -> Read0] /\ value'["state"] = word
    BY <1>1 DEF IInv, TypeOK, print, Columns
  <1>3. \A c \in {"tasks", "name", "user"} : value'[c] = value[c]
    BY DEF IInv, TypeOK, print, Columns
  <1>4. row' \in [Columns \cup {"pid"} -> Nat] /\ \A c \in Columns : row'[c] = value'[c]
    BY <1>2, InspectorAssumption DEF IInv, TypeOK, print, Columns, Read0, Processes
  <1>5. TypeOK'
    BY <1>2, <1>4 DEF IInv, TypeOK, print, kernel
  <1>6. Witnessed' /\ RowHeld'
    BY DEF Witnessed, RowHeld, StateHeld, InRow, print
  <1>7. RowsRight'
    <2>1. word \in owners \cup {0} /\ (0 \notin owners => letter)
      BY DEF IInv, RowHeld, StateHeld, InRow, Passed, print, word
    <2>2. \A c \in {"tasks", "name", "user"} :
            value[c] \in owners \ {0} \/ (0 \in owners /\ value[c] = previous[c])
      BY DEF IInv, RowHeld, ColumnHeld, InRow, Passed, print
    <2>3. ASSUME NEW p \in Processes, owners = {p}
          PROVE  word = IF p \in Odd THEN 0 ELSE p
      BY <2>1, <2>3 DEF IInv, RowHeld, StateHeld, Processes, print, word
    <2> QED
      BY <1>2, <1>3, <1>4, <2>1, <2>2, <2>3 DEF RowsRight, print, Columns, Processes
  <1> QED
    BY <1>5, <1>6, <1>7 DEF IInv

LEMMA KernelPreserves ==
  ASSUME IInv, NEW p \in Pids, create(p) \/ vanish(p) PROVE IInv'
  <1>1. PICK q \in Read0 : Changed(p, q) /\ born' \in 0 .. MaxProcess
    BY InspectorAssumption DEF IInv, TypeOK, create, vanish, Read0, Processes
  <1>2. TypeOK'
    BY <1>1 DEF IInv, TypeOK, Changed
  <1>3. Witnessed'
    BY <1>1 DEF IInv, TypeOK, Witnessed, InRow, Changed
  <1>4. RowHeld'
    BY <1>1 DEF IInv, TypeOK, RowHeld, StateHeld, ColumnHeld, InRow, Passed, Changed
  <1>5. RowsRight'
    BY <1>1 DEF IInv, RowsRight, Changed
  <1> QED
    BY <1>2, <1>3, <1>4, <1>5 DEF IInv

LEMMA StepPreserves == IInv /\ [Next]_vars => IInv'
  <1> SUFFICES ASSUME IInv, [Next]_vars PROVE IInv'
    OBVIOUS
  <1>1. CASE readdir
    BY <1>1, ReaddirPreserves
  <1>2. CASE open
    BY <1>2, OpenPreserves
  <1>3. CASE read
    BY <1>3, ReadPreserves
  <1>4. CASE print
    BY <1>4, PrintPreserves
  <1>5. CASE \E p \in Pids : create(p) \/ vanish(p)
    BY <1>5, KernelPreserves
  <1>6. CASE UNCHANGED vars
    BY <1>6 DEF IInv, TypeOK, Witnessed, RowHeld, StateHeld, ColumnHeld, InRow, Passed, RowsRight, vars
  <1> QED
    BY <1>1, <1>2, <1>3, <1>4, <1>5, <1>6 DEF Next, finished

(* The inductive invariant holds in every reachable state. *)
THEOREM Invariant == Spec => []IInv
  BY InitHolds, StepPreserves, PTL DEF Spec

(* The columns, the row and the history variables keep their types, and a  *)
(* read is only done on a status file that was opened (inspector.c:575).   *)
THEOREM TypeCorrect == Spec => []TypeOK
  BY Invariant, PTL DEF IInv

(* For any number of pids and processes, and however they come and go, a   *)
(* row whose process stayed is its own in all four columns, and the state  *)
(* of a row is never that of a process without its pid                     *)
(* (inspector.c:567-636).                                                  *)
THEOREM RowsCorrect == Spec => []RowsRight
  BY Invariant, PTL DEF IInv
=============================================================================
