--------------------------- MODULE HistoryProofs ---------------------------
(***************************************************************************)
(* The ring of commands, proved for any number of slots and of commands:   *)
(* which commands it keeps, what history prints and what a recall runs.    *)
(***************************************************************************)
EXTENDS History, WellFoundedInduction, TLAPS

(* What history.c and shell.c keep true between them: tail is the slot of  *)
(* the newest command, the slots not yet reached are empty, and main()     *)
(* counts what the ring counts.                                            *)
Consistent ==
  /\ tail = IF cmd_count = 0 THEN 0 ELSE (cmd_count - 1) % max
  /\ \A s \in Slots : s >= cmd_count => history[s] = Empty
  /\ num_cmds = cmd_count

IInv == TypeOK /\ Retained /\ Consistent

-----------------------------------------------------------------------------
(***************************************************************************)
(* Arithmetic of the ring.                                                 *)
(***************************************************************************)

(* The remainder is a slot. *)
LEMMA ModuloSlot ==
  ASSUME NEW n \in Int, NEW m \in Nat \ {0}
  PROVE  n % m \in 0 .. m - 1 /\ n \div m \in Int /\ n = m * (n \div m) + (n % m)
  OBVIOUS

(* A multiple of m that is strictly between -m and m is 0. *)
LEMMA SmallMultiple ==
  ASSUME NEW k \in Int, NEW m \in Nat \ {0}, - m < m * k, m * k < m
  PROVE  k = 0
  <1>1. k >= 1 => m * k >= m
    OBVIOUS
  <1>2. k <= -1 => m * k <= - m
    OBVIOUS
  <1> QED
    BY <1>1, <1>2

(* The remainder is the only slot that differs from n by a multiple of m. *)
LEMMA ModuloUnique ==
  ASSUME NEW n \in Int, NEW m \in Nat \ {0}, NEW q \in Int, NEW r \in 0 .. m - 1, n = m * q + r
  PROVE  n % m = r
  <1>1. n % m \in 0 .. m - 1 /\ n \div m \in Int /\ n = m * (n \div m) + (n % m)
    BY ModuloSlot
  <1> DEFINE k == q - (n \div m)
  <1>2. k \in Int /\ m * k = m * q - m * (n \div m)
    BY <1>1
  <1>3. m * k = (n % m) - r
    BY <1>1, <1>2
  <1>4. k = 0
    <2>1. - m < m * k /\ m * k < m
      BY <1>1, <1>3
    <2> HIDE DEF k
    <2> QED
      BY <1>2, <2>1, SmallMultiple
  <1> QED
    BY <1>1, <1>3, <1>4

(* Numbers less than m apart have different slots. *)
LEMMA ModuloDiffers ==
  ASSUME NEW m \in Nat \ {0}, NEW a \in Int, NEW b \in Int, a < b, b - a < m
  PROVE  a % m # b % m
  <1> SUFFICES ASSUME a % m = b % m PROVE FALSE
    OBVIOUS
  <1>1. /\ a % m \in 0 .. m - 1 /\ a \div m \in Int /\ a = m * (a \div m) + (a % m)
        /\ b % m \in 0 .. m - 1 /\ b \div m \in Int /\ b = m * (b \div m) + (b % m)
    BY ModuloSlot
  <1> DEFINE k == (b \div m) - (a \div m)
  <1>2. k \in Int /\ m * k = m * (b \div m) - m * (a \div m)
    BY <1>1
  <1>3. m * k = b - a
    BY <1>1, <1>2
  <1>4. k = 0
    <2> HIDE DEF k
    <2> QED
      BY <1>2, <1>3, SmallMultiple
  <1> QED
    BY <1>3, <1>4

(* What is added after the remainder was taken may be added before. *)
LEMMA ModuloSum ==
  ASSUME NEW m \in Nat \ {0}, NEW a \in Int, NEW b \in Int
  PROVE  ((a % m) + b) % m = (a + b) % m
  <1>1. a % m \in 0 .. m - 1 /\ a \div m \in Int /\ a = m * (a \div m) + (a % m)
    BY ModuloSlot
  <1> DEFINE s == (a % m) + b
  <1>2. s \in Int
    BY <1>1
  <1>3. s % m \in 0 .. m - 1 /\ s \div m \in Int /\ s = m * (s \div m) + (s % m)
    BY <1>2, ModuloSlot
  <1> DEFINE q == (a \div m) + (s \div m)
  <1>4. q \in Int /\ m * q = m * (a \div m) + m * (s \div m)
    BY <1>1, <1>3
  <1>5. a + b = m * q + (s % m)
    BY <1>1, <1>3, <1>4
  <1>6. (a + b) % m = s % m
    <2>1. a + b \in Int
      OBVIOUS
    <2> HIDE DEF q, s
    <2> QED
      BY <1>3, <1>4, <1>5, <2>1, ModuloUnique, Zenon
  <1> QED
    BY <1>6

(* A whole turn of the ring does not change the slot. *)
LEMMA ModuloTurn ==
  ASSUME NEW m \in Nat \ {0}, NEW a \in Int
  PROVE  (a + m) % m = a % m
  <1>1. a % m \in 0 .. m - 1 /\ a \div m \in Int /\ a = m * (a \div m) + (a % m)
    BY ModuloSlot
  <1>2. a + m = m * ((a \div m) + 1) + (a % m)
    BY <1>1
  <1>3. a + m \in Int /\ (a \div m) + 1 \in Int
    BY <1>1
  <1> QED
    BY <1>1, <1>2, <1>3, ModuloUnique, Zenon

(* A slot is its own remainder. *)
LEMMA ModuloOfSlot ==
  ASSUME NEW m \in Nat \ {0}, NEW s \in 0 .. m - 1
  PROVE  s % m = s
  BY ModuloUnique, s = m * 0 + s

-----------------------------------------------------------------------------
(***************************************************************************)
(* The inductive invariant.                                                *)
(***************************************************************************)

LEMMA RingFacts ==
  /\ max \in Nat \ {0} /\ max \in Int /\ max >= 1 /\ MaxCommands \in Nat
  /\ \A s : s \in Slots <=> s \in Int /\ 0 <= s /\ s < max
  /\ Empty \in Entry /\ Garbage \in Entry
  BY RingAssumption DEF Slots, Entry

LEMMA SlotOfNumber ==
  ASSUME NEW n \in Int PROVE n % max \in Slots
  BY RingAssumption, ModuloSlot DEF Slots

LEMMA RunType ==
  ASSUME NEW line \in Entry, NEW amp \in BOOLEAN
  PROVE  /\ Typed(line) \in Run
         /\ Recalled(line, amp) \in Run
         /\ [line |-> line, background |-> amp, ampersand |-> FALSE] \in Run
  BY DEF Run, Typed, Recalled

LEMMA InitHolds == Init => IInv
  <1> SUFFICES ASSUME Init PROVE IInv
    OBVIOUS
  <1> USE RingFacts
  <1>1. TypeOK
    <2>1. ran \in Run
      BY RunType DEF Init
    <2> QED
      BY <2>1 DEF Init, TypeOK, NoNumber
  <1>2. Retained
    BY DEF Init, Retained
  <1>3. Consistent
    BY DEF Init, Consistent
  <1> QED
    BY <1>1, <1>2, <1>3 DEF IInv

(* Whatever line is stored and whatever is executed. *)
LEMMA AddKeeps ==
  ASSUME IInv, NEW line \in Entry, add_history(line),
         num_cmds' = num_cmds + 1, ran' \in Run, status' = status, number' \in Int
  PROVE  IInv'
  <1> USE RingFacts
  <1>0. TypeOK /\ Retained /\ Consistent
    BY DEF IInv
  <1>1. /\ tail' = cmd_count % max
        /\ history' = [history EXCEPT ![cmd_count % max] = line]
        /\ cmd_count' = cmd_count + 1
        /\ minimum' = IF cmd_count + 1 > max THEN minimum + 1 ELSE minimum
        /\ issued' = Append(issued, line)
    BY DEF add_history, minimum_after
  <1>2. /\ history \in [Slots -> Entry] /\ cmd_count \in Nat /\ minimum \in Nat
        /\ issued \in Seq(Entry) /\ num_cmds \in Nat
    BY <1>0 DEF TypeOK
  <1>3. cmd_count \in Int
    BY <1>2
  <1>4. cmd_count % max \in Slots
    BY <1>3, SlotOfNumber, Zenon
  <1>5. TypeOK'
    <2>1. history' \in [Slots -> Entry] /\ issued' \in Seq(Entry)
      BY <1>1, <1>2, <1>4
    <2> QED
      BY <1>0, <1>1, <1>2, <1>4, <2>1 DEF TypeOK
  <1>6. Retained'
    <2>1. cmd_count' = Len(issued')
      BY <1>0, <1>1, <1>2 DEF Retained
    <2>2. minimum' = IF cmd_count' < max THEN 0 ELSE cmd_count' - max
      <3>1. /\ cmd_count' = cmd_count + 1
            /\ minimum' = IF cmd_count + 1 > max THEN minimum + 1 ELSE minimum
        BY <1>1
      <3>2. minimum = IF cmd_count < max THEN 0 ELSE cmd_count - max
        BY <1>0 DEF Retained
      <3> QED
        BY <1>2, <3>1, <3>2
    <2>3. ASSUME NEW num \in minimum' .. cmd_count' - 1
          PROVE  history'[num % max] = issued'[num + 1]
      <3>0. cmd_count' = cmd_count + 1 /\ minimum' \in Nat
        BY <1>1, <1>5 DEF TypeOK
      <3>1. num \in Int /\ num >= 0 /\ num <= cmd_count /\ minimum' <= num
        BY <1>2, <3>0
      <3>4. num % max \in Slots
        BY <3>1, SlotOfNumber
      <3>2. CASE num = cmd_count
        BY <1>0, <1>1, <1>2, <1>4, <3>2 DEF Retained
      <3>3. CASE num < cmd_count
        <4>1. num \in minimum .. cmd_count - 1 /\ cmd_count - num < max
          <5>1. minimum = IF cmd_count < max THEN 0 ELSE cmd_count - max
            BY <1>0 DEF Retained
          <5> QED
            BY <1>2, <2>2, <3>0, <3>1, <3>3, <5>1
        <4>2. num % max # cmd_count % max
          BY <1>3, <3>1, <3>3, <4>1, RingFacts, ModuloDiffers, Zenon
        <4>3. history'[num % max] = history[num % max]
          BY <1>1, <1>2, <1>4, <3>4, <4>2
        <4>4. history[num % max] = issued[num + 1]
          BY <1>0, <4>1 DEF Retained, get_cmd
        <4>5. num + 1 \in 1 .. Len(issued)
          BY <1>0, <1>2, <3>1, <3>3 DEF Retained
        <4>6. issued'[num + 1] = issued[num + 1]
          BY <1>1, <1>2, <4>5
        <4> QED
          BY <4>3, <4>4, <4>6
      <3> QED
        BY <1>2, <3>1, <3>2, <3>3
    <2> QED
      BY <2>1, <2>2, <2>3 DEF Retained, get_cmd
  <1>7. Consistent'
    <2>1. tail' = (cmd_count' - 1) % max /\ cmd_count' # 0
      <3>1. cmd_count' - 1 = cmd_count
        BY <1>1, <1>2
      <3> QED
        BY <1>1, <1>2, <3>1
    <2>2. ASSUME NEW s \in Slots, s >= cmd_count' PROVE history'[s] = Empty
      <3>0. cmd_count' = cmd_count + 1
        BY <1>1
      <3>1. cmd_count \in 0 .. max - 1 /\ s # cmd_count /\ s >= cmd_count
        BY <1>2, <2>2, <3>0
      <3>2. cmd_count % max = cmd_count
        BY <3>1, ModuloOfSlot
      <3> QED
        BY <1>0, <1>1, <1>2, <1>4, <3>1, <3>2 DEF Consistent
    <2>3. num_cmds' = cmd_count'
      BY <1>0, <1>1 DEF Consistent
    <2> QED
      BY <2>1, <2>2, <2>3 DEF Consistent
  <1> QED
    BY <1>5, <1>6, <1>7 DEF IInv

(* The shell ends or goes on without a change. *)
LEMMA IdleKeeps ==
  ASSUME IInv, status' \in {"running", "exited", "fault"}, number' \in Int,
         UNCHANGED <<history, minimum, cmd_count, tail, num_cmds, issued, ran>>
  PROVE  IInv'
  BY DEF IInv, TypeOK, Retained, Consistent, get_cmd

(* What is found under a number is a line. *)
LEMMA GetCmdType ==
  ASSUME IInv, NEW num \in Int PROVE get_cmd(num) \in Entry
  BY SlotOfNumber DEF IInv, TypeOK, get_cmd

LEMMA CommandKeeps ==
  ASSUME IInv, NEW line \in Entry, command(line) PROVE IInv'
  <1>1. /\ add_history(line) /\ num_cmds' = num_cmds + 1
        /\ ran' = Typed(line) /\ status' = status /\ number' \in Int
    BY DEF command, execute, NoNumber
  <1> QED
    BY <1>1, AddKeeps, RunType

LEMMA RecallKeeps ==
  ASSUME IInv, NEW line \in Entry, NEW amp \in BOOLEAN, recall(line, amp), number' \in Int
  PROVE  IInv'
  <1>1. CASE crash
    BY <1>1, IdleKeeps DEF crash
  <1>2. CASE ~ crash
    <2>1. /\ add_history(line) /\ num_cmds' = num_cmds + 1
          /\ ran' = Recalled(line, amp) /\ status' = status
      BY <1>2 DEF recall, execute
    <2> QED
      BY <2>1, AddKeeps, RunType
  <1> QED
    BY <1>1, <1>2

LEMMA NotFoundKeeps ==
  ASSUME IInv, NEW amp \in BOOLEAN, not_found(amp), number' \in Int PROVE IInv'
  <1>1. PICK line \in Entry : add_history(line)
    BY DEF not_found
  <1>2. /\ num_cmds' = num_cmds + 1 /\ status' = status
        /\ ran' = [line |-> Empty, background |-> amp, ampersand |-> FALSE]
    BY DEF not_found
  <1>3. ran' \in Run
    BY <1>2, RingFacts, RunType
  <1> QED
    BY <1>1, <1>2, <1>3, AddKeeps

LEMMA NextKeeps == IInv /\ [Next]_vars => IInv'
  <1> SUFFICES ASSUME IInv, [Next]_vars PROVE IInv'
    OBVIOUS
  <1>0. cmd_count \in Nat /\ minimum \in Nat /\ num_cmds \in Nat /\ ran \in Run
        /\ number \in Int /\ NoNumber \in Int /\ status \in {"running", "exited", "fault"} /\ MaxCommands \in Nat
    BY RingFacts DEF IInv, TypeOK, NoNumber
  <1>1. CASE UNCHANGED vars
    BY <1>0, <1>1, IdleKeeps DEF vars
  <1>2. ASSUME NEW line \in Commands, command(line) PROVE IInv'
    BY <1>2, CommandKeeps DEF Entry
  <1>3. ASSUME NEW line \in Comments, comment(line) PROVE IInv'
    <2>1. line \in Entry
      BY DEF Entry
    <2>2. add_history(line) /\ num_cmds' = num_cmds + 1 /\ ran' = ran /\ status' = status
          /\ number' = NoNumber
      BY <1>3 DEF comment
    <2> QED
      BY <1>0, <2>1, <2>2, AddKeeps
  <1>4. ASSUME NEW amp \in BOOLEAN, bang_last(amp) PROVE IInv'
    <2>1. get_cmd(num_cmds - 1) \in Entry
      BY <1>0, GetCmdType
    <2>2. (recall(get_cmd(num_cmds - 1), amp) \/ crash) /\ number' \in Int
      BY <1>0, <1>4 DEF bang_last
    <2> QED
      BY <2>1, <2>2, RecallKeeps, IdleKeeps DEF crash
  <1>5. ASSUME NEW amp \in BOOLEAN, NEW num \in 0 .. MaxCommands, bang_number(num, amp)
        PROVE  IInv'
    <2>1. get_cmd(num) \in Entry
      BY <1>0, GetCmdType
    <2>2. (recall(get_cmd(num), amp) \/ not_found(amp)) /\ number' \in Int
      BY <1>0, <1>5 DEF bang_number
    <2> QED
      BY <2>1, <2>2, RecallKeeps, NotFoundKeeps
  <1>6. ASSUME NEW amp \in BOOLEAN, NEW prefix \in Prefixes, bang_prefix(prefix, amp)
        PROVE  IInv'
    <2>1. \A i \in Found(prefix) : get_cmd(i) \in Entry
      BY <1>0, GetCmdType DEF Found
    <2>2. /\ (\E i \in Found(prefix) : recall(get_cmd(i), amp)) \/ not_found(amp)
          /\ number' \in Int
      BY <1>0, <1>6 DEF bang_prefix
    <2> QED
      BY <2>1, <2>2, RecallKeeps, NotFoundKeeps
  <1>8. CASE ampersand_only
    BY <1>0, <1>8, IdleKeeps DEF ampersand_only, crash
  <1>7. CASE leave
    BY <1>0, <1>7, IdleKeeps DEF leave
  <1> QED
    BY <1>1, <1>2, <1>3, <1>4, <1>5, <1>6, <1>7, <1>8 DEF Next

LEMMA Invariance == Spec => []IInv
  BY InitHolds, NextKeeps, PTL DEF Spec

(* Every variable keeps its type; tail and every slot that is written stay *)
(* inside the ring (history.c:34-43).                                      *)
THEOREM TypeCorrect == Spec => []TypeOK
  BY Invariance, PTL DEF IInv

(* The last max commands, and no others, are found under their numbers     *)
(* (history.c:34-63).                                                      *)
THEOREM RetainedHolds == Spec => []Retained
  BY Invariance, PTL DEF IInv

-----------------------------------------------------------------------------
(***************************************************************************)
(* What history prints.                                                    *)
(***************************************************************************)

(* The k-th slot after tail holds the command k after the oldest, or, as   *)
(* long as the ring is not full, nothing.                                  *)
LEMMA PrintedSlot ==
  ASSUME IInv, NEW k \in Slots
  PROVE  history[(tail + 1 + k) % max]
           = IF k + cmd_count - max >= 0 THEN issued[k + cmd_count - max + 1] ELSE Empty
  <1> USE RingFacts
  <1>0. TypeOK /\ Retained /\ Consistent
    BY DEF IInv
  <1>1. cmd_count \in Nat /\ cmd_count \in Int /\ tail \in Int /\ k \in Int /\ k >= 0 /\ k < max
    BY <1>0 DEF TypeOK
  <1> DEFINE num == k + cmd_count - max
  <1>2. num \in Int /\ cmd_count + k = num + max
    BY <1>1
  <1>3. CASE cmd_count = 0
    <2>1. tail + 1 + k \in Int
      BY <1>1
    <2>2. (tail + 1 + k) % max \in Slots
      BY <2>1, SlotOfNumber, Zenon
    <2> DEFINE s == (tail + 1 + k) % max
    <2>3. history[s] = Empty
      <3> HIDE DEF s
      <3>1. s \in Slots
        BY <2>2 DEF s
      <3> QED
        BY <1>0, <1>3, <3>1 DEF Consistent
    <2>4. ~ (num >= 0)
      BY <1>1, <1>3
    <2> QED
      BY <2>3, <2>4
  <1>4. CASE cmd_count # 0
    <2>1. tail = (cmd_count - 1) % max
      BY <1>0, <1>4 DEF Consistent
    <2>2. tail + 1 + k = tail + (1 + k) /\ 1 + k \in Int /\ cmd_count - 1 \in Int
          /\ (cmd_count - 1) + (1 + k) = num + max
      BY <1>1, <1>2
    <2>3. (tail + 1 + k) % max = (num + max) % max
      BY <2>1, <2>2, ModuloSum, Zenon
    <2>4. CASE num >= 0
      <3>1. (num + max) % max = num % max
        BY <1>2, ModuloTurn, Zenon
      <3>2. num \in minimum .. cmd_count - 1
        <4>1. minimum = IF cmd_count < max THEN 0 ELSE cmd_count - max
          BY <1>0 DEF Retained
        <4> QED
          BY <1>1, <2>4, <4>1
      <3>3. history[num % max] = issued[num + 1]
        BY <1>0, <3>2 DEF Retained, get_cmd
      <3> QED
        BY <2>3, <2>4, <3>1, <3>3
    <2>5. CASE ~ (num >= 0)
      <3>1. num + max \in 0 .. max - 1 /\ num + max \in Slots /\ num + max >= cmd_count
        BY <1>1, <1>2, <2>5
      <3>2. (num + max) % max = num + max
        BY <3>1, ModuloOfSlot, Zenon
      <3>3. history[num + max] = Empty
        BY <1>0, <3>1 DEF Consistent
      <3> QED
        BY <2>3, <2>5, <3>2, <3>3
    <2> QED
      BY <2>4, <2>5
  <1> QED
    BY <1>3, <1>4

(* history prints the last max commands that are not empty, each under the *)
(* number that "!number" takes, for a ring of any size (history.c:17-28).  *)
THEOREM ListingExactHolds == Spec => []ListingExact
  <1>1. IInv => ListingExact
    <2> SUFFICES ASSUME IInv PROVE ListingExact
      OBVIOUS
    <2> USE RingFacts
    <2>1. cmd_count \in Nat
      BY DEF IInv, TypeOK
    <2> DEFINE H(k) == history[(tail + 1 + k) % max]
               Nums == {n \in 0 .. cmd_count - 1 : n >= cmd_count - max /\ issued[n + 1] # Empty}
    <2>2. \A k \in Slots : H(k) = IF k + cmd_count - max >= 0 THEN issued[k + cmd_count - max + 1]
                                                              ELSE Empty
      BY PrintedSlot
    <2>3. print_history = {<<k + cmd_count - max, H(k)>> : k \in {j \in Slots : H(j) # Empty}}
      BY DEF print_history
    <2> HIDE DEF H
    <2>4. ASSUME NEW k \in Slots, H(k) # Empty
          PROVE  k + cmd_count - max \in Nums /\ H(k) = issued[k + cmd_count - max + 1]
      BY <2>1, <2>2, <2>4
    <2>5. ASSUME NEW n \in Nums
          PROVE  \E k \in Slots : k + cmd_count - max = n /\ H(k) = issued[n + 1] /\ H(k) # Empty
      <3>1. n - cmd_count + max \in Slots /\ (n - cmd_count + max) + cmd_count - max = n /\ n >= 0
        BY <2>1
      <3> QED
        BY <2>2, <3>1
    <2> HIDE DEF Nums
    <2>6. {<<k + cmd_count - max, H(k)>> : k \in {j \in Slots : H(j) # Empty}}
            = {<<n, issued[n + 1]>> : n \in Nums}
      <3>1. ASSUME NEW k \in Slots, H(k) # Empty
            PROVE  <<k + cmd_count - max, H(k)>> \in {<<n, issued[n + 1]>> : n \in Nums}
        BY <2>4, <3>1
      <3>2. ASSUME NEW n \in Nums
            PROVE  <<n, issued[n + 1]>> \in
                     {<<k + cmd_count - max, H(k)>> : k \in {j \in Slots : H(j) # Empty}}
        BY <2>5, <3>2
      <3> QED
        BY <3>1, <3>2
    <2> QED
      BY <2>3, <2>6 DEF ListingExact, Nums
  <1> QED
    BY <1>1, Invariance, PTL

-----------------------------------------------------------------------------
(***************************************************************************)
(* What a recall runs.                                                     *)
(***************************************************************************)

(* The numbers get_cmd() answers are those left in the ring, and the next  *)
(* one.                                                                    *)
LEMMA LeftFacts ==
  ASSUME IInv
  PROVE  /\ Left = minimum .. cmd_count - 1 /\ Left \subseteq Nat
         /\ \A n \in Left : get_cmd(n) = issued[n + 1]
         /\ \A n \in Int : Known(n) <=> n \in Left \/ n = cmd_count
  <1> USE RingFacts
  <1>1. cmd_count \in Nat /\ minimum \in Nat
    BY DEF IInv, TypeOK
  <1>2. minimum = IF cmd_count < max THEN 0 ELSE cmd_count - max
    BY DEF IInv, Retained
  <1>3. Left = minimum .. cmd_count - 1
    BY <1>1, <1>2 DEF Left
  <1>4. \A n \in Int : Known(n) <=> n \in minimum .. cmd_count - 1 \/ n = cmd_count
    BY <1>1, <1>2 DEF Known
  <1> QED
    BY <1>1, <1>3, <1>4 DEF IInv, Retained

(* A recall the shell survives executes and stores the command with the    *)
(* number it looked up.                                                    *)
LEMMA RecallRuns ==
  ASSUME NEW n, NEW amp \in BOOLEAN, recall(issued[n + 1], amp), status' = "running"
  PROVE  Again(n, amp)
  <1> DEFINE line == issued[n + 1]
  <1>1. ~ crash
    BY DEF crash
  <1>2. ran' = Recalled(line, amp) /\ issued' = Append(issued, line)
    BY <1>1 DEF recall, execute, add_history
  <1> HIDE DEF line
  <1>3. ran'.line = line
    BY <1>2 DEF Recalled
  <1>4. ASSUME line \notin Background
        PROVE  ran' = [line |-> line, background |-> amp, ampersand |-> FALSE]
    <2>1. (line \in Background) = FALSE
      BY <1>4
    <2> QED
      BY <1>2, <2>1, Zenon DEF Recalled
  <1> QED
    BY <1>2, <1>3, <1>4, Zenon DEF Again, line

(* "!!". *)
LEMMA LastAgain ==
  ASSUME IInv, NEW amp \in BOOLEAN, bang_last(amp), status' = "running"
  PROVE  Again(Len(issued) - 1, amp)
  <1>1. cmd_count \in Nat /\ num_cmds = cmd_count /\ cmd_count = Len(issued)
    BY DEF IInv, TypeOK, Consistent, Retained
  <1>2. Known(cmd_count - 1) /\ recall(get_cmd(cmd_count - 1), amp)
    BY <1>1 DEF bang_last, crash
  <1>3. cmd_count - 1 \in Left
    BY <1>1, <1>2, LeftFacts
  <1>4. get_cmd(cmd_count - 1) = issued[cmd_count - 1 + 1]
    BY <1>3, LeftFacts
  <1> QED
    BY <1>1, <1>2, <1>4, RecallRuns, Zenon

(* "!number", other than the number of the next command. *)
LEMMA NumberAgain ==
  ASSUME IInv, NEW amp \in BOOLEAN, NEW num \in 0 .. MaxCommands, bang_number(num, amp),
         status' = "running"
  PROVE  AgainNumber(num, amp)
  <1> USE RingFacts
  <1>1. num \in Int
    OBVIOUS
  <1>2. ASSUME num \in Left PROVE Again(num, amp)
    <2>1. recall(get_cmd(num), amp) /\ get_cmd(num) = issued[num + 1]
      BY <1>1, <1>2, LeftFacts DEF bang_number
    <2> QED
      BY <2>1, RecallRuns
  <1>3. ASSUME num \notin Left \cup {cmd_count} PROVE ran'.line = Empty
    <2>1. ~ Known(num)
      BY <1>1, <1>3, LeftFacts
    <2> QED
      BY <2>1 DEF bang_number, not_found
  <1> QED
    BY <1>2, <1>3, Zenon DEF AgainNumber

(* A nonempty set of naturals below a bound has a greatest element. *)
LEMMA GreatestNatural ==
  ASSUME NEW T \in SUBSET Nat, T # {}, NEW b \in Nat, \A n \in T : n <= b
  PROVE  \E n \in T : \A m \in T : m <= n
  <1> DEFINE D == {b - n : n \in T}
  <1>1. D \subseteq Nat /\ D # {}
    <2>1. ASSUME NEW n \in T PROVE b - n \in Nat
      <3>1. n \in Nat /\ n <= b
        OBVIOUS
      <3> QED
        BY <3>1
    <2> QED
      BY <2>1
  <1>2. PICK d \in D : \A e \in D : ~ (<<e, d>> \in OpToRel(<, Nat))
    BY <1>1, NatLessThanWellFounded, WFMin
  <1>3. \A e \in D : d <= e
    <2>1. ASSUME NEW e \in D PROVE d <= e
      <3>1. d \in Nat /\ e \in Nat
        BY <1>1
      <3>2. ~ (e < d)
        BY <1>2, <3>1 DEF OpToRel
      <3> QED
        BY <3>1, <3>2
    <2> QED
      BY <2>1
  <1>4. PICK n \in T : d = b - n
    OBVIOUS
  <1>5. ASSUME NEW m \in T PROVE m <= n
    <2>1. b - m \in D
      OBVIOUS
    <2>2. b - n <= b - m
      BY <1>3, <1>4, <2>1
    <2>3. m \in Nat /\ n \in Nat
      OBVIOUS
    <2> QED
      BY <2>2, <2>3
  <1> QED
    BY <1>5

(* "!prefix".  find_cmd()'s scan from the newest command stops at the      *)
(* greatest number that matches, if there is one.                          *)
LEMMA PrefixAgain ==
  ASSUME IInv, NEW amp \in BOOLEAN, NEW prefix \in Prefixes, bang_prefix(prefix, amp),
         status' = "running"
  PROVE  AgainPrefix(prefix, amp)
  <1> USE RingFacts
  <1>1. cmd_count \in Nat /\ minimum \in Nat
    BY DEF IInv, TypeOK
  <1>2. /\ Left = minimum .. cmd_count - 1 /\ Left \subseteq Nat
        /\ \A n \in Left : get_cmd(n) = issued[n + 1]
    BY LeftFacts
  <1> DEFINE matching == {n \in Left : <<prefix, issued[n + 1]>> \in Matches}
  <1>3. \A i : i \in Found(prefix) <=> i \in matching /\ \A k \in matching : k <= i
    <2>1. ASSUME NEW i \in Found(prefix) PROVE i \in matching /\ \A k \in matching : k <= i
      <3>1. /\ i \in Left /\ <<prefix, get_cmd(i)>> \in Matches
            /\ \A j \in i + 1 .. cmd_count - 1 : <<prefix, get_cmd(j)>> \notin Matches
        BY <1>2 DEF Found
      <3>2. ASSUME NEW k \in matching PROVE k <= i
        <4>1. k \in Left /\ <<prefix, get_cmd(k)>> \in Matches
          BY <1>2
        <4>2. k \notin i + 1 .. cmd_count - 1
          BY <3>1, <4>1
        <4> QED
          BY <1>1, <1>2, <3>1, <4>1, <4>2
      <3> QED
        BY <1>2, <3>1, <3>2
    <2>2. ASSUME NEW i \in matching, \A k \in matching : k <= i PROVE i \in Found(prefix)
      <3>1. i \in Left /\ i \in minimum .. cmd_count - 1 /\ <<prefix, get_cmd(i)>> \in Matches
        BY <1>2
      <3>2. ASSUME NEW j \in i + 1 .. cmd_count - 1 PROVE <<prefix, get_cmd(j)>> \notin Matches
        <4>1. j \in Left /\ ~ (j <= i)
          BY <1>1, <1>2, <3>1
        <4>2. j \notin matching
          BY <2>2, <4>1
        <4> QED
          BY <1>2, <4>1, <4>2
      <3> QED
        BY <3>1, <3>2 DEF Found
    <2> QED
      BY <2>1, <2>2
  <1>4. matching \subseteq Nat /\ \A n \in matching : n <= cmd_count
    BY <1>1, <1>2
  <1> HIDE DEF matching
  <1>5. CASE matching = {}
    <2>1. Found(prefix) = {}
      BY <1>3, <1>5
    <2>2. ran'.line = Empty
      BY <2>1 DEF bang_prefix, not_found
    <2> QED
      BY <1>5, <2>2 DEF AgainPrefix, matching
  <1>6. CASE matching # {}
    <2>1. Found(prefix) # {}
      <3>1. PICK n \in matching : \A m \in matching : m <= n
        BY <1>1, <1>4, <1>6, GreatestNatural
      <3> QED
        BY <1>3, <3>1
    <2>2. PICK i \in Found(prefix) : recall(get_cmd(i), amp)
      BY <2>1 DEF bang_prefix
    <2>3. i \in matching /\ \A k \in matching : k <= i
      BY <1>3
    <2>4. i = CHOOSE n \in matching : \A k \in matching : k <= n
      <3>1. \A n \in matching : (\A k \in matching : k <= n) => n = i
        BY <1>4, <2>3
      <3> QED
        BY <2>3, <3>1
    <2>5. get_cmd(i) = issued[i + 1]
      BY <1>2, <2>3 DEF matching
    <2>6. Again(i, amp)
      BY <2>2, <2>5, RecallRuns
    <2> QED
      BY <1>6, <2>4, <2>6 DEF AgainPrefix, matching
  <1> QED
    BY <1>5, <1>6

(* "!!", "!prefix" and a "!number" that some command has execute and store *)
(* again the command they name, and any other number but the next one      *)
(* executes nothing, whatever comments, failed recalls and turns of the    *)
(* ring came before (shell.c:145-190, 459; history.c:50-83).               *)
THEOREM RecallsHold == Spec => Recalls
  <1>1. IInv => RecallStep
    BY LastAgain, NumberAgain, PrefixAgain DEF RecallStep
  <1> QED
    BY <1>1, Invariance, PTL DEF Recalls
=============================================================================
