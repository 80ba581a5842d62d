----------------------------- MODULE JobsProofs -----------------------------
(***************************************************************************)
(* The job list, proved for any number of slots and of children: what      *)
(* exec() and sigchld_handler() keep true of it although the handler may   *)
(* come between any two of exec()'s assignments and although its count may *)
(* be wrong.                                                               *)
(***************************************************************************)
EXTENDS Jobs, WellFoundedInduction, TLAPS

(* The slot at count is filled in but not counted yet. *)
Filling == pc \in {"label", "count"}

(* The slots in use: those counted and the one being filled in. *)
Used == {i \in Index : i < count \/ (Filling /\ i = count)}

(* The children not yet reaped. *)
Unreaped == Running \cup Zombies

(* pids grow: no child is ahead of the last fork, and the one that main()  *)
(* is about to store is ahead of the whole list.                           *)
PidsGrow ==
  /\ foreground \subseteq 1 .. pid
  /\ pc = "wait" => pid \in foreground
  /\ pc \in {"store", "label", "count"} => pid >= 1
  /\ \A p \in Pids : p > pid => child[p] = "none"
  /\ \A i \in Index : num_jobs[i] <= pid /\ (pc = "store" => num_jobs[i] < pid)

(* count may be too small, even negative, but it is not too large; and the *)
(* slots in use, the one being filled in among them, are ordered.          *)
UsedOrdered ==
  pc # "fault" =>
    /\ count <= Slots
    /\ Filling => count < Slots
    /\ \A i, j \in Used : i < j => num_jobs[i] < num_jobs[j]

(* The condition of RunningListed: all commands in the background, and     *)
(* fewer of them than slots.                                               *)
Calm == foreground = {} /\ pid < Slots /\ pc # "fault"

(* As long as it is calm only the handler reaps, so a signal stands for a  *)
(* zombie; the last slot stays unused; count is never too small once the   *)
(* slot being filled in is counted; and every child not yet reaped is in a *)
(* slot in use, or about to be stored.                                     *)
CalmList ==
  Calm =>
    /\ sigchld => Zombies # {}
    /\ num_jobs[Last] = 0
    /\ IF Filling THEN -1 <= count ELSE 0 <= count
    /\ IF pc \in {"store", "label", "count"} THEN count < pid ELSE count <= pid
    /\ \A p \in Unreaped : (pc = "store" /\ p = pid) \/ \E i \in Used : num_jobs[i] = p

IInv == TypeOK /\ PidsGrow /\ ForegroundReaped /\ UsedOrdered /\ CalmList

(* A nonempty set of naturals has a least element. *)
LEMMA LeastNatural ==
  ASSUME NEW T \in SUBSET Nat, T # {}
  PROVE  \E n \in T : \A m \in T : n <= m
  <1>1. PICK n \in T : \A m \in T : ~ (<<m, n>> \in OpToRel(<, Nat))
    BY NatLessThanWellFounded, WFMin, T \subseteq Nat
  <1>2. ASSUME NEW m \in T PROVE n <= m
    <2>1. n \in Nat /\ m \in Nat /\ ~ (m < n)
      BY <1>1 DEF OpToRel
    <2> QED
      BY <2>1
  <1> QED
    BY <1>2

(* The slots; the last one is one of them. *)
LEMMA IndexFacts ==
  /\ Slots \in Nat /\ Slots >= 1 /\ MaxPid \in Nat
  /\ Last \in Index /\ Last = Slots - 1
  /\ \A i : i \in Index <=> i \in Int /\ 0 <= i /\ i <= Last
  /\ Index \subseteq Int /\ Pids \subseteq Int
  /\ \A p : p \in Pids <=> p \in Int /\ 1 <= p /\ p <= MaxPid
  BY JobsAssumption DEF Index, Last, Pids

(* The search of the handler stops, at the first slot that holds p or at   *)
(* the last slot.                                                          *)
LEMMA PositionFacts ==
  ASSUME NEW p
  PROVE  LET i == Position(p) IN
         /\ i \in Index
         /\ i = Last \/ num_jobs[i] = p
         /\ \A j \in 0 .. i - 1 : num_jobs[j] # p
  <1> DEFINE T == {i \in Index : i = Last \/ num_jobs[i] = p}
  <1>1. T \subseteq Nat /\ T # {}
    BY IndexFacts
  <1>2. PICK i \in T : \A j \in T : i <= j
    BY <1>1, LeastNatural
  <1>3. ASSUME NEW j \in 0 .. i - 1 PROVE num_jobs[j] # p
    BY <1>2, <1>3, IndexFacts
  <1>4. \E k \in Index : (k = Last \/ num_jobs[k] = p) /\ \A j \in 0 .. k - 1 : num_jobs[j] # p
    BY <1>2, <1>3
  <1> QED
    BY <1>4 DEF Position

LEMMA InitHolds == Init => IInv
  <1> SUFFICES ASSUME Init PROVE IInv
    OBVIOUS
  <1> USE IndexFacts
  <1>1. TypeOK
    <2>1. sigchld \in BOOLEAN /\ child \in [Pids -> {"none", "running", "zombie", "gone"}]
      BY DEF Init
    <2> QED
      BY <2>1 DEF Init, TypeOK
  <1>2. PidsGrow
    BY DEF Init, PidsGrow
  <1>3. ForegroundReaped
    BY DEF Init, ForegroundReaped
  <1>4. UsedOrdered
    BY DEF Init, UsedOrdered, Used, Filling
  <1>5. CalmList
    BY DEF Init, CalmList, Unreaped, Running, Zombies
  <1> QED
    BY <1>1, <1>2, <1>3, <1>4, <1>5 DEF IInv

(* A child ends. *)
LEMMA ExitKeeps ==
  ASSUME IInv, NEW p \in Pids, exit_child(p) PROVE IInv'
  <1> USE IndexFacts
  <1>0. TypeOK /\ PidsGrow /\ ForegroundReaped /\ UsedOrdered /\ CalmList
    BY DEF IInv
  <1>1. /\ child[p] = "running"
        /\ child' = [child EXCEPT ![p] = "zombie"]
        /\ num_jobs' = num_jobs /\ bg_cmds' = bg_cmds /\ count' = count
        /\ pc' = pc /\ pid' = pid /\ foreground' = foreground
    BY DEF exit_child, list
  <1>2. child \in [Pids -> {"none", "running", "zombie", "gone"}]
    BY <1>0 DEF TypeOK
  <1>3. TypeOK'
    <2>1. sigchld' \in BOOLEAN
      BY DEF exit_child
    <2>2. child' \in [Pids -> {"none", "running", "zombie", "gone"}]
      BY <1>1, <1>2
    <2> QED
      BY <1>0, <1>1, <2>1, <2>2 DEF TypeOK
  <1>4. PidsGrow'
    BY <1>0, <1>1, <1>2 DEF PidsGrow
  <1>5. ForegroundReaped'
    BY <1>0, <1>1, <1>2 DEF ForegroundReaped, TypeOK
  <1>6. UsedOrdered'
    BY <1>0, <1>1 DEF UsedOrdered, Used, Filling
  <1>7. CalmList'
    <2>1. Zombies' # {} /\ Unreaped' = Unreaped
      BY <1>1, <1>2 DEF Zombies, Running, Unreaped
    <2>2. Used' = Used /\ (Calm' <=> Calm) /\ (Filling' <=> Filling)
      BY <1>1 DEF Used, Calm, Filling
    <2> QED
      BY <1>0, <1>1, <2>1, <2>2 DEF CalmList
  <1> QED
    BY <1>3, <1>4, <1>5, <1>6, <1>7 DEF IInv

(* exec() forks. *)
LEMMA ForkKeeps ==
  ASSUME IInv, NEW isBackground \in BOOLEAN, fork(isBackground) PROVE IInv'
  <1> USE IndexFacts
  <1>0. TypeOK /\ PidsGrow /\ ForegroundReaped /\ UsedOrdered /\ CalmList
    BY DEF IInv
  <1>1. /\ pc = "prompt" /\ pid < MaxPid /\ pid' = pid + 1
        /\ child' = [child EXCEPT ![pid + 1] = "running"]
        /\ num_jobs' = num_jobs /\ bg_cmds' = bg_cmds /\ count' = count
    BY DEF fork, list
  <1>2. /\ child \in [Pids -> {"none", "running", "zombie", "gone"}]
        /\ pid \in Int /\ pid >= 0 /\ pid + 1 \in Pids /\ foreground \subseteq Pids
    BY <1>0, <1>1 DEF TypeOK
  <1>3. \/ pc' = "store" /\ foreground' = foreground
        \/ pc' = "wait" /\ foreground' = foreground \cup {pid + 1}
    BY <1>1 DEF fork
  <1>4. sigchld' = FALSE /\ sigchld = FALSE
    BY <1>0 DEF fork, TypeOK
  <1>5. TypeOK'
    <2>1. child' \in [Pids -> {"none", "running", "zombie", "gone"}]
      BY <1>1, <1>2
    <2>2. sigchld' \in BOOLEAN
      BY <1>4
    <2> QED
      BY <1>0, <1>1, <1>2, <1>3, <2>1, <2>2 DEF TypeOK
  <1>6. PidsGrow'
    <2>1. \A i \in Index : num_jobs[i] \in Int
      BY <1>0 DEF TypeOK
    <2>2. \A p \in Pids : p > pid' => child'[p] = "none"
      BY <1>0, <1>1, <1>2 DEF PidsGrow
    <2>3. \A i \in Index : num_jobs'[i] < pid'
      BY <1>0, <1>1, <1>2, <2>1 DEF PidsGrow
    <2>4. \A p \in foreground : p \in Int /\ 1 <= p /\ p <= pid
      BY <1>0, <1>2 DEF PidsGrow
    <2>5. foreground' \subseteq 1 .. pid' /\ (pc' = "wait" => pid' \in foreground')
      <3>1. \A p \in foreground' : p \in foreground \/ p = pid + 1
        BY <1>3
      <3>2. ASSUME NEW p \in foreground' PROVE p \in 1 .. pid'
        <4>1. p \in Int /\ 1 <= p /\ p <= pid + 1
          <5>1. CASE p \in foreground
            BY <1>2, <2>4, <5>1
          <5>2. CASE p = pid + 1
            BY <1>2, <5>2
          <5> QED
            BY <3>1, <5>1, <5>2
        <4> QED
          BY <1>1, <4>1
      <3> QED
        BY <1>1, <1>3, <3>2
    <2> QED
      BY <1>1, <1>2, <1>3, <2>1, <2>2, <2>3, <2>5 DEF PidsGrow
  <1>7. ForegroundReaped'
    <2>1. ASSUME NEW p \in foreground PROVE child[p] = "gone" /\ p \in Pids /\ p # pid + 1
      BY <1>0, <1>1, <1>2 DEF ForegroundReaped, PidsGrow
    <2> QED
      BY <1>1, <1>2, <1>3, <2>1 DEF ForegroundReaped
  <1>8. UsedOrdered'
    BY <1>0, <1>1, <1>3 DEF UsedOrdered, Used, Filling
  <1>9. CalmList'
    <2> SUFFICES ASSUME Calm' PROVE CalmList'
      BY DEF CalmList
    <2>1. Calm /\ pc' = "store"
      BY <1>1, <1>2, <1>3 DEF Calm
    <2>2. Used' = Used /\ ~ Filling' /\ ~ Filling
      BY <1>1, <2>1 DEF Used, Filling
    <2>3. Unreaped' = Unreaped \cup {pid'}
      BY <1>1, <1>2 DEF Unreaped, Running, Zombies
    <2>4. \A p \in Unreaped' : (pc' = "store" /\ p = pid') \/ \E i \in Used' : num_jobs'[i] = p
      BY <1>0, <1>1, <2>1, <2>2, <2>3 DEF CalmList
    <2>5. count \in Int
      BY <1>0 DEF TypeOK
    <2>6. num_jobs'[Last] = 0 /\ 0 <= count' /\ count' < pid'
      BY <1>0, <1>1, <1>2, <2>1, <2>2, <2>5 DEF CalmList
    <2> QED
      BY <1>4, <2>1, <2>2, <2>4, <2>6 DEF CalmList
  <1> QED
    BY <1>5, <1>6, <1>7, <1>8, <1>9 DEF IInv

(* exec() stores the pid at the slot that is not counted yet.  It is       *)
(* larger than every pid in the list.                                      *)
LEMMA StoreKeeps ==
  ASSUME IInv, store PROVE IInv'
  <1> USE IndexFacts
  <1>0. TypeOK /\ PidsGrow /\ ForegroundReaped /\ UsedOrdered /\ CalmList
    BY DEF IInv
  <1>1. /\ pc = "store"
        /\ bg_cmds' = bg_cmds /\ count' = count /\ pid' = pid
        /\ foreground' = foreground /\ child' = child /\ sigchld' = sigchld
        /\ \/ count \in Index /\ num_jobs' = [num_jobs EXCEPT ![count] = pid] /\ pc' = "label"
           \/ num_jobs' = num_jobs /\ pc' = "fault"
    BY DEF store
  <1>2. /\ num_jobs \in [Index -> Pids \cup {0}] /\ count \in Int
        /\ pid \in Int /\ pid >= 1 /\ pid \in Pids
    BY <1>0, <1>1 DEF TypeOK, PidsGrow
  <1>3. TypeOK'
    <2>1. num_jobs' \in [Index -> Pids \cup {0}]
      BY <1>1, <1>2
    <2>2. sigchld' \in BOOLEAN
      BY <1>0, <1>1 DEF TypeOK
    <2> QED
      BY <1>0, <1>1, <2>1, <2>2 DEF TypeOK
  <1>4. PidsGrow'
    BY <1>0, <1>1, <1>2 DEF PidsGrow
  <1>5. ForegroundReaped'
    BY <1>0, <1>1 DEF ForegroundReaped
  <1>6. CASE pc' = "fault"
    BY <1>3, <1>4, <1>5, <1>6 DEF IInv, UsedOrdered, CalmList, Calm
  <1>7. CASE pc' = "label"
    <2>1. count \in Index /\ num_jobs' = [num_jobs EXCEPT ![count] = pid]
      BY <1>1, <1>7
    <2>2. Used = {i \in Index : i < count} /\ Used' = Used \cup {count} /\ Filling' /\ ~ Filling
      BY <1>1, <1>2, <1>7, <2>1 DEF Used, Filling
    <2>3. \A i \in Index : i # count => num_jobs'[i] = num_jobs[i]
      BY <1>2, <2>1
    <2>4. num_jobs'[count] = pid
      BY <1>2, <2>1
    <2>5. UsedOrdered'
      <3>1. \A i, j \in Used : i < j => num_jobs[i] < num_jobs[j]
        BY <1>0, <1>1 DEF UsedOrdered
      <3>2. \A i \in Used : num_jobs[i] < pid
        BY <1>0, <1>1, <2>2 DEF PidsGrow
      <3>3. ASSUME NEW i \in Used', NEW j \in Used', i < j PROVE num_jobs'[i] < num_jobs'[j]
        BY <1>2, <2>1, <2>2, <2>3, <2>4, <3>1, <3>2, <3>3
      <3>4. count' <= Slots /\ count' < Slots
        BY <1>1, <1>2, <2>1
      <3> QED
        BY <3>3, <3>4 DEF UsedOrdered
    <2>6. CalmList'
      <3> SUFFICES ASSUME Calm' PROVE CalmList'
        BY DEF CalmList
      <3>1. Calm
        BY <1>1 DEF Calm
      <3>2. num_jobs[Last] = 0 /\ count < pid /\ 0 <= count /\ (sigchld => Zombies # {})
        BY <1>0, <1>1, <2>2, <3>1 DEF CalmList
      <3>3. num_jobs'[Last] = 0
        BY <1>2, <2>1, <2>3, <3>1, <3>2 DEF Calm
      <3>4. Unreaped' = Unreaped /\ Zombies' = Zombies
        BY <1>1 DEF Unreaped, Running, Zombies
      <3>5. ASSUME NEW p \in Unreaped' PROVE \E i \in Used' : num_jobs'[i] = p
        <4>1. CASE p = pid
          BY <2>2, <2>4, <4>1
        <4>2. CASE p # pid
          <5>1. PICK i \in Used : num_jobs[i] = p
            BY <1>0, <3>1, <3>4, <4>2 DEF CalmList
          <5> QED
            BY <1>2, <2>2, <2>3, <5>1
        <4> QED
          BY <4>1, <4>2
      <3> QED
        BY <1>1, <1>2, <1>7, <2>2, <3>2, <3>3, <3>4, <3>5 DEF CalmList
    <2> QED
      BY <1>3, <1>4, <1>5, <2>5, <2>6 DEF IInv
  <1> QED
    BY <1>1, <1>6, <1>7

(* exec() stores the text of the command. *)
LEMMA LabelKeeps ==
  ASSUME IInv, label PROVE IInv'
  <1> USE IndexFacts
  <1>0. TypeOK /\ PidsGrow /\ ForegroundReaped /\ UsedOrdered /\ CalmList
    BY DEF IInv
  <1>1. /\ pc = "label"
        /\ num_jobs' = num_jobs /\ count' = count /\ pid' = pid
        /\ foreground' = foreground /\ child' = child /\ sigchld' = sigchld
        /\ \/ count \in Index /\ bg_cmds' = [bg_cmds EXCEPT ![count] = pid] /\ pc' = "count"
           \/ bg_cmds' = bg_cmds /\ pc' = "fault"
    BY DEF label
  <1>2. TypeOK'
    <2>1. bg_cmds' \in [Index -> Pids \cup {0}]
      BY <1>0, <1>1 DEF TypeOK
    <2>2. sigchld' \in BOOLEAN
      BY <1>0, <1>1 DEF TypeOK
    <2> QED
      BY <1>0, <1>1, <2>1, <2>2 DEF TypeOK
  <1>3. PidsGrow'
    BY <1>0, <1>1 DEF PidsGrow
  <1>4. ForegroundReaped'
    BY <1>0, <1>1 DEF ForegroundReaped
  <1>5. CASE pc' = "fault"
    BY <1>2, <1>3, <1>4, <1>5 DEF IInv, UsedOrdered, CalmList, Calm
  <1>6. CASE pc' = "count"
    <2>1. Used' = Used /\ Filling' /\ Filling /\ (Calm' <=> Calm)
      BY <1>1, <1>6 DEF Used, Filling, Calm
    <2>2. Unreaped' = Unreaped /\ Zombies' = Zombies
      BY <1>1 DEF Unreaped, Running, Zombies
    <2>3. UsedOrdered'
      BY <1>0, <1>1, <2>1 DEF UsedOrdered
    <2>4. CalmList'
      BY <1>0, <1>1, <1>6, <2>1, <2>2 DEF CalmList
    <2> QED
      BY <1>2, <1>3, <1>4, <2>3, <2>4 DEF IInv
  <1> QED
    BY <1>1, <1>5, <1>6

(* exec() counts the slot. *)
LEMMA IncrementKeeps ==
  ASSUME IInv, increment PROVE IInv'
  <1> USE IndexFacts
  <1>0. TypeOK /\ PidsGrow /\ ForegroundReaped /\ UsedOrdered /\ CalmList
    BY DEF IInv
  <1>1. /\ pc = "count" /\ pc' = "prompt" /\ count' = count + 1
        /\ num_jobs' = num_jobs /\ bg_cmds' = bg_cmds /\ pid' = pid
        /\ foreground' = foreground /\ child' = child /\ sigchld' = sigchld
    BY DEF increment
  <1>2. count \in Int /\ pid \in Int
    BY <1>0 DEF TypeOK
  <1>3. TypeOK'
    <2>1. sigchld' \in BOOLEAN
      BY <1>0, <1>1 DEF TypeOK
    <2> QED
      BY <1>0, <1>1, <1>2, <2>1 DEF TypeOK
  <1>4. PidsGrow'
    BY <1>0, <1>1 DEF PidsGrow
  <1>5. ForegroundReaped'
    BY <1>0, <1>1 DEF ForegroundReaped
  <1>6. Used' = Used /\ Filling /\ ~ Filling' /\ (Calm' <=> Calm)
    BY <1>1, <1>2 DEF Used, Filling, Calm
  <1>7. UsedOrdered'
    BY <1>0, <1>1, <1>2, <1>6 DEF UsedOrdered
  <1>8. CalmList'
    <2>1. Unreaped' = Unreaped /\ Zombies' = Zombies
      BY <1>1 DEF Unreaped, Running, Zombies
    <2> QED
      BY <1>0, <1>1, <1>2, <1>6, <2>1 DEF CalmList
  <1> QED
    BY <1>3, <1>4, <1>5, <1>7, <1>8 DEF IInv

(* main() returns from waitpid().  It is not calm: the child it waited for *)
(* ran in the foreground.                                                  *)
LEMMA WaitKeeps ==
  ASSUME IInv, wait PROVE IInv'
  <1> USE IndexFacts
  <1>0. TypeOK /\ PidsGrow /\ ForegroundReaped /\ UsedOrdered /\ CalmList
    BY DEF IInv
  <1>1. /\ pc = "wait" /\ pc' = "prompt"
        /\ child[pid] \in {"zombie", "gone"}
        /\ child' = [q \in Pids |-> IF q = pid THEN "gone" ELSE child[q]]
        /\ num_jobs' = num_jobs /\ bg_cmds' = bg_cmds /\ count' = count
        /\ pid' = pid /\ foreground' = foreground /\ sigchld' = sigchld
    BY DEF wait, Reap, list
  <1>2. pid \in foreground /\ foreground \subseteq 1 .. pid /\ foreground \subseteq Pids
    BY <1>0, <1>1 DEF PidsGrow, TypeOK
  <1>3. child \in [Pids -> {"none", "running", "zombie", "gone"}]
    BY <1>0 DEF TypeOK
  <1>4. TypeOK'
    <2>1. sigchld' \in BOOLEAN
      BY <1>0, <1>1 DEF TypeOK
    <2>2. child' \in [Pids -> {"none", "running", "zombie", "gone"}]
      BY <1>1, <1>3
    <2> QED
      BY <1>0, <1>1, <2>1, <2>2 DEF TypeOK
  <1>5. PidsGrow'
    BY <1>0, <1>1, <1>2 DEF PidsGrow
  <1>6. ForegroundReaped'
    BY <1>0, <1>1, <1>2 DEF ForegroundReaped
  <1>7. UsedOrdered'
    BY <1>0, <1>1 DEF UsedOrdered, Used, Filling
  <1>8. CalmList'
    BY <1>1, <1>2 DEF CalmList, Calm
  <1> QED
    BY <1>4, <1>5, <1>6, <1>7, <1>8 DEF IInv

(* What a run of the handler does that reaps p, or nothing, and whose       *)
(* search stops at slot i: it changes the list in one of three ways, or    *)
(* leaves the arrays.                                                      *)
Handled(p, i) ==
  /\ p \in Reapable
  /\ i = Last \/ num_jobs[i] = p
  /\ \A j \in 0 .. i - 1 : num_jobs[j] # p
  /\ child' = [q \in Pids |-> IF q = p THEN "gone" ELSE child[q]]
  /\ pid' = pid /\ foreground' = foreground /\ pc # "fault"
  /\ \/ /\ p = num_jobs[Last] /\ pc' = pc /\ count' = count - 1
        /\ num_jobs' = [num_jobs EXCEPT ![Last] = 0]
        /\ bg_cmds' = [bg_cmds EXCEPT ![Last] = 0]
     \/ /\ i = Last /\ pc' = pc /\ count' = count
        /\ num_jobs' = num_jobs /\ bg_cmds' = bg_cmds
     \/ /\ i < Last /\ count <= Last /\ pc' = pc /\ count' = count - 1
        /\ num_jobs' = Shifted(num_jobs, i)
        /\ bg_cmds' = Shifted(bg_cmds, i)
     \/ /\ pc' = "fault" /\ count' = count
        /\ num_jobs' = num_jobs /\ bg_cmds' = bg_cmds

LEMMA HandlerStep ==
  ASSUME IInv, sigchld_handler
  PROVE  \E p \in Pids \cup {0, -1}, i \in Index : Handled(p, i)
  <1>1. PICK p \in Reapable : Reap(p) /\ Unlist(p)
    BY DEF sigchld_handler
  <1>2. p \in Pids \cup {0, -1}
    BY DEF Reapable, Zombies
  <1>3. /\ Position(p) \in Index
        /\ Position(p) = Last \/ num_jobs[Position(p)] = p
        /\ \A j \in 0 .. Position(p) - 1 : num_jobs[j] # p
    BY PositionFacts
  <1>4. /\ child' = [q \in Pids |-> IF q = p THEN "gone" ELSE child[q]]
        /\ pid' = pid /\ foreground' = foreground /\ pc # "fault"
    BY <1>1 DEF Reap, sigchld_handler
  <1>5. \/ /\ p = num_jobs[Last] /\ pc' = pc /\ count' = count - 1
           /\ num_jobs' = [num_jobs EXCEPT ![Last] = 0]
           /\ bg_cmds' = [bg_cmds EXCEPT ![Last] = 0]
        \/ /\ Position(p) = Last /\ pc' = pc /\ count' = count
           /\ num_jobs' = num_jobs /\ bg_cmds' = bg_cmds
        \/ /\ Position(p) < Last /\ count <= Last /\ pc' = pc /\ count' = count - 1
           /\ num_jobs' = Shifted(num_jobs, Position(p))
           /\ bg_cmds' = Shifted(bg_cmds, Position(p))
        \/ /\ pc' = "fault" /\ count' = count
           /\ num_jobs' = num_jobs /\ bg_cmds' = bg_cmds
    BY <1>1 DEF Unlist, Cleared, Remaining, list
  <1>6. Handled(p, Position(p))
    BY <1>1, <1>3, <1>4, <1>5 DEF Handled
  <1> QED
    BY <1>2, <1>3, <1>6

(* The entry of slot j after the entries behind slot i have moved. *)
LEMMA ShiftedFacts ==
  ASSUME NEW a \in [Index -> Pids \cup {0}], NEW i \in Index, count \in Int, count <= Last
  PROVE  /\ Shifted(a, i) \in [Index -> Pids \cup {0}]
         /\ \A j \in Index : i <= j /\ j < count => j + 1 \in Index /\ Shifted(a, i)[j] = a[j + 1]
         /\ \A j \in Index : j < i \/ count <= j => Shifted(a, i)[j] = a[j]
  <1> USE IndexFacts
  <1>1. \A j \in Index : i <= j /\ j < count => j + 1 \in Index
    OBVIOUS
  <1> QED
    BY <1>1 DEF Shifted

(* The handler, whatever it reaps and wherever main() is. *)
LEMMA HandlerKeeps ==
  ASSUME IInv, sigchld_handler PROVE IInv'
  <1> USE IndexFacts
  <1>0. TypeOK /\ PidsGrow /\ ForegroundReaped /\ UsedOrdered /\ CalmList
    BY DEF IInv
  <1>1. PICK p \in Pids \cup {0, -1}, i \in Index : Handled(p, i)
    BY HandlerStep
  <1> USE DEF Handled
  <1>2. /\ num_jobs \in [Index -> Pids \cup {0}] /\ bg_cmds \in [Index -> Pids \cup {0}]
        /\ count \in Int /\ pid \in Int /\ pid >= 0
        /\ child \in [Pids -> {"none", "running", "zombie", "gone"}]
    BY <1>0 DEF TypeOK
  <1>3. sigchld = TRUE /\ sigchld' = FALSE
    BY <1>0 DEF sigchld_handler, TypeOK
  <1>4. /\ num_jobs' \in [Index -> Pids \cup {0}] /\ bg_cmds' \in [Index -> Pids \cup {0}]
        /\ count' \in Int /\ (pc' = pc \/ pc' = "fault")
    BY <1>1, <1>2, ShiftedFacts
  <1>5. TypeOK'
    <2>1. sigchld' \in BOOLEAN
      BY <1>3
    <2>2. child' \in [Pids -> {"none", "running", "zombie", "gone"}]
      BY <1>1, <1>2
    <2> QED
      BY <1>0, <1>1, <1>4, <2>1, <2>2 DEF TypeOK
  <1>6. PidsGrow'
    <2>1. \A q \in Pids : q > pid => child[q] = "none" /\ q # p
      <3>1. p \in Pids => child[p] = "zombie"
        BY <1>1 DEF Reapable, Zombies
      <3> QED
        BY <1>0, <3>1 DEF PidsGrow
    <2>2. ASSUME NEW j \in Index
          PROVE  num_jobs'[j] = 0 \/ \E k \in Index : num_jobs'[j] = num_jobs[k]
      BY <1>1, <1>2, ShiftedFacts
    <2>3. \A j \in Index : num_jobs'[j] <= pid /\ (pc' = "store" => num_jobs'[j] < pid)
      BY <1>0, <1>2, <1>4, <2>2 DEF PidsGrow
    <2> QED
      BY <1>0, <1>1, <1>4, <2>1, <2>3 DEF PidsGrow
  <1>7. ForegroundReaped'
    <2>1. foreground \subseteq Pids
      BY <1>0 DEF TypeOK
    <2> QED
      BY <1>0, <1>1, <1>4, <2>1 DEF ForegroundReaped
  <1>8. CASE pc' = "fault"
    BY <1>5, <1>6, <1>7, <1>8 DEF IInv, UsedOrdered, CalmList, Calm
  <1>9. CASE pc' = pc /\ count' = count /\ num_jobs' = num_jobs
    <2>1. Used' = Used /\ (Filling' <=> Filling) /\ (Calm' <=> Calm)
      BY <1>1, <1>9 DEF Used, Filling, Calm
    <2>2. UsedOrdered'
      BY <1>0, <1>9, <2>1 DEF UsedOrdered
    <2>3. Unreaped' \subseteq Unreaped
      BY <1>1 DEF Unreaped, Running, Zombies
    <2>4. CalmList'
      BY <1>0, <1>1, <1>3, <1>9, <2>1, <2>3 DEF CalmList
    <2> QED
      BY <1>5, <1>6, <1>7, <2>2, <2>4 DEF IInv
  <1>10. CASE p = num_jobs[Last] /\ pc' = pc /\ count' = count - 1
              /\ num_jobs' = [num_jobs EXCEPT ![Last] = 0]
    <2>1. count <= Slots /\ (Filling => count < Slots) /\ (Filling' <=> Filling)
          /\ \A j, k \in Used : j < k => num_jobs[j] < num_jobs[k]
      BY <1>0, <1>1, <1>10 DEF UsedOrdered, Filling
    <2>2. \A j \in Used' : j \in Used /\ j # Last /\ num_jobs'[j] = num_jobs[j]
      BY <1>2, <1>10, <2>1 DEF Used
    <2>3. UsedOrdered'
      BY <1>2, <1>10, <2>1, <2>2 DEF UsedOrdered
    <2>4. ~ Calm'
      <3>1. ASSUME Calm' PROVE FALSE
        <4>1. Calm
          BY <1>1, <1>10, <3>1 DEF Calm
        <4>2. Zombies # {} /\ num_jobs[Last] = 0
          BY <1>0, <1>3, <4>1 DEF CalmList
        <4>3. p \in Pids
          BY <1>1, <4>2 DEF Reapable, Zombies
        <4> QED
          BY <1>10, <4>2, <4>3
      <3> QED
        BY <3>1
    <2> QED
      BY <1>5, <1>6, <1>7, <2>3, <2>4 DEF IInv, CalmList
  <1>11. CASE i < Last /\ count <= Last /\ pc' = pc /\ count' = count - 1
              /\ num_jobs' = Shifted(num_jobs, i)
    <2>1. Filling' <=> Filling
      BY <1>11 DEF Filling
    <2> DEFINE old(j) == IF i <= j THEN j + 1 ELSE j
    <2>2. ASSUME NEW j \in Used' PROVE old(j) \in Used /\ num_jobs'[j] = num_jobs[old(j)]
      <3>1. j \in Index /\ j < count
        BY <1>2, <1>11 DEF Used
      <3>2. num_jobs'[j] = num_jobs[old(j)] /\ old(j) \in Index
        BY <1>2, <1>11, <3>1, ShiftedFacts
      <3>3. old(j) \in Used
        BY <1>2, <1>11, <2>1, <3>1, <3>2 DEF Used
      <3> QED
        BY <3>2, <3>3
    <2>3. UsedOrdered'
      <3>1. \A j, k \in Used : j < k => num_jobs[j] < num_jobs[k]
        BY <1>0, <1>1 DEF UsedOrdered
      <3>2. ASSUME NEW j \in Used', NEW k \in Used', j < k PROVE num_jobs'[j] < num_jobs'[k]
        <4>1. old(j) < old(k)
          BY <3>2 DEF Used
        <4> QED
          BY <2>2, <3>1, <4>1
      <3> QED
        BY <1>2, <1>11, <3>2 DEF UsedOrdered
    <2>4. CalmList'
      <3> SUFFICES ASSUME Calm' PROVE CalmList'
        BY DEF CalmList
      <3>1. Calm
        BY <1>1, <1>11 DEF Calm
      <3>2. /\ Zombies # {} /\ num_jobs[Last] = 0
            /\ IF Filling THEN -1 <= count ELSE 0 <= count
            /\ IF pc \in {"store", "label", "count"} THEN count < pid ELSE count <= pid
            /\ \A q \in Unreaped : (pc = "store" /\ q = pid) \/ \E e \in Used : num_jobs[e] = q
        BY <1>0, <1>3, <3>1 DEF CalmList
      <3>3. p \in Pids /\ p \in Unreaped /\ num_jobs[i] = p
        BY <1>1, <1>11, <3>2 DEF Reapable, Zombies, Unreaped
      <3>4. i \in Used
        <4>1. ~ (pc = "store" /\ p = pid)
          BY <1>0, <1>2, <3>3 DEF PidsGrow
        <4>2. PICK e \in Used : num_jobs[e] = p
          BY <3>2, <3>3, <4>1
        <4>3. e \in Index /\ i <= e
          BY <1>1, <4>2 DEF Used
        <4> QED
          BY <1>2, <4>2, <4>3 DEF Used
      <3>5. num_jobs'[Last] = 0
        BY <1>2, <1>11, <3>2, ShiftedFacts
      <3>6. IF Filling THEN -1 <= count' ELSE 0 <= count'
        BY <1>2, <1>11, <3>4 DEF Used
      <3>7. IF pc \in {"store", "label", "count"} THEN count' < pid ELSE count' <= pid
        BY <1>2, <1>11, <3>2
      <3>8. ASSUME NEW q \in Unreaped'
            PROVE  (pc = "store" /\ q = pid) \/ \E e \in Used' : num_jobs'[e] = q
        <4>1. q \in Unreaped /\ q # p
          BY <1>1 DEF Unreaped, Running, Zombies
        <4>2. CASE pc = "store" /\ q = pid
          BY <4>2
        <4>3. CASE \E e \in Used : num_jobs[e] = q
          <5>1. PICK e \in Used : num_jobs[e] = q
            BY <4>3
          <5>2. e \in Index /\ e # i
            BY <3>3, <4>1, <5>1 DEF Used
          <5>3. CASE e < i
            <6>1. e \in Used'
              BY <1>2, <1>11, <2>1, <3>4, <5>2, <5>3 DEF Used
            <6>2. num_jobs'[e] = q
              BY <1>2, <1>11, <5>1, <5>2, <5>3, ShiftedFacts
            <6> QED
              BY <6>1, <6>2
          <5>4. CASE e > i
            <6>1. e - 1 \in Index /\ e - 1 \in Used' /\ i <= e - 1 /\ e - 1 < count
              BY <1>2, <1>11, <2>1, <5>2, <5>4 DEF Used
            <6>2. num_jobs'[e - 1] = num_jobs[(e - 1) + 1]
              BY <1>2, <1>11, <6>1, ShiftedFacts
            <6>3. (e - 1) + 1 = e
              BY <5>2
            <6> QED
              BY <5>1, <6>1, <6>2, <6>3
          <5> QED
            BY <5>2, <5>3, <5>4
        <4> QED
          BY <3>2, <4>1, <4>2, <4>3
      <3> QED
        BY <1>1, <1>3, <1>11, <2>1, <3>5, <3>6, <3>7, <3>8 DEF CalmList
    <2> QED
      BY <1>5, <1>6, <1>7, <2>3, <2>4 DEF IInv
  <1> QED
    BY <1>1, <1>8, <1>9, <1>10, <1>11

LEMMA NextKeeps == IInv /\ [Next]_vars => IInv'
  <1> SUFFICES ASSUME IInv, [Next]_vars PROVE IInv'
    OBVIOUS
  <1>1. CASE UNCHANGED vars
    BY <1>1 DEF vars, IInv, TypeOK, PidsGrow, ForegroundReaped, UsedOrdered, CalmList, Calm,
               Used, Filling, Unreaped, Running, Zombies
  <1>2. CASE Next
    <2>1. CASE \E isBackground \in BOOLEAN : fork(isBackground)
      BY <2>1, ForkKeeps
    <2>2. CASE store
      BY <2>2, StoreKeeps
    <2>3. CASE label
      BY <2>3, LabelKeeps
    <2>4. CASE increment
      BY <2>4, IncrementKeeps
    <2>5. CASE wait
      BY <2>5, WaitKeeps
    <2>6. CASE sigchld_handler
      BY <2>6, HandlerKeeps
    <2>7. CASE \E p \in Pids : exit_child(p)
      BY <2>7, ExitKeeps
    <2> QED
      BY <1>2, <2>1, <2>2, <2>3, <2>4, <2>5, <2>6, <2>7 DEF Next, exec
  <1> QED
    BY <1>1, <1>2

LEMMA Invariance == Spec => []IInv
  BY InitHolds, NextKeeps, PTL DEF Spec

(* Every variable of the shell keeps its type: in particular no step of    *)
(* the handler's shifting reads or writes beside the arrays without going  *)
(* to "fault" (shell.c:595-612).                                           *)
THEOREM TypeCorrect == Spec => []TypeOK
  BY Invariance, PTL DEF IInv

(* The command that ran in the foreground is reaped, by main() or by the   *)
(* handler, when the next line is read (shell.c:440, 584).                 *)
THEOREM ForegroundReapedHolds == Spec => []ForegroundReaped
  BY Invariance, PTL DEF IInv

(* The list names no job twice and keeps the order of the forks, for any   *)
(* number of slots and jobs, wherever the handler interrupts exec() and    *)
(* although it decrements count for jobs that were never listed            *)
(* (shell.c:435-437, 595-612).                                             *)
THEOREM ListOrderedHolds == Spec => []ListOrdered
  <1>1. IInv => ListOrdered
    <2> SUFFICES ASSUME IInv PROVE ListOrdered
      OBVIOUS
    <2>1. Listed \subseteq Used
      BY DEF Listed, Used
    <2> QED
      BY <2>1 DEF IInv, UsedOrdered, ListOrdered
  <1> QED
    BY <1>1, Invariance, PTL

(* As long as every command runs in the background and there are fewer of  *)
(* them than slots, no job that runs is missing from the list at a prompt  *)
(* (shell.c:595-612).                                                      *)
THEOREM RunningListedHolds == Spec => []RunningListed
  <1>1. IInv => RunningListed
    <2> SUFFICES ASSUME IInv, foreground = {}, pid < Slots, pc = "prompt", NEW p \in Running
                 PROVE  \E i \in Listed : num_jobs[i] = p
      BY DEF RunningListed
    <2>1. Calm /\ p \in Unreaped /\ Used = Listed
      BY DEF Calm, Unreaped, Used, Listed, Filling
    <2> QED
      BY <2>1 DEF IInv, CalmList
  <1> QED
    BY <1>1, Invariance, PTL
=============================================================================
