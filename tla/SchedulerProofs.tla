--------------------------- MODULE SchedulerProofs ---------------------------
(***************************************************************************)
(* Proofs about Scheduler, for any number of processes, any set of         *)
(* specification files and any poll rate.                                  *)
(***************************************************************************)
EXTENDS Scheduler, FiniteSetTheorems, NaturalsInduction, WellFoundedInduction, TLAPS

-----------------------------------------------------------------------------
(***************************************************************************)
(* Type correctness.                                                       *)
(***************************************************************************)

LEMMA ReadyType ==
  ASSUME TypeOK
  PROVE  /\ ready \in [Procs -> States]
         /\ prepared \in [Procs -> Contexts]
         /\ saved \in [Procs -> Contexts]
<1>1. ready \in [Procs -> States]
  BY DEF TypeOK, ready, Requeued, States
<1>2. prepared \in [Procs -> Contexts]
  BY DEF TypeOK, prepared, Contexts
<1>3. saved \in [Procs -> Contexts]
  BY <1>2 DEF saved, Contexts
<1> QED
  BY <1>1, <1>2, <1>3

LEMMA SwitchType ==
  ASSUME TypeOK, NEW pid, context_switch(pid)
  PROVE  /\ state' \in [Procs -> States]
         /\ context' \in [Procs -> Contexts]
         /\ current_quantum' \in Nat
         /\ current_process' \in Procs
         /\ alarm' \in BOOLEAN
         /\ pc' \in Points
         /\ in_main' \in BOOLEAN
<1> USE ReadyType
<1>1. CASE pid \notin Procs
  BY <1>1 DEF context_switch, TypeOK, Points
<1>2. CASE pid \in Procs /\ pid = current_process /\ current_quantum > 0
  <2>1. /\ state' = [ready EXCEPT ![pid] = "RUNNING"]
        /\ context' = prepared
        /\ current_quantum' = current_quantum + 1
        /\ alarm' = TRUE
        /\ pc' = ReturnPoint
        /\ UNCHANGED <<current_process, in_main>>
    BY <1>2 DEF context_switch, TypeOK, alarm_set
  <2>2. pc' \in Points
    BY <2>1 DEF ReturnPoint, Points
  <2> QED
    BY <1>2, <2>1, <2>2 DEF TypeOK, States
<1>3. CASE pid \in Procs /\ (pid # current_process \/ current_quantum = 0)
  <2>1. /\ state' = [ready EXCEPT ![pid] = "RUNNING"]
        /\ context' = saved
        /\ current_quantum' = current_quantum + 1
        /\ current_process' = pid
        /\ alarm' = TRUE
        /\ pc' = ResumePoint(pid, saved[pid])
        /\ in_main' = (saved[pid] = "main")
    BY <1>3 DEF context_switch, TypeOK, alarm_set
  <2>2. pc' \in Points
    BY <2>1 DEF ResumePoint, Points
  <2>3. in_main' \in BOOLEAN
    BY <2>1
  <2> QED
    BY <1>3, <2>1, <2>2, <2>3 DEF TypeOK, States
<1> QED
  BY <1>1, <1>2, <1>3 DEF context_switch

LEMMA InitTypeOK == Init => TypeOK
<1> SUFFICES ASSUME Init PROVE TypeOK
  OBVIOUS
<1>1. 0 \in Procs /\ 0 \in 0 .. Slices - 1
  BY NumProcessesAssumption, SlicesAssumption DEF Procs
<1> QED
  BY <1>1, SpecsAssumption, AlgorithmsAssumption
     DEF Init, TypeOK, States, Contexts, Points

LEMMA NextTypeOK ==
  ASSUME TypeOK, [Next]_vars
  PROVE  TypeOK'
<1> USE SlicesAssumption
<1>1. CASE enter_handler
  BY <1>1 DEF TypeOK, enter_handler, input, Points
<1>2. CASE interrupt_handler
  <2>1. UNCHANGED <<input, executed_work, slice, g_interrupt>>
    BY <1>2 DEF interrupt_handler
  <2>2. CASE \E pid \in Choices : context_switch(pid)
    BY <2>1, <2>2, SwitchType DEF TypeOK, input
  <2>3. CASE /\ state' = ready
             /\ context' = prepared
             /\ pc' = IF g_scheduling_algo = "insanity" THEN "spin" ELSE ReturnPoint
             /\ UNCHANGED <<current_quantum, current_process, alarm, in_main>>
    BY <2>1, <2>3, ReadyType DEF TypeOK, input, Points, ReturnPoint
  <2> QED
    BY <1>2, <2>2, <2>3 DEF interrupt_handler
<1>3. CASE process_work
  BY <1>3 DEF TypeOK, process_work, input, Points
<1>4. CASE process_tick
  BY <1>4 DEF TypeOK, process_tick, input, Points
<1>5. CASE process_exit
  BY <1>5 DEF TypeOK, process_exit, input, Points, States, Contexts, Returned
<1>6. CASE main_check
  BY <1>6 DEF TypeOK, main_check, input, Points
<1>7. CASE signal_handler
  BY <1>7 DEF TypeOK, signal_handler, input
<1>8. CASE UNCHANGED vars
  BY <1>8 DEF TypeOK, vars
<1> QED
  BY <1>1, <1>2, <1>3, <1>4, <1>5, <1>6, <1>7, <1>8 DEF Next, Program, finished

(* Every variable keeps the type its C declaration and its use give it:    *)
(* in particular current_process always indexes the PCB array              *)
(* (scheduler.c:46-86, 92).                                                *)
THEOREM TypeCorrect == Spec => []TypeOK
<1>1. Init => TypeOK
  BY InitTypeOK
<1>2. TypeOK /\ [Next]_vars => TypeOK'
  BY NextTypeOK
<1> QED
  BY <1>1, <1>2, PTL DEF Spec

-----------------------------------------------------------------------------
(***************************************************************************)
(* What the search loops return.                                           *)
(***************************************************************************)

(* A nonempty set of naturals has a least element. *)
LEMMA LeastNatural ==
  ASSUME NEW T \in SUBSET Nat, T # {}
  PROVE  \E x \in T : \A y \in T : x <= y
<1>1. PICK x \in T : \A y \in T : ~ (<<y, x>> \in OpToRel(<, Nat))
  BY NatLessThanWellFounded, WFMin, T \subseteq Nat
<1>2. ASSUME NEW y \in T PROVE x <= y
  <2>1. x \in Nat /\ y \in Nat
    OBVIOUS
  <2>2. ~ (y < x)
    BY <1>1, <2>1 DEF OpToRel
  <2> QED
    BY <2>1, <2>2
<1> QED
  BY <1>2

(* The order in which the search loops prefer processes. *)
Preferred(i, j, key) == key[i] < key[j] \/ (key[i] = key[j] /\ i <= j)

(* The search finds a process whenever there is a candidate: a nonempty    *)
(* set of PCB indices has a first element in every key order.              *)
LEMMA FirstExists ==
  ASSUME NEW key \in [Procs -> Int],
         NEW S \in SUBSET Procs, S # {}
  PROVE  \E i \in S : \A j \in S : Preferred(i, j, key)
<1> DEFINE Minimal(T) == \E i \in T : \A j \in T : Preferred(i, j, key)
           Bad == {n \in Nat : \E T \in SUBSET Procs :
                      T # {} /\ (\A i \in T : i <= n) /\ ~ Minimal(T)}
<1>0. Procs \subseteq Nat /\ \A i \in Procs : i <= NumProcesses - 1
  BY NumProcessesAssumption DEF Procs
<1>1. Bad = {}
  <2> SUFFICES ASSUME Bad # {} PROVE FALSE
    OBVIOUS
  <2> HIDE DEF Minimal
  <2>1. PICK n \in Bad : \A m \in Bad : n <= m
    BY LeastNatural
  <2>2. PICK T \in SUBSET Procs : T # {} /\ (\A i \in T : i <= n) /\ ~ Minimal(T)
    BY <2>1
  <2>3. n \in Nat
    BY <2>1
  <2>4. CASE T \ {n} = {}
    <3>1. n \in T /\ T = {n}
      BY <2>2, <2>4
    <3>2. n \in Procs /\ key[n] \in Int
      BY <3>1
    <3>3. Preferred(n, n, key)
      BY <2>3, <3>2 DEF Preferred
    <3> QED
      BY <2>2, <3>1, <3>3 DEF Minimal
  <2>5. CASE T \ {n} # {}
    <3>1. \A i \in T \ {n} : i \in Nat /\ i <= n - 1
      BY <1>0, <2>2, <2>3
    <3>2. n - 1 \in Nat
      BY <2>3, <2>5, <3>1
    <3>3. n - 1 \notin Bad
      BY <2>1, <2>3, <3>2
    <3>4. Minimal(T \ {n})
      BY <2>2, <2>5, <3>1, <3>2, <3>3
    <3>5. PICK m \in T \ {n} : \A j \in T \ {n} : Preferred(m, j, key)
      BY <3>4 DEF Minimal
    <3>6. CASE n \notin T
      BY <2>2, <3>5, <3>6 DEF Minimal
    <3>7. CASE n \in T /\ key[n] < key[m]
      <4>1. \A j \in T : Preferred(n, j, key)
        BY <1>0, <2>2, <3>5, <3>7 DEF Preferred
      <4> QED
        BY <2>2, <3>7, <4>1 DEF Minimal
    <3>8. CASE n \in T /\ ~ (key[n] < key[m])
      <4>1. \A j \in T : Preferred(m, j, key)
        BY <1>0, <2>2, <3>1, <3>5, <3>8 DEF Preferred
      <4> QED
        BY <2>2, <3>5, <4>1 DEF Minimal
    <3> QED
      BY <3>6, <3>7, <3>8
  <2> QED
    BY <2>4, <2>5
<1>2. NumProcesses - 1 \in Nat
  BY NumProcessesAssumption
<1> QED
  BY <1>0, <1>1, <1>2

LEMMA FirstInSet ==
  ASSUME NEW key \in [Procs -> Int],
         NEW S \in SUBSET Procs, S # {}
  PROVE  /\ First(S, key) \in S
         /\ \A j \in S : Preferred(First(S, key), j, key)
BY FirstExists DEF First, Preferred

LEMMA LowestInSet ==
  ASSUME NEW S \in SUBSET Procs, S # {}
  PROVE  Lowest(S) \in S /\ \A j \in S : Lowest(S) <= j
<1>1. S \in SUBSET Nat
  BY NumProcessesAssumption DEF Procs
<1>2. \E i \in S : \A j \in S : i <= j
  BY <1>1, LeastNatural
<1> QED
  BY <1>2 DEF Lowest

-----------------------------------------------------------------------------
(***************************************************************************)
(* The inductive invariant.                                                *)
(***************************************************************************)

(* Which stack control is on: main's before the first dispatch and after a *)
(* process has terminated, otherwise the running process's.  main only     *)
(* schedules while some process has not terminated.                        *)
Placement ==
  /\ pc \in {"clear", "check", "done"} => in_main
  /\ in_main => pc \in {"clear", "sched", "check", "done"}
  /\ in_main => current_quantum = 0 \/ state[current_process] = "TERMINATED"
  /\ ~ in_main => state[current_process] = "RUNNING"
  /\ in_main /\ pc \in {"clear", "sched"} =>
       \E i \in Procs : state[i] # "TERMINATED"

(* Every process that runs or has terminated was dispatched in a quantum   *)
(* of its own.                                                             *)
Busy == {i \in Procs : state[i] \in {"RUNNING", "TERMINATED"}}

QuantumPerProcess == Cardinality(Busy) <= current_quantum

(* How much work is left at each point of process(). *)
WorkLeft ==
  /\ WorkDone
  /\ \A i \in Procs :
       state[i] = "WAITING" /\ context[i] = "work" =>
         executed_work[i] < spec.workload[i]
  /\ pc \in {"work", "tick"} \/ (pc = "sched" /\ ~ in_main) =>
       executed_work[current_process] < spec.workload[current_process]
  /\ pc = "exit" =>
       executed_work[current_process] = spec.workload[current_process]

Core ==
  /\ NoFault
  /\ RunningIsCurrent
  /\ ArrivalsOnTime
  /\ InterruptPending
  /\ ResumableContexts
  /\ Placement
  /\ QuantumPerProcess
  /\ WorkLeft

IInv == TypeOK /\ (WellFormedInput => Core)

-----------------------------------------------------------------------------
(***************************************************************************)
(* Something can always run when the scheduler is asked, and it is a       *)
(* candidate that is chosen.                                               *)
(***************************************************************************)

LEMMA FiniteProcs ==
  ASSUME NEW S \in SUBSET Procs
  PROVE  IsFiniteSet(Procs) /\ IsFiniteSet(S) /\ Cardinality(S) \in Nat
<1>1. IsFiniteSet(Procs)
  BY FS_Interval, NumProcessesAssumption DEF Procs
<1> QED
  BY <1>1, FS_Subset, FS_CardinalityType

(* Before the first dispatch nothing runs or has terminated. *)
LEMMA NothingBusyAtZero ==
  ASSUME TypeOK, Core, current_quantum = 0
  PROVE  Busy = {}
<1>1. Busy \in SUBSET Procs
  BY DEF Busy
<1>2. Cardinality(Busy) = 0
  BY <1>1, FiniteProcs DEF Core, QuantumPerProcess
<1> QED
  BY <1>1, <1>2, FiniteProcs, FS_EmptySet

(* A dense file never leaves the scheduler without a process to run: if it *)
(* did, the processes that arrived before the next arrival would all have  *)
(* terminated, each in a quantum of its own, so that arrival is overdue.   *)
LEMMA NeverIdle ==
  ASSUME TypeOK, WellFormedInput, Core, pc = "sched"
  PROVE  candidates # {}
<1> SUFFICES ASSUME candidates = {} PROVE FALSE
  OBVIOUS
<1>1. \A i \in Procs : ready[i] # "WAITING"
  BY DEF candidates, Waiting
<1>2. \A i \in Procs : spec.creation_quantum[i] # current_quantum
  BY <1>1 DEF ready, Arrives
<1>3. \A i \in Procs : state[i] # "WAITING"
  BY <1>1, <1>2 DEF ready, Arrives, Requeued
<1>4. in_main
  BY <1>1, <1>2 DEF Core, Placement, ready, Arrives, Requeued, TypeOK
<1>5. \A i \in Procs : state[i] # "RUNNING"
  <2>1. CASE current_quantum = 0
    BY <2>1, NothingBusyAtZero DEF Busy
  <2>2. CASE state[current_process] = "TERMINATED"
    BY <2>2 DEF Core, RunningIsCurrent
  <2> QED
    BY <1>4, <2>1, <2>2 DEF Core, Placement
<1>6. PICK u \in Procs : state[u] = "CREATED"
  BY <1>3, <1>4, <1>5 DEF Core, Placement, TypeOK, States
<1> DEFINE Unborn == {spec.creation_quantum[i] : i \in {k \in Procs : state[k] = "CREATED"}}
<1>7. Unborn \in SUBSET Nat /\ Unborn # {}
  BY <1>6 DEF TypeOK, ProcessSpec
<1>8. PICK first \in Unborn : \A c \in Unborn : first <= c
  BY <1>7, LeastNatural
<1>9. PICK m \in Procs : state[m] = "CREATED" /\ spec.creation_quantum[m] = first
  BY <1>8
<1> DEFINE Earlier == {j \in Procs : spec.creation_quantum[j] < spec.creation_quantum[m]}
<1>10. spec.creation_quantum[m] <= Cardinality(Earlier)
  BY DEF WellFormedInput, Dense
<1>11. Earlier \subseteq Busy
  <2> SUFFICES ASSUME NEW j \in Earlier PROVE state[j] = "TERMINATED"
    BY DEF Busy
  <2>1. j \in Procs /\ spec.creation_quantum[j] < first /\ spec.creation_quantum[j] \in Nat
    BY <1>9 DEF TypeOK, ProcessSpec
  <2>2. state[j] # "CREATED"
    BY <1>7, <1>8, <2>1
  <2> QED
    BY <1>3, <1>5, <2>1, <2>2 DEF TypeOK, States
<1>12. Cardinality(Earlier) <= Cardinality(Busy)
  <2>1. Busy \in SUBSET Procs
    BY DEF Busy
  <2> QED
    BY <1>11, <2>1, FiniteProcs, FS_Subset
<1>13. spec.creation_quantum[m] > current_quantum
  BY <1>2, <1>9 DEF Core, ArrivalsOnTime, NoFault, TypeOK, ProcessSpec
<1>14. /\ spec.creation_quantum[m] \in Nat
       /\ current_quantum \in Nat
       /\ Cardinality(Earlier) \in Nat
       /\ Cardinality(Busy) \in Nat
  BY FiniteProcs DEF TypeOK, ProcessSpec, Busy
<1> QED
  BY <1>10, <1>12, <1>13, <1>14 DEF Core, QuantumPerProcess

(* Whatever the algorithm, the pid it hands to context_switch is that of a *)
(* waiting process.                                                        *)
LEMMA ChoiceIsCandidate ==
  ASSUME TypeOK, WellFormedInput, candidates # {}
  PROVE  Choices # {} /\ Choices \subseteq candidates
<1>1. candidates \in SUBSET Procs
  BY DEF candidates, Waiting
<1>2. /\ spec.creation_quantum \in [Procs -> Int]
      /\ spec.workload \in [Procs -> Int]
      /\ Remaining \in [Procs -> Int]
      /\ Urgency \in [Procs -> Int]
  BY DEF TypeOK, ProcessSpec, Remaining, Urgency
<1>3. basic # {} /\ basic \subseteq candidates
  BY <1>1, LowestInSet DEF basic
<1>4. ready[current_process] = "WAITING" => current_process \in candidates
  BY DEF TypeOK, candidates, Waiting
<1>5. ready[current_process] # "RUNNING"
  BY DEF TypeOK, ready, Requeued
<1>6. fifo # {} /\ fifo \subseteq candidates
  BY <1>1, <1>2, <1>5, FirstInSet DEF fifo
<1>7. sjf # {} /\ sjf \subseteq candidates
  BY <1>1, <1>2, FirstInSet DEF sjf
<1>8. psjf # {} /\ psjf \subseteq candidates
  BY <1>4, <1>7 DEF psjf
<1>9. sctf # {} /\ sctf \subseteq candidates
  BY <1>1, <1>2, <1>4, FirstInSet DEF sctf
<1>10. rr # {} /\ rr \subseteq candidates
  <2> DEFINE after == {i \in candidates : current_process < i}
  <2>1. after \in SUBSET Procs /\ (after # {} => Lowest(after) \in after)
    BY <1>1, LowestInSet
  <2> QED
    BY <1>3, <2>1 DEF rr
<1>11. g_scheduling_algo = "priority" => priority # {} /\ priority \subseteq candidates
  <2> SUFFICES ASSUME g_scheduling_algo = "priority"
               PROVE  priority # {} /\ priority \subseteq candidates
    OBVIOUS
  <2>1. {i \in candidates : spec.priority[i] > 0} = candidates
    BY <1>1 DEF WellFormedInput, Prioritised
  <2> QED
    BY <1>1, <1>2, <2>1, FirstInSet DEF priority
<1>12. insanity # {} /\ insanity \subseteq candidates
  BY DEF insanity
<1> QED
  BY <1>1, <1>3, <1>6, <1>7, <1>8, <1>9, <1>10, <1>11, <1>12
     DEF Choices, TypeOK, AllAlgorithms

-----------------------------------------------------------------------------
(***************************************************************************)
(* Preservation of the invariant.                                          *)
(***************************************************************************)

(* What a call of interrupt_handler() does on a well-formed input: it      *)
(* dispatches one waiting process, which resumes in its own stack.         *)
LEMMA Dispatch ==
  ASSUME TypeOK, WellFormedInput, Core, interrupt_handler
  PROVE  /\ current_process' \in candidates
         /\ state' = [ready EXCEPT ![current_process'] = "RUNNING"]
         /\ current_quantum' = current_quantum + 1
         /\ alarm'
         /\ ~ in_main'
         /\ \/ /\ current_process' = current_process
               /\ ~ in_main
               /\ pc' = "tick"
               /\ context' = prepared
            \/ /\ current_process' # current_process \/ current_quantum = 0
               /\ context' = saved
               /\ saved[current_process'] \in {"fresh", "work"}
               /\ pc' = ResumePoint(current_process', saved[current_process'])
         /\ UNCHANGED <<input, executed_work, slice, g_interrupt>>
<1>1. pc = "sched" /\ UNCHANGED <<input, executed_work, slice, g_interrupt>>
  BY DEF interrupt_handler
<1>2. candidates # {} /\ Choices # {} /\ Choices \subseteq candidates
  BY <1>1, NeverIdle, ChoiceIsCandidate
<1>3. PICK pid \in candidates : context_switch(pid)
  BY <1>2 DEF interrupt_handler
<1>4. pid \in Procs /\ ready[pid] = "WAITING"
  BY <1>3 DEF candidates, Waiting
<1>5. CASE pid = current_process /\ current_quantum > 0
  <2>1. ~ in_main
    <3>1. spec.creation_quantum[pid] = current_quantum => state[pid] = "CREATED"
      BY <1>1, <1>4 DEF Core, ArrivalsOnTime, TypeOK, ProcessSpec
    <3> QED
      BY <1>4, <1>5, <3>1 DEF Core, Placement, ready, Arrives, Requeued, TypeOK
  <2> QED
    BY <1>1, <1>3, <1>4, <1>5, <2>1 DEF context_switch, ReturnPoint, alarm_set, TypeOK
<1>6. CASE pid # current_process \/ current_quantum = 0
  <2>1. saved[pid] \in {"fresh", "work"}
    <3>1. prepared[pid] \in {"fresh", "work"}
      <4>1. CASE Arrives(pid)
        BY <1>4, <4>1 DEF prepared
      <4>2. CASE ~ Arrives(pid) /\ state[pid] = "WAITING"
        BY <1>1, <1>4, <4>2 DEF prepared, Core, ResumableContexts
      <4>3. CASE ~ Arrives(pid) /\ state[pid] # "WAITING"
        <5>1. pid = current_process /\ state[pid] = "RUNNING"
          BY <1>4, <4>3 DEF ready, Requeued
        <5> QED
          BY <1>4, <1>6, <5>1, NothingBusyAtZero DEF Busy
      <4> QED
        BY <4>1, <4>2, <4>3
    <3> QED
      BY <1>4, <1>6, <3>1 DEF saved, prepared
  <2>2. /\ state' = [ready EXCEPT ![pid] = "RUNNING"]
        /\ context' = saved
        /\ current_quantum' = current_quantum + 1
        /\ current_process' = pid
        /\ alarm' = TRUE
        /\ pc' = ResumePoint(pid, saved[pid])
        /\ in_main' = (saved[pid] = "main")
    BY <1>3, <1>4, <1>6 DEF context_switch, alarm_set, TypeOK
  <2>3. ~ in_main'
    BY <2>1, <2>2
  <2> QED
    BY <1>1, <1>3, <1>6, <2>1, <2>2, <2>3
<1> QED
  BY <1>5, <1>6 DEF TypeOK

LEMMA DispatchPreservesCore ==
  ASSUME TypeOK, TypeOK', WellFormedInput, Core, interrupt_handler
  PROVE  Core'
<1> DEFINE p == current_process'
<1>1. /\ p \in Procs
      /\ ready[p] = "WAITING"
      /\ state' = [ready EXCEPT ![p] = "RUNNING"]
      /\ current_quantum' = current_quantum + 1
      /\ alarm'
      /\ ~ in_main'
      /\ UNCHANGED <<input, spec, executed_work, g_interrupt>>
  BY Dispatch DEF candidates, Waiting, input
<1>2. pc = "sched"
  BY DEF interrupt_handler
<1>3. \A i \in Procs : Arrives(i) => state[i] = "CREATED"
  BY <1>2 DEF Core, ArrivalsOnTime, Arrives, TypeOK, ProcessSpec
<1>4. pc' \in {"work", "tick", "exit"}
  BY Dispatch DEF ResumePoint
<1>5. NoFault'
  BY <1>4 DEF NoFault
<1>6. \A i \in Procs : ready[i] # "RUNNING"
  BY DEF ready, Requeued, Core, RunningIsCurrent, TypeOK
<1>7. RunningIsCurrent'
  BY <1>1, <1>6, ReadyType DEF RunningIsCurrent, Executing
<1>8. ArrivalsOnTime'
  <2> SUFFICES ASSUME NEW i \in Procs
               PROVE  (state'[i] = "CREATED") <=> (spec.creation_quantum[i] >= current_quantum + 1)
    BY <1>1 DEF ArrivalsOnTime
  <2>1. (state[i] = "CREATED") <=> (spec.creation_quantum[i] >= current_quantum)
    BY <1>2 DEF Core, ArrivalsOnTime
  <2>2. spec.creation_quantum[i] \in Nat /\ current_quantum \in Nat
    BY DEF TypeOK, ProcessSpec
  <2>3. ready[i] = "CREATED" <=> (state[i] = "CREATED" /\ ~ Arrives(i))
    BY DEF ready, Requeued
  <2>4. state'[i] = "CREATED" <=> ready[i] = "CREATED"
    BY <1>1, ReadyType
  <2> QED
    BY <2>1, <2>2, <2>3, <2>4 DEF Arrives
<1>9. InterruptPending'
  BY <1>1 DEF InterruptPending
<1>10. \A i \in Procs : i # p /\ ready[i] = "WAITING" =>
          \/ context'[i] = "fresh" /\ Arrives(i)
          \/ context'[i] = context[i] /\ state[i] = "WAITING"
          \/ context'[i] = "work" /\ i = current_process /\ ~ in_main
  <2> SUFFICES ASSUME NEW i \in Procs, i # p, ready[i] = "WAITING", ~ Arrives(i)
               PROVE  \/ context'[i] = context[i] /\ state[i] = "WAITING"
                      \/ context'[i] = "work" /\ i = current_process /\ ~ in_main
    <3>1. ASSUME NEW i \in Procs, i # p, ready[i] = "WAITING", Arrives(i)
          PROVE  context'[i] = "fresh"
      <4>1. prepared[i] = "fresh"
        BY <3>1 DEF prepared
      <4>2. i = current_process => current_quantum = 0
        BY <1>3, <3>1 DEF Core, Placement, TypeOK
      <4> QED
        BY <3>1, <4>1, <4>2, Dispatch, ReadyType DEF saved, prepared
    <3> QED
      BY <3>1
  <2>1. prepared[i] = context[i]
    BY DEF prepared
  <2>2. CASE i # current_process
    BY <2>1, <2>2, Dispatch DEF saved, prepared, ready, Requeued
  <2>3. CASE i = current_process
    <3>1. ~ in_main /\ state[i] = "RUNNING"
      <4>1. current_quantum # 0
        BY <2>3, NothingBusyAtZero, <1>2 DEF ready, Requeued, Busy, Core, ArrivalsOnTime, TypeOK, ProcessSpec
      <4> QED
        BY <2>3, <4>1 DEF Core, Placement, ready, Requeued
    <3>2. current_quantum # 0
      BY <3>1, NothingBusyAtZero DEF Busy
    <3>3. context' = saved
      BY <2>3, Dispatch
    <3> QED
      BY <2>3, <3>1, <3>2, <3>3 DEF saved, prepared
  <2> QED
    BY <2>2, <2>3
<1>11. ResumableContexts'
  <2> SUFFICES ASSUME NEW i \in Procs, state'[i] = "WAITING"
               PROVE  context'[i] \in {"fresh", "work"}
    BY DEF ResumableContexts
  <2>1. i # p /\ ready[i] = "WAITING"
    BY <1>1, ReadyType
  <2> QED
    BY <1>2, <1>10, <2>1 DEF Core, ResumableContexts
<1>12. Placement'
  BY <1>1, <1>4, ReadyType DEF Placement
<1>13. QuantumPerProcess'
  <2>1. Busy \in SUBSET Procs /\ Busy' \in SUBSET Procs
    BY DEF Busy
  <2>2. Busy' \subseteq Busy \cup {p}
    <3> SUFFICES ASSUME NEW i \in Procs, i # p, state'[i] \in {"RUNNING", "TERMINATED"}
                 PROVE  state[i] \in {"RUNNING", "TERMINATED"}
      BY DEF Busy
    <3>1. ready[i] \in {"RUNNING", "TERMINATED"}
      BY <1>1, ReadyType
    <3> QED
      BY <3>1 DEF ready, Requeued
  <2>3. IsFiniteSet(Busy) /\ IsFiniteSet(Busy \cup {p})
    BY <2>1, FiniteProcs, FS_AddElement
  <2>4. Cardinality(Busy \cup {p}) <= Cardinality(Busy) + 1
    BY <2>1, <2>3, FiniteProcs, FS_AddElement
  <2>5. Cardinality(Busy') <= Cardinality(Busy \cup {p})
    BY <2>2, <2>3, FS_Subset
  <2>6. /\ Cardinality(Busy) \in Nat
        /\ Cardinality(Busy') \in Nat
        /\ Cardinality(Busy \cup {p}) \in Nat
    BY <2>1, <2>3, FiniteProcs, FS_CardinalityType
  <2> QED
    BY <1>1, <2>4, <2>5, <2>6 DEF Core, QuantumPerProcess, TypeOK
<1>14. WorkLeft'
  <2>0. /\ executed_work \in [Procs -> Nat]
        /\ spec.workload \in [Procs -> Nat]
    BY DEF TypeOK, ProcessSpec
  <2>1. WorkDone'
    <3>1. \A i \in Procs : state'[i] = "TERMINATED" => state[i] = "TERMINATED"
      BY <1>1, ReadyType DEF ready, Requeued
    <3> QED
      BY <1>1, <3>1 DEF WorkDone, Core, WorkLeft
  <2>2. ASSUME NEW i \in Procs, state'[i] = "WAITING", context'[i] = "work"
        PROVE  executed_work[i] < spec.workload[i]
    <3>1. i # p /\ ready[i] = "WAITING"
      BY <1>1, <2>2, ReadyType
    <3> QED
      BY <1>2, <1>10, <2>2, <3>1 DEF Core, WorkLeft
  <2>3. /\ pc' \in {"work", "tick"} => executed_work[p] < spec.workload[p]
        /\ pc' = "exit" => executed_work[p] = spec.workload[p]
    <3>1. CASE p = current_process /\ ~ in_main /\ pc' = "tick"
      BY <1>2, <3>1 DEF Core, WorkLeft
    <3>2. CASE saved[p] = "fresh" /\ pc' = ResumePoint(p, saved[p])
      BY <1>1, <2>0, <3>2 DEF ResumePoint, Core, WorkLeft, WorkDone
    <3>3. CASE /\ saved[p] = "work"
               /\ p # current_process \/ current_quantum = 0
               /\ pc' = ResumePoint(p, saved[p])
      <4>1. pc' = "tick"
        BY <3>3 DEF ResumePoint
      <4>2. state[p] = "WAITING" /\ context[p] = "work"
        <5>1. prepared[p] = "work"
          BY <1>1, <3>3 DEF saved, prepared
        <5>2. ~ Arrives(p) /\ context[p] = "work"
          BY <1>1, <5>1 DEF prepared
        <5>3. state[p] # "RUNNING"
          BY <1>1, <3>3, NothingBusyAtZero DEF Core, RunningIsCurrent, Busy
        <5> QED
          BY <1>1, <5>2, <5>3 DEF ready, Requeued
      <4> QED
        BY <1>1, <4>1, <4>2 DEF Core, WorkLeft
    <3> QED
      BY <3>1, <3>2, <3>3, Dispatch
  <2> QED
    BY <1>1, <1>4, <2>1, <2>2, <2>3 DEF WorkLeft
<1> QED
  BY <1>5, <1>7, <1>8, <1>9, <1>11, <1>12, <1>13, <1>14 DEF Core

LEMMA InitCore ==
  ASSUME Init
  PROVE  Core
<1>1. 0 \in Procs
  BY NumProcessesAssumption DEF Procs
<1>2. spec \in ProcessSpec
  BY SpecsAssumption DEF Init
<1>3. QuantumPerProcess
  <2>1. Busy = {}
    BY DEF Busy, Init
  <2> QED
    BY <2>1, FS_EmptySet DEF QuantumPerProcess, Init
<1> QED
  BY <1>1, <1>2, <1>3
     DEF Init, Core, NoFault, RunningIsCurrent, Executing, ArrivalsOnTime,
         InterruptPending, ResumableContexts, Placement, WorkLeft, WorkDone, ProcessSpec

(* The steps of main and of process() leave every PCB but the current one  *)
(* alone.                                                                  *)
LEMMA StepPreservesCore ==
  ASSUME TypeOK, TypeOK', WellFormedInput, Core, [Next]_vars
  PROVE  Core'
<1> USE DEF Core, NoFault, RunningIsCurrent, Executing, ArrivalsOnTime,
            InterruptPending, ResumableContexts, Placement, QuantumPerProcess,
            Busy, WorkLeft, WorkDone, input
<1>1. CASE enter_handler
  BY <1>1 DEF enter_handler
<1>2. CASE interrupt_handler
  BY <1>2, DispatchPreservesCore
<1>3. CASE process_work
  BY <1>3 DEF process_work, TypeOK
<1>4. CASE process_tick
  <2>1. /\ executed_work \in [Procs -> Nat] /\ spec.workload \in [Procs -> Nat]
        /\ current_process \in Procs
    BY DEF TypeOK, ProcessSpec
  <2> QED
    BY <1>4, <2>1 DEF process_tick
<1>5. CASE process_exit
  <2>1. Busy' = Busy
    BY <1>5 DEF process_exit, TypeOK
  <2>2. /\ state' = [state EXCEPT ![current_process] = "TERMINATED"]
        /\ context' = [context EXCEPT ![current_process] = Returned(@)]
        /\ pc = "exit" /\ pc' = "check" /\ in_main'
        /\ current_process \in Procs
        /\ state[current_process] = "RUNNING"
        /\ state \in [Procs -> States] /\ context \in [Procs -> Contexts]
        /\ UNCHANGED <<spec, executed_work, current_quantum, current_process>>
    BY <1>5 DEF process_exit, TypeOK
  <2>3. NoFault' /\ RunningIsCurrent' /\ InterruptPending' /\ Placement'
    BY <2>2
  <2>4. ArrivalsOnTime'
    BY <2>2
  <2>5. ResumableContexts'
    BY <2>2
  <2>6. QuantumPerProcess'
    BY <2>1, <2>2
  <2>7. WorkLeft'
    BY <2>2
  <2> QED
    BY <2>3, <2>4, <2>5, <2>6, <2>7
<1>6. CASE main_check
  BY <1>6 DEF main_check
<1>7. CASE signal_handler
  BY <1>7 DEF signal_handler
<1>8. CASE UNCHANGED vars
  BY <1>8 DEF vars
<1> QED
  BY <1>1, <1>2, <1>3, <1>4, <1>5, <1>6, <1>7, <1>8 DEF Next, Program, finished

LEMMA InputFixed ==
  ASSUME [Next]_vars
  PROVE  WellFormedInput' <=> WellFormedInput
<1>1. UNCHANGED <<g_scheduling_algo, spec>>
  BY DEF Next, Program, vars, input, enter_handler, interrupt_handler, process_work,
         process_tick, process_exit, main_check, finished, signal_handler
<1> QED
  BY <1>1 DEF WellFormedInput, Dense, Prioritised

(* The inductive invariant holds in every execution. *)
THEOREM CoreInvariant == Spec => []IInv
<1>1. Init => IInv
  BY InitTypeOK, InitCore DEF IInv
<1>2. IInv /\ [Next]_vars => IInv'
  <2> SUFFICES ASSUME IInv, [Next]_vars PROVE IInv'
    OBVIOUS
  <2>1. TypeOK /\ TypeOK'
    BY NextTypeOK DEF IInv
  <2>2. ASSUME WellFormedInput' PROVE Core'
    BY <2>1, <2>2, InputFixed, StepPreservesCore DEF IInv
  <2> QED
    BY <2>1, <2>2 DEF IInv
<1> QED
  BY <1>1, <1>2, PTL DEF Spec

(* On a file in which every process finds enough predecessors the          *)
(* scheduler always has a process to run: no assertion fails, no context   *)
(* that cannot be resumed is entered, insanity never searches in vain.     *)
THEOREM NeverFaults == Spec => [](WellFormedInput => NoFault)
<1>1. IInv => (WellFormedInput => NoFault)
  BY DEF IInv, Core
<1> QED
  BY <1>1, CoreInvariant, PTL

(* The PCB marked RUNNING is the process on the CPU. *)
THEOREM RunningIsCurrentHolds == Spec => [](WellFormedInput => RunningIsCurrent)
<1>1. IInv => (WellFormedInput => RunningIsCurrent)
  BY DEF IInv, Core
<1> QED
  BY <1>1, CoreInvariant, PTL

(* Every process arrives exactly in its creation quantum. *)
THEOREM ArrivalsOnTimeHolds == Spec => [](WellFormedInput => ArrivalsOnTime)
<1>1. IInv => (WellFormedInput => ArrivalsOnTime)
  BY DEF IInv, Core
<1> QED
  BY <1>1, CoreInvariant, PTL

(* A computing process always has an interrupt to come. *)
THEOREM InterruptPendingHolds == Spec => [](WellFormedInput => InterruptPending)
<1>1. IInv => (WellFormedInput => InterruptPending)
  BY DEF IInv, Core
<1> QED
  BY <1>1, CoreInvariant, PTL

(* A process that waits resumes inside process(), never in main's loop and *)
(* never on a stack that is gone.                                          *)
THEOREM ResumableContextsHolds == Spec => [](WellFormedInput => ResumableContexts)
<1>1. IInv => (WellFormedInput => ResumableContexts)
  BY DEF IInv, Core
<1> QED
  BY <1>1, CoreInvariant, PTL

(* A terminated process has done exactly its work. *)
THEOREM WorkDoneHolds == Spec => [](WellFormedInput => WorkDone)
<1>1. IInv => (WellFormedInput => WorkDone)
  BY DEF IInv, Core, WorkLeft
<1> QED
  BY <1>1, CoreInvariant, PTL

(* No step revives a terminated process: an arrival finds its process      *)
(* still CREATED and a dispatch finds its process WAITING.                 *)
THEOREM NoResurrectionHolds == Spec /\ WellFormedInput => NoResurrection
<1> DEFINE Kept == \A i \in Procs : state[i] = "TERMINATED" => state'[i] = "TERMINATED"
<1>1. WellFormedInput /\ [Next]_vars => WellFormedInput'
  BY InputFixed
<1>2. IInv /\ WellFormedInput /\ [Next]_vars => [Kept]_vars
  <2> SUFFICES ASSUME TypeOK, Core, WellFormedInput, Next PROVE Kept
    BY DEF IInv
  <2>1. CASE interrupt_handler
    <3>1. \A i \in Procs : Arrives(i) => state[i] = "CREATED"
      BY <2>1 DEF interrupt_handler, Core, ArrivalsOnTime, Arrives, TypeOK, ProcessSpec
    <3>2. \A i \in Procs : state[i] = "TERMINATED" => ready[i] = "TERMINATED"
      BY <3>1 DEF ready, Requeued
    <3>3. ready[current_process'] = "WAITING"
      BY <2>1, Dispatch DEF candidates, Waiting
    <3> QED
      BY <2>1, <3>2, <3>3, Dispatch, ReadyType
  <2>2. CASE process_exit
    BY <2>2 DEF process_exit, TypeOK
  <2> QED
    BY <2>1, <2>2
       DEF Next, Program, vars, input, enter_handler, process_work, process_tick,
           main_check, finished, signal_handler
<1> QED
  BY <1>1, <1>2, CoreInvariant, PTL DEF Spec, NoResurrection

-----------------------------------------------------------------------------
(***************************************************************************)
(* What the algorithms choose.                                             *)
(***************************************************************************)

(* The process dispatched is one the algorithm chose. *)
LEMMA DispatchChoice ==
  ASSUME TypeOK, WellFormedInput, Core, interrupt_handler
  PROVE  current_process' \in Choices
<1>1. candidates # {} /\ Choices # {} /\ Choices \subseteq candidates
  BY NeverIdle, ChoiceIsCandidate DEF interrupt_handler
<1>2. PICK pid \in Choices : context_switch(pid)
  BY <1>1 DEF interrupt_handler
<1>3. pid \in Procs
  BY <1>1, <1>2 DEF candidates, Waiting
<1> QED
  BY <1>2, <1>3 DEF context_switch

(* The other steps dispatch nothing: the current process may end, the rest *)
(* keep their states.                                                      *)
LEMMA OtherSteps ==
  ASSUME TypeOK, Core, [Next]_vars, ~ interrupt_handler
  PROVE  /\ UNCHANGED <<current_process, current_quantum, g_scheduling_algo, spec>>
         /\ \A i \in Procs :
              \/ state'[i] = state[i]
              \/ i = current_process /\ state[i] = "RUNNING" /\ state'[i] = "TERMINATED"
<1> USE DEF TypeOK, input
<1>1. CASE process_exit
  BY <1>1 DEF process_exit, Core, RunningIsCurrent, Executing
<1>2. CASE ~ process_exit
  BY <1>2 DEF Next, Program, vars, enter_handler, process_work, process_tick, main_check,
              finished, signal_handler
<1> QED
  BY <1>1, <1>2

(* What a dispatch does to the states: the processes that arrive and the   *)
(* interrupted one wait, and one of those that wait runs.                  *)
LEMMA DispatchStates ==
  ASSUME TypeOK, WellFormedInput, Core, interrupt_handler
  PROVE  /\ current_process' \in candidates
         /\ UNCHANGED <<g_scheduling_algo, spec, executed_work>>
         /\ \A i \in Procs : Arrives(i) => state[i] = "CREATED"
         /\ \A i \in Procs : ready[i] # "RUNNING"
         /\ \A i \in Procs : ready[i] = "TERMINATED" <=> state[i] = "TERMINATED"
         /\ \A i \in Procs : i # current_process' => state'[i] = ready[i]
         /\ state'[current_process'] = "RUNNING"
<1>1. pc = "sched"
  BY DEF interrupt_handler
<1>2. \A i \in Procs : Arrives(i) => state[i] = "CREATED"
  BY <1>1 DEF Core, ArrivalsOnTime, Arrives, TypeOK, ProcessSpec
<1>3. \A i \in Procs : ready[i] # "RUNNING"
  BY DEF ready, Requeued, Core, RunningIsCurrent, TypeOK
<1>4. \A i \in Procs : ready[i] = "TERMINATED" <=> state[i] = "TERMINATED"
  BY <1>2 DEF ready, Requeued
<1> QED
  BY <1>2, <1>3, <1>4, Dispatch, ReadyType DEF input, candidates, Waiting

(* fifo: a process that has run at all, or ended, came after none that has *)
(* not ended.                                                              *)
LEMMA StepPreservesArrivalOrder ==
  ASSUME TypeOK, TypeOK', WellFormedInput, Core, ArrivalOrder, [Next]_vars
  PROVE  ArrivalOrder'
<1> DEFINE Before(i, j) == \/ spec.creation_quantum[i] < spec.creation_quantum[j]
                           \/ spec.creation_quantum[i] = spec.creation_quantum[j] /\ i < j
<1>1. CASE interrupt_handler
  <2> SUFFICES ASSUME g_scheduling_algo = "fifo", NEW i \in Procs, NEW j \in Procs, Before(i, j),
                      state'[j] \in {"RUNNING", "TERMINATED"} \/ executed_work[j] > 0
               PROVE  state'[i] = "TERMINATED"
    BY <1>1, DispatchStates DEF ArrivalOrder
  <2> DEFINE p == current_process'
  <2>1. p \in candidates /\ p \in Procs /\ ready[p] = "WAITING"
    BY <1>1, DispatchStates DEF candidates, Waiting
  <2>2. /\ spec.creation_quantum \in [Procs -> Int]
        /\ spec.creation_quantum \in [Procs -> Nat]
        /\ current_quantum \in Nat
        /\ Procs \subseteq Int
    BY DEF TypeOK, ProcessSpec, Procs
  <2>3. CASE j = p
    <3>1. p \in fifo
      BY <1>1, DispatchChoice DEF Choices
    <3>2. p = First(candidates, spec.creation_quantum)
      BY <1>1, <2>1, <3>1, DispatchStates DEF fifo, TypeOK
    <3>3. \A k \in candidates : Preferred(p, k, spec.creation_quantum)
      BY <2>1, <2>2, <3>2, FirstInSet DEF candidates, Waiting
    <3>4. i \notin candidates
      BY <2>2, <2>3, <3>3 DEF Preferred
    <3>5. spec.creation_quantum[p] <= current_quantum
      BY <1>1, <2>1, <2>2 DEF Core, ArrivalsOnTime, interrupt_handler, ready, Requeued, Arrives
    <3>6. spec.creation_quantum[i] <= current_quantum
      BY <2>2, <2>3, <3>5
    <3>7. ready[i] # "CREATED"
      BY <1>1, <2>2, <3>6 DEF Core, ArrivalsOnTime, interrupt_handler, ready, Requeued, Arrives
    <3>8. ready[i] = "TERMINATED"
      BY <1>1, <3>4, <3>7, DispatchStates, ReadyType DEF candidates, Waiting, States
    <3> QED
      BY <1>1, <2>1, <3>8, DispatchStates
  <2>4. CASE j # p
    <3>1. state[j] = "TERMINATED" \/ executed_work[j] > 0
      BY <1>1, <2>4, DispatchStates
    <3>2. state[i] = "TERMINATED"
      BY <3>1 DEF ArrivalOrder
    <3> QED
      BY <1>1, <2>1, <3>2, DispatchStates
  <2> QED
    BY <2>3, <2>4
<1>2. CASE ~ interrupt_handler
  <2>1. \A j \in Procs : executed_work'[j] > 0 =>
          executed_work[j] > 0 \/ state[j] = "RUNNING"
    <3>1. CASE process_tick
      BY <1>2, <3>1 DEF process_tick, TypeOK, Core, RunningIsCurrent, Executing
    <3>2. CASE ~ process_tick
      BY <1>2, <3>2 DEF Next, Program, vars, input, enter_handler, process_work, process_exit,
                        main_check, finished, signal_handler
    <3> QED
      BY <3>1, <3>2
  <2>2. \A j \in Procs : state'[j] \in {"RUNNING", "TERMINATED"} =>
          state[j] \in {"RUNNING", "TERMINATED"}
    BY <1>2, OtherSteps
  <2>3. \A i \in Procs : state[i] = "TERMINATED" => state'[i] = "TERMINATED"
    BY <1>2, OtherSteps
  <2> QED
    BY <1>2, <2>1, <2>2, <2>3, OtherSteps DEF ArrivalOrder
<1> QED
  BY <1>1, <1>2

(* fifo runs the processes to completion in the order of their arrival,    *)
(* for every number of processes and every timing of the alarms            *)
(* (scheduler.c:211-230).                                                  *)
THEOREM ArrivalOrderHolds == Spec => [](WellFormedInput => ArrivalOrder)
<1>1. Init => (WellFormedInput => ArrivalOrder)
  BY DEF Init, ArrivalOrder
<1>2. IInv /\ IInv' /\ (WellFormedInput => ArrivalOrder) /\ [Next]_vars
        => (WellFormedInput => ArrivalOrder)'
  BY InputFixed, StepPreservesArrivalOrder DEF IInv
<1> QED
  BY <1>1, <1>2, CoreInvariant, PTL DEF Spec

(* The three searches of the shortest-job algorithms, when no process was  *)
(* interrupted: psjf and sctf then have nobody to prefer.                  *)
LEMMA ShortestIsChosen ==
  ASSUME TypeOK, WellFormedInput, Core, interrupt_handler,
         state[current_process] # "RUNNING"
  PROVE  /\ g_scheduling_algo \in {"sjf", "psjf"} =>
              current_process' = First(candidates, spec.workload)
         /\ g_scheduling_algo = "sctf" =>
              current_process' = First(candidates, Remaining)
<1>1. pc = "sched" /\ current_process \in Procs
  BY DEF interrupt_handler, TypeOK
<1>2. current_process' \in Choices /\ candidates # {}
  BY <1>1, DispatchChoice, NeverIdle
<1>3. in_main
  BY DEF Core, Placement, TypeOK
<1>4. ~ (current_quantum > 0 /\ ready[current_process] = "WAITING")
  <2> SUFFICES ASSUME current_quantum > 0 PROVE ready[current_process] # "WAITING"
    OBVIOUS
  <2>1. state[current_process] = "TERMINATED"
    BY <1>3 DEF Core, Placement
  <2> QED
    BY <1>1, <2>1, DispatchStates
<1> QED
  BY <1>2, <1>4 DEF Choices, sjf, psjf, sctf

(* Whoever is dispatched is the best of all that could have been, for any  *)
(* number of processes, workloads and priorities (scheduler.c:236-301,     *)
(* 331-344).                                                               *)
THEOREM NextIsBestHolds == Spec /\ WellFormedInput => NextIsBest
<1> DEFINE Better(i, key) == \/ key[i] < key[current_process']
                             \/ key[i] = key[current_process'] /\ i < current_process'
<1>1. WellFormedInput /\ [Next]_vars => WellFormedInput'
  BY InputFixed
<1>2. IInv /\ WellFormedInput /\ [Next]_vars => [BestDispatch]_vars
  <2> SUFFICES ASSUME TypeOK, Core, WellFormedInput, [Next]_vars,
                      current_quantum' # current_quantum,
                      NEW i \in Procs, state'[i] = "WAITING"
               PROVE  /\ g_scheduling_algo \in {"sjf", "psjf"} /\ state[current_process] # "RUNNING"
                           => ~ Better(i, spec.workload)
                      /\ g_scheduling_algo = "sctf" /\ state[current_process] # "RUNNING"
                           => ~ Better(i, Remaining)
                      /\ g_scheduling_algo = "priority"
                           => spec.priority[i] <= spec.priority[current_process']
    BY DEF IInv, BestDispatch
  <2>1. interrupt_handler
    BY OtherSteps
  <2>2. i \in candidates /\ current_process' \in candidates /\ candidates \in SUBSET Procs
    BY <2>1, DispatchStates DEF candidates, Waiting
  <2>3. /\ spec.workload \in [Procs -> Int]
        /\ spec.priority \in [Procs -> Int]
        /\ Remaining \in [Procs -> Int]
        /\ Urgency \in [Procs -> Int]
        /\ Procs \subseteq Int
    <3>1. Procs \subseteq Int
      BY DEF Procs
    <3>2. spec.workload \in [Procs -> Nat] /\ spec.priority \in [Procs -> Nat]
      BY DEF TypeOK, ProcessSpec
    <3>3. executed_work \in [Procs -> Nat]
      BY DEF TypeOK
    <3> QED
      BY <3>1, <3>2, <3>3 DEF Urgency, Remaining
  <2>4. ASSUME NEW key \in [Procs -> Int], current_process' = First(candidates, key)
        PROVE  ~ Better(i, key) /\ key[current_process'] <= key[i]
    <3>1. Preferred(current_process', i, key)
      BY <2>2, <2>4, FirstInSet
    <3> QED
      BY <2>2, <2>3, <3>1 DEF Preferred
  <2>5. ASSUME g_scheduling_algo \in {"sjf", "psjf"}, state[current_process] # "RUNNING"
        PROVE  ~ Better(i, spec.workload)
    <3>1. current_process' = First(candidates, spec.workload)
      BY <2>1, <2>5, ShortestIsChosen
    <3> QED
      BY <2>3, <2>4, <3>1
  <2>6. ASSUME g_scheduling_algo = "sctf", state[current_process] # "RUNNING"
        PROVE  ~ Better(i, Remaining)
    <3>1. current_process' = First(candidates, Remaining)
      BY <2>1, <2>6, ShortestIsChosen
    <3> QED
      BY <2>3, <2>4, <3>1
  <2>7. ASSUME g_scheduling_algo = "priority"
        PROVE  spec.priority[i] <= spec.priority[current_process']
    <3>1. {k \in candidates : spec.priority[k] > 0} = candidates
      BY <2>2, <2>7 DEF WellFormedInput, Prioritised
    <3>2. current_process' = First(candidates, Urgency)
      BY <2>1, <2>2, <2>7, <3>1, DispatchChoice DEF Choices, priority
    <3>3. Urgency[current_process'] <= Urgency[i]
      BY <2>3, <2>4, <3>2
    <3> QED
      BY <2>2, <2>3, <3>3 DEF Urgency
  <2> QED
    BY <2>5, <2>6, <2>7
<1> QED
  BY <1>1, <1>2, CoreInvariant, PTL DEF Spec, NextIsBest

-----------------------------------------------------------------------------
(***************************************************************************)
(* Turns.                                                                  *)
(***************************************************************************)

(* Differences of list positions, taken modulo the number of processes. *)
LEMMA ModuloOfDifference ==
  ASSUME NEW N \in Nat \ {0}, NEW d \in Int, -N < d, d < N
  PROVE  d % N = IF d >= 0 THEN d ELSE d + N
OBVIOUS

(* Under rr every dispatch brings each process that keeps waiting strictly *)
(* closer to its turn, for any number of processes (scheduler.c:306-325).  *)
THEOREM RoundRobinProgressHolds == Spec /\ WellFormedInput => RoundRobinProgress
<1> DEFINE Closer == g_scheduling_algo = "rr" /\ current_quantum' # current_quantum =>
             \A i \in Procs :
               state[i] = "WAITING" /\ state'[i] = "WAITING" =>
                 (i - current_process') % NumProcesses < (i - current_process) % NumProcesses
<1>1. WellFormedInput /\ [Next]_vars => WellFormedInput'
  BY InputFixed
<1>2. IInv /\ WellFormedInput /\ [Next]_vars => [Closer]_vars
  <2> SUFFICES ASSUME TypeOK, Core, WellFormedInput, [Next]_vars, g_scheduling_algo = "rr",
                      current_quantum' # current_quantum,
                      NEW i \in Procs, state[i] = "WAITING", state'[i] = "WAITING"
               PROVE  (i - current_process') % NumProcesses < (i - current_process) % NumProcesses
    BY DEF IInv
  <2> DEFINE c == current_process
             p == current_process'
             after == {k \in candidates : c < k}
             N == NumProcesses
  <2>1. interrupt_handler
    BY OtherSteps
  <2>2. c \in Procs /\ p \in candidates /\ candidates \in SUBSET Procs /\ i # p
    BY <2>1, DispatchStates DEF TypeOK, candidates, Waiting
  <2>3. i \in candidates
    BY <2>1, <2>2, DispatchStates DEF candidates, Waiting
  <2>4. i # c
    BY <2>1, <2>2 DEF Core, Placement, ArrivalsOnTime, interrupt_handler, TypeOK, ProcessSpec
  <2>5. p \in rr
    BY <2>1, DispatchChoice DEF Choices
  <2>6. after \in SUBSET Procs
    BY <2>2
  <2>7. N \in Nat \ {0} /\ \A k \in Procs : k \in Int /\ 0 <= k /\ k < N
    BY NumProcessesAssumption DEF Procs
  <2>8. /\ (i - p) % N = IF i - p >= 0 THEN i - p ELSE i - p + N
        /\ (i - c) % N = IF i - c >= 0 THEN i - c ELSE i - c + N
    <3>1. /\ i - p \in Int /\ -N < i - p /\ i - p < N
          /\ i - c \in Int /\ -N < i - c /\ i - c < N
      BY <2>2, <2>7
    <3> HIDE DEF N, p, c
    <3> QED
      BY <2>7, <3>1, ModuloOfDifference
  <2>9. CASE after # {}
    <3>1. p = Lowest(after)
      BY <2>5, <2>9 DEF rr
    <3>2. c < p /\ (c < i => p <= i)
      BY <2>3, <2>6, <2>9, <3>1, LowestInSet
    <3> HIDE DEF after
    <3> QED
      BY <2>2, <2>4, <2>7, <2>8, <3>2
  <2>10. CASE after = {}
    <3>1. p = Lowest(candidates)
      BY <2>2, <2>5, <2>10 DEF rr, basic
    <3>2. p <= i /\ ~ (c < i)
      BY <2>2, <2>3, <2>10, <3>1, LowestInSet
    <3> HIDE DEF after
    <3> QED
      BY <2>2, <2>4, <2>7, <2>8, <3>2
  <2> QED
    BY <2>9, <2>10
<1> QED
  BY <1>1, <1>2, CoreInvariant, PTL DEF Spec, RoundRobinProgress

-----------------------------------------------------------------------------
(***************************************************************************)
(* Files without a process for quantum 0.                                  *)
(***************************************************************************)

Late == \A i \in Procs : spec.creation_quantum[i] > 0

(* Until a fault nothing has happened at all, and a fault is the end. *)
Stalled ==
  /\ pc \in {"clear", "sched", "check", "spin", "fault"}
  /\ executed_work = [i \in Procs |-> 0]
  /\ \A i \in Procs : state[i] # "WAITING"
  /\ pc # "fault" => /\ current_quantum = 0
                     /\ in_main
                     /\ state = [i \in Procs |-> "CREATED"]
                     /\ context = [i \in Procs |-> "none"]

LEMMA StepPreservesStalled ==
  ASSUME TypeOK, Late, Stalled, [Next]_vars
  PROVE  Late' /\ Stalled'
<1> USE DEF Stalled, input
<1>1. CASE interrupt_handler
  <2>1. pc = "sched" /\ UNCHANGED <<g_scheduling_algo, spec, executed_work>>
    BY <1>1 DEF interrupt_handler
  <2>2. \A i \in Procs : ~ Arrives(i)
    BY <2>1 DEF Late, Arrives
  <2>3. ready = [i \in Procs |-> "CREATED"] /\ prepared = [i \in Procs |-> "none"]
    BY <2>1, <2>2 DEF ready, prepared, Requeued
  <2>4. CASE \E pid \in Choices : context_switch(pid)
    <3>1. PICK pid \in Choices : context_switch(pid)
      BY <2>4
    <3>2. pc' = "fault"
      <4>1. saved = prepared /\ current_quantum = 0
        BY <2>1 DEF saved
      <4>2. pid \in Procs => ResumePoint(pid, saved[pid]) = "fault"
        BY <2>3, <4>1 DEF ResumePoint
      <4> QED
        <5> USE DEF context_switch
        <5>1. CASE pid \notin Procs
          BY <3>1, <5>1
        <5>2. CASE pid \in Procs
          BY <3>1, <4>1, <4>2, <5>2
        <5> QED
          BY <5>1, <5>2
    <3>3. \A i \in Procs : state'[i] # "WAITING"
      BY <2>1, <2>3, <3>1 DEF context_switch
    <3> QED
      BY <2>1, <3>2, <3>3 DEF Late
  <2>5. CASE ~ \E pid \in Choices : context_switch(pid)
    BY <1>1, <2>1, <2>3, <2>5 DEF interrupt_handler, ReturnPoint, Late
  <2> QED
    BY <2>4, <2>5
<1>2. CASE main_check
  <2>1. 0 \in Procs
    BY NumProcessesAssumption DEF Procs
  <2> QED
    BY <1>2, <2>1 DEF main_check, Late
<1>3. CASE ~ interrupt_handler /\ ~ main_check
  BY <1>3 DEF Late, Next, Program, vars, enter_handler, process_work, process_tick, process_exit,
              finished, signal_handler
<1> QED
  BY <1>1, <1>2, <1>3

(* A file that names no process for quantum 0 never makes progress, for    *)
(* any number of processes and every algorithm: only context_switch        *)
(* advances the quantum, and it needs a process (scheduler.c:62, 77).      *)
THEOREM LateStartStallsHolds == Spec => []LateStartStalls
<1>1. Init => (Late => Stalled)
  BY DEF Init, Stalled
<1>2. TypeOK /\ (Late => Stalled) /\ [Next]_vars => (Late => Stalled)'
  <2>1. [Next]_vars => (Late' <=> Late)
    BY DEF Late, Next, Program, vars, input, enter_handler, interrupt_handler, process_work,
           process_tick, process_exit, main_check, finished, signal_handler
  <2> QED
    BY <2>1, StepPreservesStalled
<1>3. (Late => Stalled) => LateStartStalls
  BY DEF Late, Stalled, LateStartStalls
<1> QED
  BY <1>1, <1>2, <1>3, TypeCorrect, PTL DEF Spec
=============================================================================
