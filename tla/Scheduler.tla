------------------------------ MODULE Scheduler ------------------------------
(***************************************************************************)
(* The user-level CPU scheduler of LabWork/Lab7/scheduler.c.               *)
(*                                                                         *)
(* One operating-system process multiplexes NumProcesses simulated         *)
(* processes with swapcontext().  Control is in main()'s loop or inside    *)
(* one simulated process.  SIGALRM, which alarm(1) arms, sets g_interrupt; *)
(* a running process polls the flag after every slice of work and then     *)
(* calls interrupt_handler(), which admits the processes that arrive in    *)
(* this quantum, lets the selected algorithm choose, and switches.         *)
(*                                                                         *)
(* pc names the next piece of code control reaches:                        *)
(*   "clear"  main's call of interrupt_handler (clears g_interrupt)        *)
(*   "sched"  the rest of interrupt_handler: arrivals, algorithm, switch   *)
(*   "check"  main's test that every process has terminated                *)
(*   "work"   process(): one slice of work, then the poll of g_interrupt   *)
(*   "tick"   process(): end of an iteration, executed_work advances       *)
(*   "exit"   process() has done its work and returns to main              *)
(*   "done"   main() has left its loop                                     *)
(*   "spin"   insanity() draws random numbers and no process is waiting    *)
(*   "fault"  an assertion failed, or swapcontext() entered a context that *)
(*            was never made or whose function has returned (undefined)    *)
(***************************************************************************)
EXTENDS Integers, FiniteSets

CONSTANTS
  NumProcesses,  \* g_sstate.num_processes after read_spec
  Specs,         \* the process specification files considered
  Algorithms,    \* the values of argv[1] considered
  Slices         \* polls of g_interrupt per unit of work (20 in the code)

Procs == 0 .. NumProcesses - 1

AllAlgorithms ==
  {"basic", "fifo", "sjf", "psjf", "sctf", "rr", "priority", "insanity"}

(* What a process specification file says of each process. *)
ProcessSpec == [creation_quantum : [Procs -> Nat],
                workload         : [Procs -> Nat],
                priority         : [Procs -> Nat]]

ASSUME NumProcessesAssumption == NumProcesses \in Nat \ {0}
ASSUME SpecsAssumption        == Specs \subseteq ProcessSpec
ASSUME AlgorithmsAssumption   == Algorithms \subseteq AllAlgorithms
ASSUME SlicesAssumption       == Slices \in Nat \ {0}

VARIABLES
  g_scheduling_algo,  \* the algorithm main() selected
  spec,               \* the process specification that was loaded
  state,              \* pcbs[i].state
  executed_work,      \* pcbs[i].executed_work
  slice,              \* process()'s loop index i, on each process's stack
  context,            \* what pcbs[i].context would resume
  current_quantum,
  current_process,
  g_interrupt,        \* set by signal_handler, polled by process()
  alarm,              \* whether a SIGALRM is still to come
  pc,
  in_main             \* whether the code pc names runs on main()'s stack

vars == <<g_scheduling_algo, spec, state, executed_work, slice, context,
          current_quantum, current_process, g_interrupt, alarm, pc, in_main>>

(* Variables fixed once main() has parsed its arguments. *)
input == <<g_scheduling_algo, spec>>

States   == {"CREATED", "WAITING", "RUNNING", "TERMINATED"}
Contexts == {"none", "fresh", "work", "main", "dead"}
Points   == {"clear", "sched", "check", "work", "tick", "exit",
             "done", "spin", "fault"}

(* Control is inside a simulated process. *)
Executing == pc \in {"work", "tick", "exit"}

TypeOK ==
  /\ g_scheduling_algo \in AllAlgorithms
  /\ spec \in ProcessSpec
  /\ state \in [Procs -> States]
  /\ executed_work \in [Procs -> Nat]
  /\ slice \in [Procs -> 0 .. Slices - 1]
  /\ context \in [Procs -> Contexts]
  /\ current_quantum \in Nat
  /\ current_process \in Procs
  /\ g_interrupt \in BOOLEAN
  /\ alarm \in BOOLEAN
  /\ pc \in Points
  /\ in_main \in BOOLEAN

-----------------------------------------------------------------------------
(***************************************************************************)
(* What interrupt_handler() does before it asks the algorithm.             *)
(***************************************************************************)

(* Mutant of Arrives: a process is admitted one quantum early. *)
Arrives_early(i) == state[i] = "CREATED" /\ spec.creation_quantum[i] <= current_quantum + 1

(* Mutant of Arrives: "<=" admits a process again in every later quantum. *)
Arrives_again(i) == spec.creation_quantum[i] <= current_quantum

(* handle_arrivals(): process i is created in this quantum. *)
Arrives(i) == spec.creation_quantum[i] = current_quantum

(* Mutant of Requeued: the interrupted process stays RUNNING. *)
Requeued_not(i) == state[i]

(* The interrupted process goes back to waiting. *)
Requeued(i) == IF i = current_process /\ state[i] = "RUNNING" THEN "WAITING" ELSE state[i]

(* Mutant of prepared: makecontext() is not called. *)
prepared_not == context

(* handle_arrivals(): the PCB states, and the contexts after getcontext()  *)
(* and makecontext() for the arriving processes.                           *)
ready    == [i \in Procs |-> IF Arrives(i) THEN "WAITING" ELSE Requeued(i)]
prepared == [i \in Procs |-> IF Arrives(i) THEN "fresh" ELSE context[i]]

-----------------------------------------------------------------------------
(***************************************************************************)
(* The scheduling algorithms.  Each is the set of process ids it may hand  *)
(* to context_switch; the empty set means that it returns without a switch *)
(* (or, for insanity, does not return).                                    *)
(***************************************************************************)

Waiting(s) == {i \in Procs : s[i] = "WAITING"}

candidates == Waiting(ready)

(* Mutant of First: "<=" would keep the last of equal candidates. *)
First_last_tie(S, key) ==
  CHOOSE i \in S : \A j \in S : key[i] < key[j] \/ (key[i] = key[j] /\ i >= j)

(* The search loops keep the first process of those whose key is least:    *)
(* they walk the PCBs in index order and replace only on a strict "<".     *)
First(S, key) ==
  CHOOSE i \in S : \A j \in S : key[i] < key[j] \/ (key[i] = key[j] /\ i <= j)

Lowest(S) == CHOOSE i \in S : \A j \in S : i <= j

Remaining == [i \in Procs |-> spec.workload[i] - executed_work[i]]
Urgency   == [i \in Procs |-> -spec.priority[i]]

basic == IF candidates = {} THEN {} ELSE {Lowest(candidates)}

(* Mutant of fifo: index order instead of arrival order. *)
fifo_index_order == basic

(* An unset "int pid" reaches context_switch when nothing waits: it is any *)
(* integer, of which -1 stands for every one the assertions reject.        *)
fifo ==
  IF current_quantum > 0 /\ ready[current_process] = "RUNNING"
    THEN {current_process}
    ELSE IF candidates = {} THEN Procs \cup {-1}
                            ELSE {First(candidates, spec.creation_quantum)}

sjf == IF candidates = {} THEN {0} ELSE {First(candidates, spec.workload)}

psjf ==
  IF current_quantum > 0 /\ ready[current_process] = "WAITING"
    THEN {current_process}
    ELSE sjf

sctf ==
  IF current_quantum > 0 /\ ready[current_process] = "WAITING"
    THEN {current_process}
    ELSE IF candidates = {} THEN {0} ELSE {First(candidates, Remaining)}

(* Mutant of rr: the position of the current process is ignored. *)
rr_unwrapped == basic

rr ==
  LET after == {i \in candidates : current_process < i}
  IN  IF after # {} THEN {Lowest(after)} ELSE basic

(* top_priority starts at 0, so a process of priority 0 is never chosen by *)
(* the search: pid keeps its initial value 0.                              *)
priority ==
  LET eligible == {i \in candidates : spec.priority[i] > 0}
  IN  IF eligible = {} THEN {0} ELSE {First(eligible, Urgency)}

insanity == candidates

(* The function g_scheduling_algo points to. *)
Choices ==
  {pid \in Procs \cup {-1} :
     \/ g_scheduling_algo = "basic"    /\ pid \in basic
     \/ g_scheduling_algo = "fifo"     /\ pid \in fifo
     \/ g_scheduling_algo = "sjf"      /\ pid \in sjf
     \/ g_scheduling_algo = "psjf"     /\ pid \in psjf
     \/ g_scheduling_algo = "sctf"     /\ pid \in sctf
     \/ g_scheduling_algo = "rr"       /\ pid \in rr
     \/ g_scheduling_algo = "priority" /\ pid \in priority
     \/ g_scheduling_algo = "insanity" /\ pid \in insanity}

-----------------------------------------------------------------------------
(***************************************************************************)
(* Context switching.                                                      *)
(***************************************************************************)

(* Where control continues when swapcontext() enters context c of process *)
(* i: the start of process(), the poll it was interrupted at, or main().   *)
ResumePoint(i, c) ==
  IF c = "fresh"
    THEN IF executed_work[i] < spec.workload[i] THEN "work" ELSE "exit"
    ELSE IF c = "work" THEN "tick" ELSE IF c = "main" THEN "check" ELSE "fault"

(* Where a call of interrupt_handler() that does not switch returns to. *)
ReturnPoint == IF in_main THEN "check" ELSE "tick"

(* Mutant of saved: g_main_ctx is never used. *)
saved_in_pcb == [prepared EXCEPT ![current_process] = IF in_main THEN "main" ELSE "work"]

(* The context array after swapcontext() has saved the caller.  There is   *)
(* nothing to go back to before the first switch or when the current       *)
(* process has terminated: the caller is main() and g_main_ctx, which      *)
(* always resumes main's loop, takes it.                                   *)
saved ==
  IF current_quantum = 0 \/ ready[current_process] = "TERMINATED"
    THEN prepared
    ELSE [prepared EXCEPT ![current_process] = IF in_main THEN "main" ELSE "work"]

(* Mutant of alarm_set: context_switch does not arm the timer. *)
alarm_not_set == alarm

(* alarm(1): a SIGALRM is to come, an earlier one is cancelled. *)
alarm_set == TRUE

(* context_switch() up to where swapcontext() or its return leaves control.*)
context_switch(pid) ==
  \/ /\ pid \notin Procs
     /\ pc' = "fault"
     /\ state' = ready
     /\ context' = prepared
     /\ UNCHANGED <<current_quantum, current_process, alarm, in_main>>
  \/ /\ pid \in Procs
     /\ pid = current_process
     /\ current_quantum > 0
     /\ state' = [ready EXCEPT ![pid] = "RUNNING"]
     /\ context' = prepared
     /\ current_quantum' = current_quantum + 1
     /\ alarm' = alarm_set
     /\ pc' = ReturnPoint
     /\ UNCHANGED <<current_process, in_main>>
  \/ /\ pid \in Procs
     /\ pid # current_process \/ current_quantum = 0
     /\ state' = [ready EXCEPT ![pid] = "RUNNING"]
     /\ context' = saved
     /\ current_quantum' = current_quantum + 1
     /\ current_process' = pid
     /\ alarm' = alarm_set
     /\ pc' = ResumePoint(pid, saved[pid])
     /\ in_main' = (saved[pid] = "main")

-----------------------------------------------------------------------------
(***************************************************************************)
(* Interrupt handling.                                                     *)
(***************************************************************************)

(* SIGALRM is delivered: signal_handler(). *)
signal_handler ==
  /\ alarm
  /\ pc \notin {"done", "fault"}
  /\ alarm' = FALSE
  /\ g_interrupt' = TRUE
  /\ UNCHANGED <<input, state, executed_work, slice, context,
                 current_quantum, current_process, pc, in_main>>

(* interrupt_handler() called by main's loop: the flag is cleared first,   *)
(* and an alarm armed by an earlier switch may fire before the next step.  *)
enter_handler ==
  /\ pc = "clear"
  /\ g_interrupt' = FALSE
  /\ pc' = "sched"
  /\ UNCHANGED <<input, state, executed_work, slice, context,
                 current_quantum, current_process, alarm, in_main>>

(* Mutant of interrupt_handler: a quantum passes when nothing can run. *)
interrupt_handler_ticking ==
  /\ pc = "sched"
  /\ \/ \E pid \in Choices : context_switch(pid)
     \/ /\ Choices = {}
        /\ state' = ready
        /\ context' = prepared
        /\ pc' = ReturnPoint
        /\ current_quantum' = current_quantum + 1
        /\ UNCHANGED <<current_process, alarm, in_main>>
  /\ UNCHANGED <<input, executed_work, slice, g_interrupt>>

(* The rest of interrupt_handler(), up to the point where control leaves   *)
(* the scheduling algorithm.                                               *)
interrupt_handler ==
  /\ pc = "sched"
  /\ \/ \E pid \in Choices : context_switch(pid)
     \/ /\ Choices = {}
        /\ state' = ready
        /\ context' = prepared
        /\ pc' = IF g_scheduling_algo = "insanity" THEN "spin" ELSE ReturnPoint
        /\ UNCHANGED <<current_quantum, current_process, alarm, in_main>>
  /\ UNCHANGED <<input, executed_work, slice, g_interrupt>>

-----------------------------------------------------------------------------
(***************************************************************************)
(* The simulated process and main's loop.                                  *)
(***************************************************************************)

(* One RUN_WORKLOAD slice and the poll of g_interrupt after it. *)
process_work ==
  /\ pc = "work"
  /\ pc' = IF g_interrupt THEN "sched" ELSE "tick"
  /\ g_interrupt' = FALSE
  /\ UNCHANGED <<input, state, executed_work, slice, context,
                 current_quantum, current_process, alarm, in_main>>

(* Mutant of process_tick: the outer condition is not evaluated. *)
process_tick_any ==
  LET p == current_process IN
  /\ pc = "tick"
  /\ slice' = [slice EXCEPT ![p] = 0]
  /\ executed_work' = [executed_work EXCEPT ![p] = @ + 1]
  /\ pc' \in {"work", "exit"}
  /\ UNCHANGED <<input, state, context, current_quantum, current_process,
                 g_interrupt, alarm, in_main>>

(* Mutant of process_tick: the inner loop runs once too often. *)
process_tick_over ==
  LET p == current_process IN
  /\ pc = "tick"
  /\ slice' = [slice EXCEPT ![p] = IF @ < Slices THEN @ + 1 ELSE 0]
  /\ pc' = "work"
  /\ UNCHANGED <<input, executed_work, state, context, current_quantum, current_process,
                 g_interrupt, alarm, in_main>>

(* The end of the inner for loop's body; after the last slice of a unit    *)
(* executed_work is incremented and the outer condition evaluated again.   *)
process_tick ==
  LET p == current_process IN
  /\ pc = "tick"
  /\ \/ /\ slice[p] + 1 < Slices
        /\ slice' = [slice EXCEPT ![p] = @ + 1]
        /\ pc' = "work"
        /\ UNCHANGED executed_work
     \/ /\ slice[p] + 1 = Slices
        /\ slice' = [slice EXCEPT ![p] = 0]
        /\ executed_work' = [executed_work EXCEPT ![p] = @ + 1]
        /\ pc' = IF executed_work'[p] < spec.workload[p] THEN "work" ELSE "exit"
  /\ UNCHANGED <<input, state, context, current_quantum, current_process,
                 g_interrupt, alarm, in_main>>

(* A context that was never saved still starts process() anew; one saved   *)
(* by a switch points into a stack that no longer exists.                  *)
Returned(c) == IF c = "fresh" THEN "fresh" ELSE "dead"

(* process() returns: uc_link resumes g_main_ctx inside main's loop. *)
process_exit ==
  /\ pc = "exit"
  /\ state' = [state EXCEPT ![current_process] = "TERMINATED"]
  /\ context' = [context EXCEPT ![current_process] = Returned(@)]
  /\ pc' = "check"
  /\ in_main' = TRUE
  /\ UNCHANGED <<input, executed_work, slice, current_quantum, current_process,
                 g_interrupt, alarm>>

(* Mutant of main_check: the handler is called once, before main's loop. *)
main_check_once ==
  /\ pc = "check"
  /\ pc' = IF \A i \in Procs : state[i] = "TERMINATED" THEN "done" ELSE "check"
  /\ UNCHANGED <<input, state, executed_work, slice, context, current_quantum,
                 current_process, g_interrupt, alarm, in_main>>

(* main() looks for a process that has not terminated. *)
main_check ==
  /\ pc = "check"
  /\ pc' = IF \A i \in Procs : state[i] = "TERMINATED" THEN "done" ELSE "clear"
  /\ UNCHANGED <<input, state, executed_work, slice, context, current_quantum,
                 current_process, g_interrupt, alarm, in_main>>

(* The program has printed its summary and exited. *)
finished ==
  /\ pc = "done"
  /\ UNCHANGED vars

Init ==
  /\ g_scheduling_algo \in Algorithms
  /\ spec \in Specs
  /\ state = [i \in Procs |-> "CREATED"]
  /\ executed_work = [i \in Procs |-> 0]
  /\ slice = [i \in Procs |-> 0]
  /\ context = [i \in Procs |-> "none"]
  /\ current_quantum = 0
  /\ current_process = 0
  /\ g_interrupt = FALSE
  /\ alarm = FALSE
  /\ pc = "clear"
  /\ in_main = TRUE

Program ==
  \/ enter_handler
  \/ interrupt_handler
  \/ process_work
  \/ process_tick
  \/ process_exit
  \/ main_check
  \/ finished

Next == Program \/ signal_handler

Spec == Init /\ [][Next]_vars

(* The operating system keeps running the program and delivers the alarm.  *)
Fairness == WF_vars(Program) /\ WF_vars(signal_handler)

FairSpec == Spec /\ Fairness

-----------------------------------------------------------------------------
(***************************************************************************)
(* Properties.                                                             *)
(***************************************************************************)

(* The quantum only advances when a process is dispatched, so a process    *)
(* arrives at all only if enough others arrive before it: as many as the   *)
(* number of its creation quantum.  Every processes*.txt is such a file.   *)
Dense(sp) ==
  \A i \in Procs :
    sp.creation_quantum[i] <=
      Cardinality({j \in Procs : sp.creation_quantum[j] < sp.creation_quantum[i]})

(* The search of priority() cannot see a process whose priority is 0. *)
Prioritised(sp) == \A i \in Procs : sp.priority[i] > 0

(* Inputs on which the scheduler is meant to run to completion. *)
WellFormedInput ==
  /\ Dense(spec)
  /\ g_scheduling_algo = "priority" => Prioritised(spec)

(* At most one process is RUNNING and it is the one current_process names; *)
(* while control is inside a process, that process is marked RUNNING: the  *)
(* PCB state and the stack in use never disagree (scheduler.c:59-77, 147). *)
RunningIsCurrent ==
  /\ \A i \in Procs : state[i] = "RUNNING" => i = current_process
  /\ Executing => state[current_process] = "RUNNING"

(* No arrival is missed and none happens twice: between interrupts exactly *)
(* the processes whose creation quantum has passed have left CREATED, even *)
(* though handle_arrivals compares for equality only (scheduler.c:105).    *)
ArrivalsOnTime ==
  pc # "fault" =>
    \A i \in Procs :
      (state[i] = "CREATED") <=> (spec.creation_quantum[i] >= current_quantum)

(* A process that computes will be interrupted: either the alarm is armed  *)
(* or the flag is already up.  No path through interrupt_handler, main and *)
(* process loses the only timer (scheduler.c:55, 142, 174).                *)
InterruptPending == pc \in {"work", "tick"} => alarm \/ g_interrupt

(* swapcontext never enters a context that was not made, was overwritten   *)
(* by main's, or belongs to a function that returned; no assertion of      *)
(* context_switch fails and insanity finds a process (scheduler.c:48, 355).*)
NoFault == pc \notin {"fault", "spin"}

(* Control left main or a process only through its own context: a process  *)
(* that waits resumes in process(), never in main's loop (scheduler.c:66). *)
ResumableContexts ==
  pc # "fault" =>
    \A i \in Procs : state[i] = "WAITING" => context[i] \in {"fresh", "work"}

(* A process that is marked TERMINATED has done all of its work and no     *)
(* more, however often and wherever it was interrupted (scheduler.c:164).  *)
WorkDone ==
  \A i \in Procs :
    /\ executed_work[i] <= spec.workload[i]
    /\ state[i] = "TERMINATED" => executed_work[i] = spec.workload[i]

(* A terminated process stays terminated: neither a late arrival, a stale  *)
(* alarm nor a search that found nothing revives it (scheduler.c:107, 60). *)
NoResurrection ==
  [][\A i \in Procs : state[i] = "TERMINATED" => state'[i] = "TERMINATED"]_vars

(* fifo: processes run to completion in the order of their arrival, equal  *)
(* arrivals in index order (scheduler.c:211-230).                          *)
ArrivalOrder ==
  g_scheduling_algo = "fifo" =>
    \A i, j \in Procs :
      /\ \/ spec.creation_quantum[i] < spec.creation_quantum[j]
         \/ spec.creation_quantum[i] = spec.creation_quantum[j] /\ i < j
      /\ state[j] \in {"RUNNING", "TERMINATED"} \/ executed_work[j] > 0
      => state[i] = "TERMINATED"

(* A dispatch, if the step is one, goes to the best of those who could run.*)
BestDispatch ==
  current_quantum' # current_quantum =>
    LET next == current_process'
        Better(i, key) == key[i] < key[next] \/ (key[i] = key[next] /\ i < next)
        after_end == state[current_process] # "RUNNING"
    IN  \A i \in Procs :
          state'[i] = "WAITING" =>
            /\ g_scheduling_algo \in {"sjf", "psjf"} /\ after_end => ~Better(i, spec.workload)
            /\ g_scheduling_algo = "sctf" /\ after_end => ~Better(i, Remaining)
            /\ g_scheduling_algo = "priority" => spec.priority[i] <= spec.priority[next]

(* Whoever is dispatched is the best of all that could have been, those    *)
(* that arrive in the same quantum included.  When no process was          *)
(* interrupted (the last one has ended) that is the shortest workload for  *)
(* sjf and psjf and the shortest remaining work for sctf, ties in index    *)
(* order; for priority it is a highest priority, whoever was interrupted   *)
(* (scheduler.c:236-301, 331-344).                                         *)
NextIsBest == [][BestDispatch]_vars

(* rr: every dispatch brings each process that keeps waiting strictly      *)
(* closer to its turn, counted in list positions from the current process, *)
(* so it waits for at most NumProcesses - 1 dispatches, arrivals and       *)
(* terminations in between notwithstanding (scheduler.c:306-325).          *)
RoundRobinProgress ==
  [][g_scheduling_algo = "rr" /\ current_quantum' # current_quantum =>
       \A i \in Procs :
         state[i] = "WAITING" /\ state'[i] = "WAITING" =>
           (i - current_process') % NumProcesses < (i - current_process) % NumProcesses
    ]_vars

(* A file that names no process for quantum 0 never makes progress: nothing *)
(* is dispatched properly, no work is done and main's loop never ends,     *)
(* because only context_switch advances the quantum (scheduler.c:62, 77).  *)
LateStartStalls ==
  (\A i \in Procs : spec.creation_quantum[i] > 0) =>
    /\ pc # "done"
    /\ \A i \in Procs : executed_work[i] = 0 /\ state[i] # "WAITING"

(* Every execution on a well-formed input reaches the summary: whatever    *)
(* the algorithm, whenever the alarms fire, all processes arrive, finish   *)
(* and main's loop ends (scheduler.c:399-411).                             *)
Termination == WellFormedInput => <>(pc = "done")

-----------------------------------------------------------------------------
(***************************************************************************)
(* What Lab7/README.md promises and the code does not do.                  *)
(***************************************************************************)

(* The process that a dispatch goes to, as the README has it.  sjf: "the   *)
(* currently-running process is NOT context switched out" (:23).  psjf:    *)
(* "If a task with a smaller overall workload arrives, you will switch to  *)
(* it" (:26).  sctf "considers the remaining amount of workload" (:29).    *)
(* priority: "If two processes have the same priority, then switch between *)
(* them round robin style" (:35).                                          *)
DocumentedDispatch ==
  LET next        == current_process'
      interrupted == state[current_process] = "RUNNING"
  IN  /\ g_scheduling_algo = "sjf" /\ interrupted => next = current_process
      /\ \A i \in Procs :
           state'[i] = "WAITING" =>
             /\ g_scheduling_algo = "psjf" => spec.workload[next] <= spec.workload[i]
             /\ g_scheduling_algo = "sctf" => Remaining[next] <= Remaining[i]
             /\ g_scheduling_algo = "priority" /\ interrupted /\ next = current_process
                  => spec.priority[i] # spec.priority[next]

(* Every dispatch is the one the README describes: sjf never takes the CPU *)
(* from a process, psjf and sctf give it to a shorter one that has         *)
(* arrived, equal priorities take turns (Lab7/README.md:23-35).            *)
DispatchesAsDocumented ==
  [][current_quantum' # current_quantum => DocumentedDispatch]_vars
=============================================================================
