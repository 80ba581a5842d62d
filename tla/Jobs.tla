-------------------------------- MODULE Jobs --------------------------------
(***************************************************************************)
(* The job list of the shell (Project2/shell.c): exec(), which forks a     *)
(* child and either lists it or waits for it, and sigchld_handler(), which *)
(* interrupts main() between any two of its steps.                         *)
(*                                                                         *)
(* A child is named by its pid, and so is the text of its command.  The    *)
(* kernel's part is external: a child that ends becomes a zombie and       *)
(* raises SIGCHLD, of which one at most is pending; waitpid() reaps.  A     *)
(* signal that is pending when a system call is made is handled before the *)
(* call returns, so main() forks with none pending; waitpid(pid) looks for *)
(* its child first.  signal() restarts interrupted calls (glibc).          *)
(*                                                                         *)
(* pc is where main() is: "prompt", in exec() before each of the three     *)
(* assignments that list a job ("store", "label", "count"), "wait" in      *)
(* waitpid(), or "fault" once memory outside the arrays was used.          *)
(***************************************************************************)
EXTENDS Integers

CONSTANTS
  Slots,   \* length of num_jobs and bg_cmds (10)
  MaxPid   \* bound on the number of children; pids are 1 .. MaxPid

ASSUME JobsAssumption == Slots \in Nat \ {0} /\ MaxPid \in Nat

VARIABLES
  num_jobs,    \* pids, 0 if unused
  bg_cmds,     \* the commands of the jobs, 0 for the empty string
  count,       \* length of the list
  pc,
  pid,         \* exec()'s local: the child forked last
  foreground,  \* children main() waits for
  child,       \* what the kernel knows of each pid
  sigchld      \* SIGCHLD is pending

vars == <<num_jobs, bg_cmds, count, pc, pid, foreground, child, sigchld>>

Pids  == 1 .. MaxPid
Index == 0 .. Slots - 1
Last  == Slots - 1

list == <<num_jobs, bg_cmds, count>>

TypeOK ==
  /\ num_jobs \in [Index -> Pids \cup {0}]
  /\ bg_cmds \in [Index -> Pids \cup {0}]
  /\ count \in Int
  /\ pc \in {"prompt", "store", "label", "count", "wait", "fault"}
  /\ pid \in Pids \cup {0}
  /\ foreground \subseteq Pids
  /\ child \in [Pids -> {"none", "running", "zombie", "gone"}]
  /\ sigchld \in BOOLEAN

Zombies == {p \in Pids : child[p] = "zombie"}
Running == {p \in Pids : child[p] = "running"}

-----------------------------------------------------------------------------
(***************************************************************************)
(* The kernel.                                                             *)
(***************************************************************************)

(* Child p ends. *)
exit_child(p) ==
  /\ child[p] = "running"
  /\ child' = [child EXCEPT ![p] = "zombie"]
  /\ sigchld' = TRUE
  /\ UNCHANGED <<list, pc, pid, foreground>>

(* What waitpid(-1, NULL, WNOHANG) may return. *)
Reapable ==
  IF Zombies # {} THEN Zombies ELSE IF Running # {} THEN {0} ELSE {-1}

(* Child p, if it is one, is reaped. *)
Reap(p) == child' = [q \in Pids |-> IF q = p THEN "gone" ELSE child[q]]

-----------------------------------------------------------------------------
(***************************************************************************)
(* exec().                                                                 *)
(***************************************************************************)

(* fork() of the next command, in the background or not. *)
fork(isBackground) ==
  /\ pc = "prompt"
  /\ ~ sigchld
  /\ pid < MaxPid
  /\ pid' = pid + 1
  /\ child' = [child EXCEPT ![pid'] = "running"]
  /\ pc' = IF isBackground THEN "store" ELSE "wait"
  /\ foreground' = IF isBackground THEN foreground ELSE foreground \cup {pid'}
  /\ UNCHANGED <<list, sigchld>>

(* num_jobs[count] = pid *)
store ==
  /\ pc = "store"
  /\ num_jobs' = IF count \in Index THEN [num_jobs EXCEPT ![count] = pid] ELSE num_jobs
  /\ pc' = IF count \in Index THEN "label" ELSE "fault"
  /\ UNCHANGED <<bg_cmds, count, pid, foreground, child, sigchld>>

(* strcpy(bg_cmds[count], command_char) *)
label ==
  /\ pc = "label"
  /\ bg_cmds' = IF count \in Index THEN [bg_cmds EXCEPT ![count] = pid] ELSE bg_cmds
  /\ pc' = IF count \in Index THEN "count" ELSE "fault"
  /\ UNCHANGED <<num_jobs, count, pid, foreground, child, sigchld>>

(* count++ *)
increment ==
  /\ pc = "count"
  /\ count' = count + 1
  /\ pc' = "prompt"
  /\ UNCHANGED <<num_jobs, bg_cmds, pid, foreground, child, sigchld>>

(* Mutant of wait: waitpid() is retried until it returns the child. *)
wait_retry ==
  /\ pc = "wait"
  /\ child[pid] = "zombie"
  /\ Reap(pid)
  /\ pc' = "prompt"
  /\ UNCHANGED <<list, pid, foreground, sigchld>>

(* Mutant of wait: WNOHANG. *)
wait_nohang ==
  /\ pc = "wait"
  /\ child' = [child EXCEPT ![pid] = IF @ = "zombie" THEN "gone" ELSE @]
  /\ pc' = "prompt"
  /\ UNCHANGED <<list, pid, foreground, sigchld>>

(* waitpid(pid): main() reaps the child, or the handler already has and    *)
(* the call fails.                                                         *)
wait ==
  /\ pc = "wait"
  /\ child[pid] \in {"zombie", "gone"}
  /\ Reap(pid)
  /\ pc' = "prompt"
  /\ UNCHANGED <<list, pid, foreground, sigchld>>

-----------------------------------------------------------------------------
(***************************************************************************)
(* sigchld_handler().                                                      *)
(***************************************************************************)

(* Where the search for pid p stops: at its first slot, or at the last one.*)
Position(p) ==
  CHOOSE i \in Index :
    /\ i = Last \/ num_jobs[i] = p
    /\ \A j \in 0 .. i - 1 : num_jobs[j] # p

(* Mutant of Shifted: one slot too few is moved. *)
Shifted_short(a, i) == [j \in Index |-> IF i <= j /\ j < count - 1 THEN a[j + 1] ELSE a[j]]

(* Array a after the entries behind slot i have moved down by one. *)
Shifted(a, i) == [j \in Index |-> IF i <= j /\ j < count THEN a[j + 1] ELSE a[j]]

(* Mutant of Cleared: -1 marks an unused slot. *)
Cleared_minus(a) == [a EXCEPT ![Last] = -1]

Cleared(a) == [a EXCEPT ![Last] = 0]

(* Mutant of Remaining: count is not decremented. *)
Remaining_all == count

Remaining == count - 1

(* The list without p; p is 0 or -1 when waitpid() reaped nothing, and 0   *)
(* is also what an unused last slot holds.                                 *)
Unlist(p) ==
  LET i == Position(p) IN
  \/ /\ p = num_jobs[Last]
     /\ count' = Remaining
     /\ bg_cmds' = Cleared(bg_cmds)
     /\ num_jobs' = Cleared(num_jobs)
     /\ UNCHANGED pc
  \/ /\ p # num_jobs[Last] /\ i = Last
     /\ UNCHANGED <<list, pc>>
  \/ /\ p # num_jobs[Last] /\ i < Last /\ count <= Last
     /\ num_jobs' = Shifted(num_jobs, i)
     /\ bg_cmds' = Shifted(bg_cmds, i)
     /\ count' = Remaining
     /\ UNCHANGED pc
  \/ /\ p # num_jobs[Last] /\ i < Last /\ count > Last
     /\ pc' = "fault"
     /\ UNCHANGED list

sigchld_handler ==
  /\ sigchld
  /\ pc # "fault"
  /\ sigchld' = FALSE
  /\ \E p \in Reapable : Reap(p) /\ Unlist(p)
  /\ UNCHANGED <<pid, foreground>>

-----------------------------------------------------------------------------
Init ==
  /\ num_jobs = [i \in Index |-> 0]
  /\ bg_cmds = [i \in Index |-> 0]
  /\ count = 0
  /\ pc = "prompt"
  /\ pid = 0
  /\ foreground = {}
  /\ child = [p \in Pids |-> "none"]
  /\ sigchld = FALSE

exec == store \/ label \/ increment \/ wait

Next ==
  \/ \E isBackground \in BOOLEAN : fork(isBackground)
  \/ exec
  \/ sigchld_handler
  \/ \E p \in Pids : exit_child(p)

Spec == Init /\ [][Next]_vars

(* main() and the handler keep running, and a command main() waits for     *)
(* ends.                                                                   *)
Fairness ==
  /\ WF_vars(exec)
  /\ WF_vars(sigchld_handler)
  /\ \A p \in Pids : WF_vars(p \in foreground /\ exit_child(p))

FairSpec == Spec /\ Fairness

-----------------------------------------------------------------------------
(***************************************************************************)
(* Properties.                                                             *)
(***************************************************************************)

(* The pids the list holds, by position. *)
Listed == {i \in Index : i < count}

(* Whoever reaps it, main() or the handler, the command that ran in the    *)
(* foreground has ended and is reaped when the next line is read           *)
(* (shell.c:440, 584).                                                     *)
ForegroundReaped ==
  pc # "fault" =>
    \A p \in foreground : child[p] # "gone" => pc = "wait" /\ p = pid

(* However the handler interrupts exec() and however wrong count is, the   *)
(* list names no job twice and keeps the order in which the jobs were      *)
(* started (shell.c:435-437, 606-612).                                     *)
ListOrdered ==
  pc # "fault" => \A i, j \in Listed : i < j => num_jobs[i] < num_jobs[j]

(* As long as every command runs in the background and the last slot was   *)
(* not needed, no running job drops out of the list: the handler removes   *)
(* an entry, for any interleaving with exec()'s three assignments and any  *)
(* merging of signals, only for a job that has ended (shell.c:595-612).    *)
RunningListed ==
  foreground = {} /\ pid < Slots /\ pc = "prompt" =>
    \A p \in Running : \E i \in Listed : num_jobs[i] = p

(* main() does not wait for ever, although the handler may reap the very   *)
(* child it waits for (shell.c:440); a handler that uses memory outside    *)
(* the arrays ends the wait as well.                                       *)
WaitReturns == pc = "wait" ~> pc # "wait"

(* "You can see a list of running background jobs by typing the command    *)
(* jobs" (README.md:40): at a prompt with no signal pending the list shows *)
(* the command of every job that runs.                                     *)
JobsShown ==
  pc = "prompt" /\ ~ sigchld =>
    \A p \in Running : \E i \in Listed : bg_cmds[i] = p
=============================================================================
