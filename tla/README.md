# A verification project for cs326

The repository holds the projects and labs of an operating-systems course in C:
a user-level CPU scheduler (`LabWork/Lab7`), a memory allocator (`Project3`), a
command shell (`Project2`), a forking web server (`Project4`), a `/proc`
inspector (`Project1`) and smaller exercises on interposition, signals, pipes
and sockets. The programs do not call each other; each is a system of its own.
What they share is the kind of logic that tests reach badly: signals between any
two statements, chains of headers written inside the memory they describe, rings
and counters that must stay in step.

## Inventory

| Part | State it keeps | Operations | What is hard | Correct when |
|---|---|---|---|---|
| CPU scheduler, `LabWork/Lab7/scheduler.c` | PCBs, one `ucontext_t` per process, the quantum, the interrupt flag, the alarm | `interrupt_handler`, eight algorithms, `context_switch`, `process`, `main`'s loop | SIGALRM at any instant; stacks swapped under running code; arrivals tested by equality | PCBs and stacks agree, all work is counted, every process arrives and ends, each algorithm chooses what it should |
| Specification files, `file_format.c` | none | `read_spec` | table full | (not modelled) |
| Allocator, `Project3/allocator.c` | chain of block headers, allocation counter, the kernel's mappings | `malloc`, `calloc`, `realloc`, `free`, three fits | long sequences of reuse, split and unmap; exact fits; overflow of `size_t`; threads | chunks in use never overlap, are large enough and live until freed; regions are tiled and unmapped when idle |
| Shell history, `Project2/history.c`, `shell.c` | ring of 100 lines, three indices, a second counter in `shell.c` | store, list, `!!`, `!number`, `!prefix` | the wrap; two counters; failed recalls | the last lines, all of them, under their numbers; a recall finds the command it names |
| Shell jobs, `shell.c` | `num_jobs[10]`, `bg_cmds[10]`, `count` | `exec`, `sigchld_handler` | the handler races `exec` and `main`'s `waitpid`; merged SIGCHLDs; ten slots | the list is the set of live background jobs |
| Pipelines, `shell.c`, `Lab9/leetify.c` | stages cut from the tokens, descriptors of each process | `exec`, `execute_pipeline` | a call that fails in one of several processes; ends of pipes left open | every stage reads its predecessor, all end, no second shell takes the terminal |
| Web server, `Project4/www.c` | the listening socket, connections, one child each | `main`, `read_line`, `handle_request` | children that return to the accept loop; descriptors inherited by `fork`; files that change; calls whose results are dropped | one process accepts, every complete request gets the whole file or 404, every connection ends |
| Inspector, `Project1/inspector.c` | the four columns of a row, kept from row to row | `readdir`, four times `open` and `read` per row, the printing | processes vanish and pids are reused while a row is read | a row shows its own process |
| Messaging, `Lab11` | a byte stream | `read_len`, client and server loops | short reads and writes, end of stream | (not modelled) |
| Lab 3, 6, 8, 10 | none, or one counter | | | (exercises) |

`PROJECT.json` lists every part with its status, and under `hazards` each place
where the code can go wrong in a way a test would hardly reach.

## Modules

| Module | Models | Extends |
|---|---|---|
| `Scheduler` | `scheduler.c` | |
| `MCScheduler` | instances: all files with small numbers | `Scheduler` |
| `SchedulerProofs` | proofs | `Scheduler` |
| `Heap` | what an allocator promises (abstract) | |
| `Allocator` | `allocator.c`, one thread; instantiates `Heap` | |
| `MCAllocator` | instances: page-aligned addresses | `Allocator` |
| `AllocatorProofs` | the chain invariant | `Allocator` |
| `AllocatorRefinement` | `Allocator` implements `Heap` | `AllocatorProofs` |
| `History` | `history.c` and its use in `shell.c` | |
| `MCHistory` | instance: which prefix starts which line | `History` |
| `HistoryProofs` | the ring for every size, and what a recall finds | `History` |
| `Jobs` | the job list of `shell.c`: `exec` and `sigchld_handler` | |
| `MCJobs` | instance | `Jobs` |
| `JobsProofs` | the list for any number of slots and children | `Jobs` |
| `AllocatorThreads` | `malloc` and `free` called by several threads | `Allocator` |
| `Pipeline` | pipelines and redirection of `shell.c`, `leetify.c` | |
| `MCPipeline` | instance: lines | `Pipeline` |
| `PipelineProofs` | lines cut and processes connected, for any number of stages | `Pipeline` |
| `WebServer` | `www.c` | |
| `MCWebServer` | instance: requests and files | `WebServer` |
| `WebServerProofs` | one process accepts; answers are whole | `WebServer` |
| `Inspector` | the task list of `inspector.c` | |
| `MCInspector` | instance | `Inspector` |
| `InspectorProofs` | what a row shows | `Inspector` |

Definitions have the names of the C functions and globals they translate.
`X_suffix` before a definition `X` is a mutant: `X` with a plausible mistake,
used to show that a property depends on the code and nowhere else.

### Scheduler

One operating-system process runs everything: `main`'s loop and the simulated
processes, each on its own stack. `pc` says which piece of code comes next and
`in_main` on which stack; `current_process` says whose stack it is otherwise.
`context[i]` is what `swapcontext` into process `i` would resume: nothing,
`process()` from its start (`fresh`), the poll it was interrupted at (`work`),
`main`'s loop (`main`), or a stack that is gone (`dead`). The last two are
mistakes the code could make: `context_switch` saves the caller into the PCB of
the current process unless that process has terminated, and only a careful
ordering of the assignments makes that the right stack.

The steps are as small as the signal can tell apart. `signal_handler` is enabled
whenever an alarm is pending and may come between any two other steps: between
the clearing of the flag in `interrupt_handler` and the re-arming of the alarm
in `context_switch`, between the poll and the end of an iteration, in `main`.
The poll and the clearing of the flag are one step, since a signal between them
has the effect of one before. `RUN_WORKLOAD` and the clock are left out; a unit
of work is `Slices` polls (20 in the code).

Each algorithm is the set of processes it may pass to `context_switch`: a
singleton for most, any waiting process for `insanity`, anything at all where an
uninitialized `pid` is passed (`fifo` when nothing waits), nothing when it
returns without a switch. Entering a context that does not exist, and a failed
assertion, lead to `pc = "fault"`.

### Allocator and Heap

`blocks` is the chain from `g_head`; the headers keep their addresses, so what
tiles what is a statement about numbers. A call is one step: alignment, search,
reuse or split or a new mapping, the counter. The kernel is external: `mmap`
returns any free page-aligned range or fails, `munmap` succeeds or fails (the
code then only prints a message). `size_t` arithmetic wraps at `SizeMod`, and
`best_fit` compares with `INT_MAX` as in the code. `ALLOCATOR_ALGORITHM` is read at
every call and so chosen anew at every call. A client frees and reallocates only
pointers it holds, or NULL, and calls with sizes from `Requests`, 0 included.
`calloc` asks for `nmemb` members (from `Members`) of such a size: the product
wraps like everything else (`Product`), while `asked` remembers what the client
meant. `op` and `arg` say which function was called with which pointer. What the
payloads contain, `calloc`'s zeroes included, is left out.

`Heap` knows chunks and the client's calls: a request is granted with a chunk that is long enough
and apart from all others, or refused, and `free` releases the chunk its argument names and
no other. It says openly what a client gets less of than it would expect: a
refused `calloc` of at least one byte kills the program (`dead`), and `realloc` of a chunk
never gives another (`Resize`). `Allocator` maps to it with `Chunks`, the payloads of the blocks in use.

### History

The ring, its three indices, and `num_cmds`, the second counter of `shell.c`.
`issued` is a history variable: every line given to `add_history`. Lines are
values and `Matches` says which prefix starts which. A recall that finds nothing
stores a buffer that was never initialized: any line or none of them
(`Garbage`). `strcpy` and `strcmp` of NULL end the program: `!!` as the first
command, any recall of a comment, and a line that is only `&`. The lines in
`Background` end in `&`. `main` looks for that token before it replaces the tokens
by those of a recalled line, so a `Run` records the line, whether it runs in the background
and whether an `&` is left among its arguments (`Typed`, `Recalled`); `amp` says whether
the recall itself ends in `&`. `number` is the number of the last `!number`. Left out: lines longer than the buffer
they are copied to, blank lines, and what the programs do.

### Jobs

`exec` forks and then either lists the child with three assignments
(`store`, `label`, `increment`) or waits for it; `sigchld_handler` runs between any two of
these, as one step, since SIGCHLD is blocked meanwhile. The kernel is external:
children end at any time, at most one SIGCHLD is pending, `waitpid(-1)` returns
any zombie, 0 when children run and none is a zombie, -1 without children. A
signal pending at a system call is handled before the call returns to `main`, so
no `fork` happens with one pending, while a signal raised between two
assignments may be handled before or after the second. Using memory outside the
arrays (index -1, the eleventh slot) is `pc = "fault"`. Pids are handed out in
increasing order and not reused; a job's command is named by its pid.

### AllocatorThreads

`g_alloc_mutex` is declared and nothing locks it. `malloc` is cut where one
thread's decision meets another's change: the search (`reuse`) is one step, and
taking the space of the block it found, or mapping a region, is a second one that works on the
chain as it is by then. If another thread took the space in between, the
remainder is too small and the new header or payload overwrites what follows
(`overrun`, which is `fault`). The cut is coarser than the code, so what it shows
can happen.

### Pipeline

`exec` cuts the tokens of a line into `cmds`, one iteration of its loop per step,
and forks the runner; the runner makes a pipe and forks a child for each stage
but the last and executes the last one itself. Lab 9's `leetify` runs the same
function over three fixed commands, so `host` says which of the two programs it
is. Each process has its descriptor 0, its descriptor 1, and the set of ends it
holds under other numbers: that set is where the code leaves read ends open. A pipe holds
`Capacity` units; a write without a reader kills the writer, a read without a writer
is the end of the input.

`pipe`, `fork`, `open` and `execvp` may fail. `execute_pipeline` then returns:
`leetify` ends, the shell goes on as a second copy of its own loop with whatever standard
input it has. `execvp` of a stage without a name ends the process by a
signal. The programs are external: filters read to the end, brief ones stop when
they like, endless ones only write; a copy of the shell reads like a filter, and
the commands it runs in its turn are not followed. `exec` waits for the runner
and no other process. One foreground line is followed from its tokens to the end of all
its processes; tokens are separated by blanks. (`shell.c:352`, a stray line in the middle of
the loop, is not C; it is read as if it were absent.)

### WebServer

All processes run `main`'s loop. A child that has answered its request leaves
the inner loop into `accept` on the socket it has closed, and the error that
returns is what ends it (`accept_error`). Children are never waited for: a
process number is used once, and when none is left `fork` fails and `main`
exits. A request is a sequence of lines. `read_line` does not count the newline,
so a bare newline ends the request like the end of the connection and
leaves it unanswered; `GET` without a path copies from NULL; a request without `GET`
gets 404, since `stat` of no path fails. The index of a directory may be a directory
again, which `handle_request` does not test: it announces that directory's size, whatever
it is, and can send nothing. The answer is four steps, `stat`, the
headers, `open` and `sendfile`, and other programs rewrite, remove and create files between them. `disturbed` is
a history variable: the clients whose answer was under way when a file was
changed. `open` may fail although `stat` did not, and `sendfile` may send any smaller number
of bytes than it could; the code looks at neither result, and `dropped`, the second history variable, remembers the clients
it happened to, and only what such a client is missing is left open by the properties. A removed file is not created again while a child has it open, so that
the file's name can stand for it.

### Inspector

Every row of the task list opens and reads the status file of its process four
times, into variables that outlive the row. A column holds the process it was
read from, so "a row shows its own process" can be stated although pids are
reused; `owners` collects the processes that had the row's pid while it was read.
A file that is gone skips the column. A process that ends between `open` and
`read` makes `getNextTok` walk off the buffer, and a user without an entry makes `getUser`
dereference NULL: both end the program.

## Runs

| Run | Expected | Shows |
|---|---|---|
| `scheduler_safety` | pass | three processes, all eight algorithms, every interleaving of alarms with polls, switches and returns |
| `scheduler_termination` | pass | under fairness every run on a well-formed file reaches the summary; on a file without a process for quantum 0 nothing ever runs |
| `scheduler_documented` | violation | `sjf` takes the CPU from a process that runs, `psjf` and `sctf` let a shorter one wait, equal priorities do not take turns |
| `allocator_safety` | pass | any sequence of up to four allocations and any frees keeps the chain exact and implements `Heap` |
| `history_safety` | pass | the ring is exact through two wraps, with comments and failed recalls; which line each recall finds |
| `history_documented` | violation | `!!` does not run a background command as it was typed; `!number` of the next command executes the oldest |
| `jobs_safety` | pass | main's wait returns and its child is reaped whoever wins the race; the list stays ordered; without foreground commands no running job drops out |
| `jobs_shown` | violation | a foreground command that ends takes a running job out of the list |
| `allocator_threads` | violation | two threads are given the same memory |
| `pipeline_safety` | pass | whatever fails and however the processes interleave, programs are connected as the line says, the pipeline ends, and a second shell reads the terminal only in the two cases named |
| `web_safety` | pass | only the first process accepts; a complete, undisturbed request gets 404 exactly for a missing file, otherwise its length and its bytes, fewer only after a failure the code drops; every accepted connection is closed |
| `inspector_rows` | pass | what a row can show when processes come and go under it |

### Bounds

*Scheduler.* Three processes are the least number with a current process, one
that waits and one that arrives or has terminated; creation quantums 0 to 2 and
workloads 0 to 2 contain ties, empty workloads, arrivals during a run and at its
end; two slices tell an interrupt inside a unit of work from one at its end.
The files are `DenseSpecs`: a process created in quantum q has at least q
predecessors, as in `processes1.txt` to `processes4.txt`. Priorities are positive
and favour the longer process, so that `priority` and `sjf` disagree. On other
files the scheduler stalls or re-enters a finished process; the first case is
`LateStartStalls`, the second is described below. 5.8 million states; the
termination run uses one slice and creation quantums up to 1, since liveness
needs no second slice, and adds the files whose first process is created late:
on these the program does not end, which is why `Termination` is conditional and
deadlock is not checked.

*Allocator.* Page 12, header 2, alignment 2, three pages: one request fills a
page with its header and more (12), one leaves room for three more blocks (3),
one is empty (0). A region can be split twice, freed in any order, reused and
unmapped while another region stands before or after it. Four allocations reach
every pair of these. `calloc` asks for 1 or 4 members. All sizes fit (`RequestsFit`, with `SizeMod` 256). `CHECK_DEADLOCK FALSE`: the bound on allocations ends the
behaviour when nothing is left to free.

*History.* Three slots and six commands: the ring wraps twice. Two commands that
share a prefix, one of them a background line, one comment, prefixes that match one, both, none and all lines;
every recall with and without `&`.
The shell may stop (`exit`, or a NULL pointer), so deadlock is not checked.

*Jobs.* Four slots and five children: a list that fills, one that is too long,
and three children that end together while a fourth is being listed.
`RunningListed` speaks of lists that never needed the last slot; `sigchld_handler` treats that
slot apart and leaves stale pids in it, and such a list can lose a running job
(three slots are enough to see it without the condition).

*AllocatorThreads.* Two threads, two pages, one size: enough for the shortest
counterexample.

*Pipeline.* One to three stages, with and without a file: three are the least
with a stage that both reads and writes a pipe and inherits an end of an earlier one.
Two units per pipe: empty, partly filled, full. Of the eleven lines four are malformed (a bar at
either end, a redirection before a bar, none after `>`). `leetify` runs with and without its output
file. After the line nothing more is read, so deadlock is not checked; that no
process hangs is `PipelineEnds`.

*WebServer.* Two clients and at most two children: a child runs while the next
connection is accepted. The first client sends one of seven requests: for a file, for a directory as the second
of two `GET`s, for a directory whose index is a directory, without `GET`, cut short by a bare newline, without a path, empty.
The second asks for the file or sends nothing; children share nothing but the files, so two clients with all
seven would only repeat the same answers. Files of 0 or 1 byte and one change while
the server runs. Clients connect once, so the server may be left waiting and deadlock is not checked.

*Inspector.* Three pids and four processes: two rows after a first one, and one
pid that is reused. One process has a state letter the code does not know.

### Fairness

`FairSpec` assumes weak fairness of the program's next step and of the delivery
of a pending SIGALRM. The first is the operating system running the process; the
second is `alarm(1)` and the fact that nothing blocks the signal. Nothing is
assumed about when the alarm comes relative to the program's steps.

`Jobs!FairSpec` assumes that the shell runs, that a pending SIGCHLD is delivered
and that a command the shell waits for ends; background jobs may run for ever.

`Pipeline!FairSpec` assumes that every process is scheduled, for its set-up and for each
program's reads and writes (weak fairness), and that a program that can stop again and
again stops at last (strong fairness of `leave`): a brief program, or one that reads a
terminal whose user ends the input. Endless programs are not assumed to stop, so
`PipelineEnds` excepts lines on which one feeds readers of everything.

`WebServer!FairSpec` assumes that every process is scheduled. `accept` on an open
socket need not fail; on a closed one it does. A client that has sent all it will send closes its
connection at last if the server still waits for more: the server has no timeout,
so without this a silent client would hold its child for ever.

## Disagreements between the code and its documents

With a run and a finding: `sjf` preempts (`Lab7/README.md:23`), `psjf` and `sctf` do not (:26, :29) and equal
priorities do not take turns (:35), all in `scheduler_documented`, which finds each of them when `Algorithms` is set to
that one alone; a recalled background command (`Project2/README.md:20`) and the number of the next command in
`!number` (:19), both in `history_documented`, the second alone when `Background` is empty; the job list after a
foreground command; two threads in `malloc`.

Stated by a property as the code has it: `www.c:142` promises "the appropriate file (or
404 if the file does not exist)", but `open` may fail after `stat` and `sendfile` may fall short, and the client then
has 200, a length and less than the file (`AnswersWhole` excepts these clients, `dropped`, from getting all the bytes, and from nothing
else); `realloc` "reallocates precious memory without losing the original data" (`allocator.c:382`) but
returns NULL for a chunk in use (`Resize` of `Heap`), and a refused `calloc` writes through NULL (`dead`); a stage that
cannot be executed leaves a second shell at the terminal (`OneShell`); a file that changes
between `stat` and `sendfile` gives a body that does not have the length announced, and a bare newline no answer
(`AnswersWhole` excepts both); an index that is a directory gets 200 and nothing (`AnswersWhole`); a process that ends
while its row is read is shown with the name, user and tasks of the row before,
and only its state becomes "unknown" (`RowsRight`).

Met while translating, and visible in the definitions: when nothing waits `sjf` dispatches its initial `pid` 0;
`priority` cannot see a process of priority 0;
`first_fit` skips an exact fit (`allocator.c:157`); sizes and products near `SIZE_MAX` wrap, and the block returned
is marked free (`allocator.c:47`) or is too small (`:372`); an alarm that fires between line 142 and `alarm(1)` of
`scheduler.c` ends the next process's quantum at its first poll; a background job that ends between the first and the second
assignment of `exec` (`shell.c:435`) writes its command over another job's;
`setenv` is not marked as a built-in and is executed as a program too; a line
that is only `$VAR` overwrites the NULL after its token (`shell.c:316`).

## Proofs

All theorems are for every value of the constants under the assumptions named in
the modules; TLC evaluates the same assumptions in the runs.

*Scheduler.* `TypeCorrect` needs nothing. The others hold on well-formed inputs
(`WellFormedInput`: the file is `Dense`, and priorities are positive under
`priority`), which is a condition on the initial state. The invariant `IInv`
strengthens the properties with three facts. `Placement`: control is on main's
stack exactly before the first dispatch and after a process has terminated,
which is when `context_switch` does not save into a PCB. `WorkLeft`: how much
work is left at each point of `process()`. `QuantumPerProcess`: the processes
that run or have ended are at most as many as the quantums that passed. The last
is the heart of `NeverFaults`: if nothing waited, every arrived process would
have ended, there would be at most `current_quantum` of them, and the least
creation quantum of those still to come would, by density, be one that has come:
so something always waits (`NeverIdle`), the search finds it
(`ChoiceIsCandidate`) and its context is one that can be entered.

What the algorithms choose rests on two lemmas: `DispatchStates`, what a
dispatch does to the states of all processes, and `OtherSteps`, that no other
step moves a process except the current one to its end. `ArrivalOrder` is
inductive with `IInv`: a process that `fifo` dispatches is the oldest that waits,
and one that arrives later is younger than all. `NextIsBest` and `RoundRobinProgress` are action properties. The first follows from
the searches, since all that wait after a dispatch were candidates in it; `ShortestIsChosen`
says what a search returns. It speaks of `sjf`, `psjf` and `sctf` where the last process has ended, since that is where the code and
its README agree, and of a highest priority, not of which among equals; `scheduler_documented` is about the rest. The second is arithmetic of list positions modulo the number
of processes. `LateStartStalls` needs no well-formed file: if quantum 0 has no
process, nothing has happened at all until a fault ends the program (`Stalled`).

*Allocator.* Under `RequestsFit` (no size addition and no product of `calloc` overflows; what
happens otherwise is listed above). The invariant adds to the properties that every block
lies in a live mapping, that mappings and blocks are disjoint, that the blocks
of a region are contiguous in the chain and that IDs are below the counter.
There is a lemma per operation on the chain: `TakeOverPreserves`,
`SplitPreserves`, `MapRegionPreserves`, `ReleasePreserves`, `UnlinkPreserves`.
`WalkVisitsRegion` shows that the walk of `free` sees exactly the region's
blocks; it needs contiguity and tiling. `RefinesHeap` then shows that each step
is a step of `Heap` or a stutter: that what `free` unlinks with a region was free before,
so that the chunk that disappears is the one the argument names, is where the walk is needed.

*Web server.* `OneServer` for any number of clients, processes, requests and
files. The invariant adds that a child has the listening socket only until its first
step (`Listening`), so the error of `accept` stops it; that what a process has as
`client_fd` was accepted (`Accepted`), while a connection `accept` returns was
pending, so no child can have it; and hence that children have connections of
their own (`OwnConnection`).

`AnswersWhole` speaks of the step that ends an answer, so its invariant follows one
request through its child (`Answering`): what `path` is after the lines read so
far (`ReadSoFar`), that after a complete request it is what the request asks for, that
from `stat` on it is the file meant and exists, that `st_size` is its size unless it is a directory, that the file open is this one or
`dropped` names the client, and that these stay
true as long as `disturbed` does not name the client. No other child can answer the same
client, which is `OwnConnection` again. `TypeOK` needs that directories stay directories and that a path looked up is one of the file system's (`Paths`).

*Jobs.* For any number of slots and children. The handler may come between two of
`exec`'s assignments, so `ListOrdered` is not inductive: the invariant orders the
slots in use with the one being filled in among them (`UsedOrdered`), and says
that pids grow, so the child about to be stored is ahead of the whole list
(`PidsGrow`). Nothing is said about `count` being right, since the handler
decrements it for jobs that were never listed; only that it is not too large.
`RunningListed` is proved through `CalmList`: with background commands only, the
handler alone reaps, so a pending signal stands for a zombie and a decrement for
a job in a slot in use; `count` is then at most one too small, and only while a
slot is being filled in.

*History.* For a ring of any size. `Retained` is made inductive by `Consistent`:
`tail` is the slot of the newest command, the slots not yet reached are empty,
and the two counters agree. The rest is arithmetic modulo `max`, stated as
lemmas: fewer than `max` commands in a row have different slots
(`ModuloDiffers`), and the walk of `print_history` from `tail` meets each slot
once. For `Recalls`, `get_cmd` answers the numbers left in the ring and the
next one, about which nothing is claimed, and `find_cmd`'s scan from the newest command stops at the greatest
number that matches (`PrefixAgain`).

*Pipeline.* For any set of lines, any number of stages and any capacity. The first half
of the invariant is about the parsing loop. `Parsed` holds of any line: there
is one pipe per bar, so fewer than `MaxStages`, and once the loop is done the last stage has none, so
the runner stops. `ParsedRight` holds of a well-formed line: what was cut so far are the
segments between its bars (`Cut`), and the stage that `>` ends has the file.
`CutIsMeant` shows that a segment is what `Meant` describes by counting bars. The
second half is about the processes: which of them can exist where the runner is
(`Placed`), what the runner's descriptors are at each point (`RunnerWired`) and what
each child was left with (`ChildrenWired`). A child inherits what the runner held at
the fork, so its wiring is the runner's a moment before; `OneMoves` shows
that a step of one process leaves all others alone. The step of `parent` needs
that a stage with a pipe is not the last. `OneShell` needs only that a runner that
returned with the terminal as its input failed at a pipe or a file.

*Inspector.* `RowsRight` for any number of pids and processes. It speaks of a row
that is printed; the invariant says the same of a row half read (`RowHeld`): a
column passed was read from an owner of the pid, or skipped when it had none, a
column to come is still that of the row before, and the state is a letter only
if it was read for this row. `Witnessed` ties the columns to the kernel: the
file that is open belongs to a process that had the pid.

Every invariant and every action property of a passing run is stated by a theorem. Only
model-checked: the liveness properties `Termination`, `WaitReturns`,
`PipelineEnds` and `ConnectionsEnd`, which are out of the prover's reach, and
the violations, which state what the code does not do.

Assumptions of the proofs: `WellFormedInput` and `RequestsFit`, named above; that
requests and lines are sequences of tokens, that a name is not one of the other
tokens of a request, that a line is not empty and has fewer than `MaxStages`
bars; that the constants that count something are natural numbers, and at least 1 (3 for
the stages, which `leetify` has) where the code has an array of that size.

## Plan

Modelled so far, in the order of importance: the scheduler, the allocator and its
refinement of `Heap`, history, jobs, threads in the allocator, pipelines, the web
server, the task list. What is left:

1. `Messaging`: `read_len` and short reads (Lab 11).
2. Proofs: the abstract specifications that would turn `Retained` and `Plumbed` into
   refinements (a bounded log; a composition of stages); the conditions under
   which `ThreadsShareNothing` does hold, with `g_alloc_mutex` taken.

## Not modelled

Parsing and formatting (`read_spec`, `next_token`, timestamps, the printed
metrics), the sections of the inspector other than its task list, the interposers
of Lab 6 and the exercises of Labs 3 and 10: they keep no state between calls.
The built-ins `cd` and `setenv` and the substitution of variables: one call each on the
process's environment. Lab 8: a counter and two handlers. Lab 11: next in the
plan. Overlong lines in the shell and the web server. What the allocator writes into payloads
(scribbling, `calloc`'s zeroes): it changes no state of the allocator. The calibration of
`RUN_WORKLOAD`: time is the order of the steps here.
