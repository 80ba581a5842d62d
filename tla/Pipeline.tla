------------------------------ MODULE Pipeline ------------------------------
(***************************************************************************)
(* Pipelines and redirection: exec() and execute_pipeline() of             *)
(* Project2/shell.c, and Lab9/leetify.c, which runs the same function over *)
(* three fixed commands.                                                   *)
(*                                                                         *)
(* exec() cuts the tokens of a line into stages and forks one process, the *)
(* runner.  The runner forks a child for every stage but the last, becomes *)
(* the last stage itself, and is all that exec() waits for.  A call that   *)
(* fails makes execute_pipeline() return: in leetify main() ends, in the   *)
(* shell the process goes on as a second copy of the shell's loop.         *)
(*                                                                         *)
(* Process 0 is the runner, process k > 0 the child of stage k; pipe k is  *)
(* the one stage k writes into.  at[p] is where process p is:              *)
(*   "none"    not forked yet        "stage"  at execute_pipeline()        *)
(*   "fork"    has made a pipe       "parent", "child"  forked             *)
(*   "exec"    at execvp()           "run"    a program, or a shell copy   *)
(*   "full"    the program has something to write         "ended"          *)
(* Programs and pipes are external: a pipe holds up to Capacity units, a   *)
(* writer without a reader dies, a reader without a writer sees the end.   *)
(* What a copy of the shell runs in its turn is not followed further.      *)
(***************************************************************************)
EXTENDS Integers, Sequences, FiniteSets

CONSTANTS
  Lines,     \* the lines considered, as sequences of tokens
  MaxStages, \* bound on the stages of a line; leetify has three
  Capacity   \* bound on what a pipe holds

Procs == 0 .. MaxStages - 1
NULL  == "NULL"

ASSUME PipelineAssumption ==
  /\ MaxStages \in Nat /\ MaxStages >= 3
  /\ Capacity \in Nat \ {0}
  /\ \A tokens \in Lines :
       /\ tokens \in Seq(STRING) /\ tokens # << >>
       /\ \A i \in 1 .. Len(tokens) : tokens[i] # NULL
       /\ Cardinality({i \in 1 .. Len(tokens) : tokens[i] = "|"}) < MaxStages

VARIABLES
  host,      \* which of the two programs runs
  line,      \* exec()'s tokens
  t_count,   \* the tokens parsed
  from,      \* the first token of the current stage: last, or last + 1
  cmds,      \* the stages
  shell,     \* where the parent of the runner is
  stage,     \* the stage execute_pipeline() is at in the runner
  at,
  stdin,     \* file descriptors 0 and 1 of each process
  stdout,
  other,     \* the ends of pipes held by its other descriptors
  kind,      \* what each process executes
  buffered   \* how full each pipe is

parsing == <<t_count, from, cmds>>
fds     == <<stdin, stdout, other>>
vars    == <<host, line, parsing, shell, stage, at, fds, kind, buffered>>

Terminal   == <<"tty", 0>>
Closed     == <<"closed", 0>>
ReadEnd(k)  == <<"r", k>>
WriteEnd(k) == <<"w", k>>
File(k)    == <<"file", k>>

Ends  == {ReadEnd(k) : k \in 1 .. MaxStages} \cup {WriteEnd(k) : k \in 1 .. MaxStages}
Kinds == {"none", "filter", "brief", "endless", "shell"}

(* One element of cmds. *)
command_line(tokens, stdout_pipe, stdout_file) ==
  [tokens |-> tokens, stdout_pipe |-> stdout_pipe, stdout_file |-> stdout_file]

(* The tokens of the lines and the names leetify uses. *)
Words ==
  {"cat", "tr", "sed", "file", NULL}
    \cup UNION {{tokens[i] : i \in 1 .. Len(tokens)} : tokens \in Lines}

command_lines == [tokens : Seq(Words), stdout_pipe : BOOLEAN, stdout_file : Words]

TypeOK ==
  /\ host \in {"shell", "leetify"}
  /\ line \in Lines \cup {<< >>}
  /\ t_count \in 0 .. Len(line)
  /\ from \in 1 .. Len(line) + 1
  /\ cmds \in Seq(command_lines)
  /\ \A k \in 1 .. Len(cmds) :
       \A i \in 1 .. Len(cmds[k].tokens) : cmds[k].tokens[i] \notin {"|", ">", NULL}
  /\ shell \in {"parse", "exec", "wait", "prompt"}
  /\ stage \in 1 .. MaxStages
  /\ at \in [Procs -> {"none", "stage", "fork", "parent", "child", "exec", "run", "full", "ended"}]
  /\ stdin \in [Procs -> {Terminal, Closed} \cup Ends]
  /\ stdout \in [Procs -> {Terminal} \cup {File(k) : k \in 1 .. MaxStages} \cup Ends]
  /\ other \in [Procs -> SUBSET Ends]
  /\ kind \in [Procs -> Kinds]
  /\ buffered \in [1 .. MaxStages -> 0 .. Capacity]

-----------------------------------------------------------------------------
(***************************************************************************)
(* exec(): one iteration of its parsing loop per token.                    *)
(***************************************************************************)

(* Mutant of cut: the separator is copied with the stage before it. *)
cut_inclusive(t) ==
  IF line[t] = "|" THEN <<command_line(SubSeq(line, from, t), TRUE, NULL)>> ELSE << >>

(* The stage that token t ends, if it is a separator. *)
cut(t) ==
  CASE line[t] = "|" -> <<command_line(SubSeq(line, from, t - 1), TRUE, NULL)>>
    [] line[t] = ">" -> <<command_line(SubSeq(line, from, t - 1), FALSE,
                                       IF t < Len(line) THEN line[t + 1] ELSE NULL)>>
    [] OTHER         -> << >>

(* The stage added after the last token t: what follows the last separator,*)
(* which may be nothing.                                                   *)
end_stage(t) == IF t = Len(line) THEN <<command_line(SubSeq(line, from', t), FALSE, NULL)>>
                                 ELSE << >>

parse ==
  LET t == t_count + 1 IN
  /\ shell = "parse"
  /\ t <= Len(line)
  /\ t_count' = t
  /\ from' = IF line[t] \in {"|", ">"} THEN t + 1 ELSE from
  /\ cmds' = cmds \o cut(t) \o end_stage(t)
  /\ shell' = IF t = Len(line) THEN "exec" ELSE "parse"
  /\ UNCHANGED <<host, line, stage, at, fds, kind, buffered>>

(* main() of leetify: cat, tr and sed, with or without an output file. *)
leetify_cmds(output_file) ==
  <<command_line(<<"cat">>, TRUE, NULL),
    command_line(<<"tr">>, TRUE, NULL),
    command_line(<<"sed">>, FALSE, output_file)>>

(* Process p goes to point x. *)
GoTo(p, x) == at' = [at EXCEPT ![p] = x]

(* fork() in exec() and in leetify's main(), and what follows if it fails. *)
fork_runner ==
  /\ shell = "exec"
  /\ \/ shell' = "wait" /\ GoTo(0, "stage")
     \/ shell' = "prompt" /\ UNCHANGED at
  /\ UNCHANGED <<host, line, parsing, stage, fds, kind, buffered>>

(* waitpid(): the runner, and only the runner, has ended. *)
waitpid ==
  /\ shell = "wait"
  /\ at[0] = "ended"
  /\ shell' = "prompt"
  /\ UNCHANGED <<host, line, parsing, stage, at, fds, kind, buffered>>

-----------------------------------------------------------------------------
(***************************************************************************)
(* execute_pipeline().                                                     *)
(***************************************************************************)

Stage(p) == IF p = 0 THEN stage ELSE p

(* execute_pipeline() returns in process p: leetify's main() ends, the     *)
(* shell's loop goes on with the standard input the process has by now.    *)
Return(p) ==
  /\ GoTo(p, IF host = "shell" THEN "run" ELSE "ended")
  /\ kind' = [kind EXCEPT ![p] = "shell"]

(* pipe() for a stage that is not the last. *)
make_pipe ==
  /\ at[0] = "stage"
  /\ cmds[stage].stdout_pipe
  /\ \/ /\ GoTo(0, "fork")
        /\ other' = [other EXCEPT ![0] = @ \cup {ReadEnd(stage), WriteEnd(stage)}]
        /\ UNCHANGED kind
     \/ Return(0) /\ UNCHANGED other
  /\ UNCHANGED <<host, line, parsing, shell, stage, stdin, stdout, buffered>>

(* fork(): the child inherits every descriptor of the runner. *)
fork_stage ==
  /\ at[0] = "fork"
  /\ \/ /\ at' = [at EXCEPT ![0] = "parent", ![stage] = "child"]
        /\ stdin' = [stdin EXCEPT ![stage] = stdin[0]]
        /\ stdout' = [stdout EXCEPT ![stage] = stdout[0]]
        /\ other' = [other EXCEPT ![stage] = other[0]]
        /\ UNCHANGED kind
     \/ Return(0) /\ UNCHANGED fds
  /\ UNCHANGED <<host, line, parsing, shell, stage, buffered>>

(* Mutant of child: the child does not close the read end of its own pipe. *)
child_keeps_end(p) ==
  /\ at[p] = "child"
  /\ GoTo(p, "exec")
  /\ stdout' = [stdout EXCEPT ![p] = WriteEnd(p)]
  /\ UNCHANGED <<host, line, parsing, shell, stage, stdin, other, kind, buffered>>

(* The child: dup2() to stdout and close() of the read end; the write end  *)
(* and the read ends of earlier pipes stay open.                           *)
child(p) ==
  /\ at[p] = "child"
  /\ GoTo(p, "exec")
  /\ stdout' = [stdout EXCEPT ![p] = WriteEnd(p)]
  /\ other' = [other EXCEPT ![p] = @ \ {ReadEnd(p)}]
  /\ UNCHANGED <<host, line, parsing, shell, stage, stdin, kind, buffered>>

(* Mutant of parent: the runner keeps the write end. *)
parent_keeps_end ==
  /\ at[0] = "parent"
  /\ GoTo(0, "stage")
  /\ stdin' = [stdin EXCEPT ![0] = ReadEnd(stage)]
  /\ stage' = stage + 1
  /\ UNCHANGED <<host, line, parsing, shell, stdout, other, kind, buffered>>

(* The runner: dup2() to stdin, close() of the write end, and the call for *)
(* the next stage; the read end stays open under its first number too.     *)
parent ==
  /\ at[0] = "parent"
  /\ GoTo(0, "stage")
  /\ stdin' = [stdin EXCEPT ![0] = ReadEnd(stage)]
  /\ other' = [other EXCEPT ![0] = @ \ {WriteEnd(stage)}]
  /\ stage' = stage + 1
  /\ UNCHANGED <<host, line, parsing, shell, stdout, kind, buffered>>

(* The last stage: open() of its file, if it has one, and dup2(). *)
redirect ==
  /\ at[0] = "stage"
  /\ ~ cmds[stage].stdout_pipe
  /\ \/ /\ GoTo(0, "exec")
        /\ stdout' = [stdout EXCEPT ![0] = IF cmds[stage].stdout_file # NULL
                                             THEN File(stage) ELSE @]
        /\ UNCHANGED kind
     \/ /\ cmds[stage].stdout_file # NULL
        /\ Return(0)
        /\ UNCHANGED stdout
  /\ UNCHANGED <<host, line, parsing, shell, stage, stdin, other, buffered>>

(* execvp() replaces the process; without a name it dies of a signal. *)
execvp(p) ==
  /\ at[p] = "exec"
  /\ IF cmds[Stage(p)].tokens = << >>
       THEN GoTo(p, "ended") /\ UNCHANGED kind
       ELSE GoTo(p, "run") /\ \E k \in {"filter", "brief", "endless"} : kind' = [kind EXCEPT ![p] = k]
  /\ UNCHANGED <<host, line, parsing, shell, stage, fds, buffered>>

(* Mutant of command_not_found: stdin is left open. *)
command_not_found_open(p) ==
  /\ at[p] = "exec"
  /\ cmds[Stage(p)].tokens # << >>
  /\ Return(p)
  /\ UNCHANGED <<host, line, parsing, shell, stage, fds, buffered>>

(* execvp() fails: the shell closes stdin, but only in the last stage. *)
command_not_found(p) ==
  /\ at[p] = "exec"
  /\ cmds[Stage(p)].tokens # << >>
  /\ Return(p)
  /\ stdin' = IF p = 0 /\ host = "shell" THEN [stdin EXCEPT ![0] = Closed] ELSE stdin
  /\ UNCHANGED <<host, line, parsing, shell, stage, stdout, other, buffered>>

-----------------------------------------------------------------------------
(***************************************************************************)
(* Programs and the kernel.  A filter reads to the end of its input, a     *)
(* brief program stops when it likes, an endless one writes until it can   *)
(* no longer; a copy of the shell behaves like a filter.                   *)
(***************************************************************************)

Alive == {p \in Procs : at[p] \notin {"none", "ended"}}

Holders(end) == {p \in Alive : end \in {stdin[p], stdout[p]} \cup other[p]}

Reads(p) == kind[p] \in {"filter", "brief", "shell"}

(* read() returns something. *)
take(p) ==
  /\ at[p] = "run"
  /\ Reads(p)
  /\ \/ stdin[p] = Terminal /\ UNCHANGED buffered
     \/ \E k \in 1 .. MaxStages :
          /\ stdin[p] = ReadEnd(k)
          /\ buffered[k] > 0
          /\ buffered' = [buffered EXCEPT ![k] = @ - 1]
  /\ GoTo(p, "full")
  /\ UNCHANGED <<host, line, parsing, shell, stage, fds, kind>>

(* write(): into the pipe if there is room, SIGPIPE if nobody can read. *)
put(p) ==
  /\ at[p] = "full" \/ (at[p] = "run" /\ kind[p] \in {"brief", "endless"})
  /\ IF \E k \in 1 .. MaxStages : stdout[p] = WriteEnd(k)
       THEN LET k == stdout[p][2] IN
            \/ /\ Holders(ReadEnd(k)) # {}
               /\ buffered[k] < Capacity
               /\ buffered' = [buffered EXCEPT ![k] = @ + 1]
               /\ GoTo(p, "run")
            \/ /\ Holders(ReadEnd(k)) = {}
               /\ GoTo(p, "ended")
               /\ UNCHANGED buffered
       ELSE GoTo(p, "run") /\ UNCHANGED buffered
  /\ UNCHANGED <<host, line, parsing, shell, stage, fds, kind>>

(* The user may end the input of the terminal. *)
AtEnd(p) ==
  \/ stdin[p] \in {Terminal, Closed}
  \/ \E k \in 1 .. MaxStages :
       stdin[p] = ReadEnd(k) /\ buffered[k] = 0 /\ Holders(WriteEnd(k)) = {}

leave(p) ==
  /\ at[p] = "run"
  /\ kind[p] = "brief" \/ (Reads(p) /\ AtEnd(p))
  /\ GoTo(p, "ended")
  /\ UNCHANGED <<host, line, parsing, shell, stage, fds, kind, buffered>>

-----------------------------------------------------------------------------

Init ==
  /\ \/ /\ host = "shell"
        /\ line \in Lines
        /\ cmds = << >>
        /\ shell = "parse"
     \/ /\ host = "leetify"
        /\ line = << >>
        /\ \E output_file \in {NULL, "file"} : cmds = leetify_cmds(output_file)
        /\ shell = "exec"
  /\ t_count = 0
  /\ from = 1
  /\ stage = 1
  /\ at = [p \in Procs |-> "none"]
  /\ stdin = [p \in Procs |-> Terminal]
  /\ stdout = [p \in Procs |-> Terminal]
  /\ other = [p \in Procs |-> {}]
  /\ kind = [p \in Procs |-> "none"]
  /\ buffered = [k \in 1 .. MaxStages |-> 0]

Parent == parse \/ fork_runner \/ waitpid

Setup(p) ==
  \/ p = 0 /\ (make_pipe \/ fork_stage \/ parent \/ redirect)
  \/ child(p)
  \/ execvp(p)
  \/ command_not_found(p)

Program(p) == take(p) \/ put(p)

(* The next line is read once everything has ended. *)
finished ==
  /\ shell = "prompt"
  /\ Alive = {}
  /\ UNCHANGED vars

Next ==
  \/ Parent
  \/ \E p \in Procs : Setup(p) \/ Program(p) \/ leave(p)
  \/ finished

(* Every process is scheduled; a program that reads the terminal for ever  *)
(* is given its end, a brief one stops at last.                            *)
Fairness ==
  /\ WF_vars(Parent)
  /\ \A p \in Procs : WF_vars(Setup(p)) /\ WF_vars(Program(p)) /\ SF_vars(leave(p))

Spec     == Init /\ [][Next]_vars
FairSpec == Spec /\ Fairness

-----------------------------------------------------------------------------
(***************************************************************************)
(* Properties.                                                             *)
(***************************************************************************)

Bars  == {i \in 1 .. Len(line) : line[i] = "|"}
Marks == {i \in 1 .. Len(line) : line[i] = ">"}

(* The line redirects nothing, or its last stage to the file it ends with. *)
WellFormed ==
  Marks = {} \/ (Marks = {Len(line) - 1} /\ \A b \in Bars : b < Len(line) - 1)

(* The words between two bars, as the user means them. *)
Meant(k) ==
  LET mine == {i \in 1 .. Len(line) : /\ line[i] # "|"
                                      /\ Cardinality({b \in Bars : b < i}) = k - 1
                                      /\ \A m \in Marks : i < m}
  IN  [n \in 1 .. Cardinality(mine) |->
         line[CHOOSE i \in mine : Cardinality({j \in mine : j <= i}) = n]]

(* A program that runs is the stage of the line it should be, reads the    *)
(* pipe of the stage before and writes to its own pipe, the file named or  *)
(* the terminal, however the processes were interleaved; and it holds the  *)
(* write end of no other pipe, which would keep that pipe from ending      *)
(* (shell.c:330-421, 535-543).                                             *)
Plumbed ==
  \A p \in Procs :
    at[p] \in {"run", "full"} /\ kind[p] # "shell" =>
      LET k == Stage(p) IN
      /\ stdin[p] = IF k = 1 THEN Terminal ELSE ReadEnd(k - 1)
      /\ stdout[p] = IF p # 0 THEN WriteEnd(k)
                     ELSE IF cmds[k].stdout_file # NULL THEN File(k) ELSE Terminal
      /\ \A j \in 1 .. MaxStages : WriteEnd(j) \in other[p] => j = k
      /\ host = "shell" /\ WellFormed =>
           /\ cmds[k].tokens = Meant(k)
           /\ p = 0 => /\ k = Cardinality(Bars) + 1
                       /\ cmds[k].stdout_file = IF Marks = {} THEN NULL ELSE line[Len(line)]

(* A second shell that reads what the user types appears in two cases      *)
(* only: the first of several stages could not be executed, or the runner  *)
(* failed before its first pipe was connected, and then the shell itself   *)
(* still waits.  A last command that is not found never causes one         *)
(* (shell.c:503-520, 535-538).                                             *)
OneShell ==
  \A p \in Alive :
    kind[p] = "shell" /\ stdin[p] = Terminal =>
      \/ p = 1 /\ cmds[1].stdout_pipe
      \/ p = 0 /\ shell = "wait" /\ (cmds[1].stdout_pipe \/ cmds[1].stdout_file # NULL)

(* A program writes for ever and all stages after it read to the end. *)
Runaway ==
  \E p \in Alive :
    /\ kind[p] = "endless"
    /\ \A q \in Procs : at[q] # "none" /\ Stage(q) > Stage(p) => kind[q] \in {"filter", "shell"}

(* A pipeline ends: every stage, however many read ends it was left with,  *)
(* sees the end of its input or the loss of its readers, the shell's wait  *)
(* returns and no process is left behind, unless a program that never      *)
(* stops feeds stages that read everything (shell.c:500-545).              *)
PipelineEnds ==
  shell = "wait" ~> ((shell = "prompt" /\ Alive = {}) \/ Runaway)
=============================================================================
