----------------------------- MODULE Inspector -----------------------------
(***************************************************************************)
(* The task list of Project1/inspector.c: one row per process directory of *)
(* /proc.  The status file of a process is opened and read four times, for *)
(* its columns tasks, name, state and user, into variables that live       *)
(* longer than the row; the processes come and go meanwhile.               *)
(*                                                                         *)
(* A process is a number of its own, never used again, while a pid may be  *)
(* given to another process.  A column holds the process it was read from, *)
(* 0 before it was ever read.  The state column holds the letter read or,  *)
(* once a row was printed, the word it was replaced by; process 0 stands   *)
(* for "unknown".  /proc is external: readdir() returns the pids in use in *)
(* rising order, and read() fails when the process behind the file is      *)
(* gone, which leaves a buffer that getNextTok() has cut up already and    *)
(* makes it dereference NULL: pc is then "crash".                          *)
(***************************************************************************)
EXTENDS Integers, Sequences

CONSTANTS
  MaxPid,      \* bound on pids
  MaxProcess,  \* bound on the processes that ever exist
  Odd          \* processes whose state letter is none of the six known

Pids      == 1 .. MaxPid
Processes == 1 .. MaxProcess

ASSUME InspectorAssumption ==
  /\ MaxPid \in Nat \ {0}
  /\ MaxProcess \in Nat \ {0}
  /\ Odd \subseteq Processes

VARIABLES
  table,     \* the process each pid belongs to, 0 if none
  born,      \* how many processes were created
  pc,        \* "readdir", "open", "read", "print", "done" or "crash"
  pid,       \* the directory entry the row is about
  column,    \* the position of the next column
  file,      \* the process behind the open status file, 0 if none
  value,     \* the variables tasks, name, state and user
  letter,    \* state holds a letter and not a word
  row,       \* the row printed last
  previous,  \* value when the row was begun
  owners     \* the processes pid belonged to since, 0 if none for a while

vars   == <<table, born, pc, pid, column, file, value, letter, row, previous, owners>>
kernel == <<table, born>>

Columns == {"tasks", "name", "state", "user"}
Order   == <<"tasks", "name", "state", "user">>
NoRow   == [c \in Columns \cup {"pid"} |-> 0]

Read0 == Processes \cup {0}

TypeOK ==
  /\ table \in [Pids -> Read0]
  /\ born \in 0 .. MaxProcess
  /\ pc \in {"readdir", "open", "read", "print", "done", "crash"}
  /\ pid \in 0 .. MaxPid
  /\ column \in 1 .. Len(Order)
  /\ file \in Read0
  /\ pc = "read" => file # 0
  /\ value \in [Columns -> Read0]
  /\ letter \in BOOLEAN
  /\ row \in [Columns \cup {"pid"} -> Nat]
  /\ previous \in [Columns -> Read0]
  /\ owners \subseteq Read0

-----------------------------------------------------------------------------
(***************************************************************************)
(* The loop over the entries of /proc.                                     *)
(***************************************************************************)

(* readdir(): the next process directory, or none. *)
readdir ==
  LET later == {p \in Pids : p > pid /\ table[p] # 0} IN
  /\ pc = "readdir"
  /\ \/ later = {} /\ pc' = "done" /\ UNCHANGED <<pid, owners>>
     \/ \E p \in later :
          /\ \A q \in later : p <= q
          /\ pid' = p
          /\ owners' = {table[p]}
          /\ pc' = "open"
  /\ column' = 1
  /\ previous' = value
  /\ UNCHANGED <<kernel, file, value, letter, row>>

(* What follows the current column. *)
NextColumn ==
  IF column < Len(Order) THEN pc' = "open" /\ column' = column + 1
                         ELSE pc' = "print" /\ UNCHANGED column

(* Mutant of open: the result is not tested. *)
open_untested ==
  /\ pc = "open"
  /\ file' = table[pid]
  /\ pc' = "read"
  /\ UNCHANGED <<kernel, pid, column, value, letter, row, previous, owners>>

(* open() of the status file; a column whose file is gone is skipped. *)
open ==
  /\ pc = "open"
  /\ file' = table[pid]
  /\ IF file' # 0 THEN pc' = "read" /\ UNCHANGED column ELSE NextColumn
  /\ UNCHANGED <<kernel, pid, value, letter, row, previous, owners>>

(* getNextTok() finds the field if read() has filled the buffer; otherwise *)
(* next_token() returns NULL before the field, or for it.                  *)
getNextTok_finds == table[pid] = file

(* getUser() uses the result of getpwuid() although there may be no such   *)
(* user.                                                                   *)
getUser_fails == Order[column] = "user"

(* read() and what is made of the buffer. *)
read ==
  /\ pc = "read"
  /\ file' = 0
  /\ \/ /\ getNextTok_finds
        /\ value' = [value EXCEPT ![Order[column]] = file]
        /\ letter' = (letter \/ Order[column] = "state")
        /\ NextColumn
     \/ /\ ~ getNextTok_finds \/ getUser_fails
        /\ pc' = "crash"
        /\ UNCHANGED <<value, letter, column>>
  /\ UNCHANGED <<kernel, pid, row, previous, owners>>

(* Mutant of word: there is no last else. *)
word_kept == value["state"]

(* The word that replaces the letter: also a word is "unknown". *)
word == IF letter /\ value["state"] \notin Odd THEN value["state"] ELSE 0

(* The conversion of the state and the line printed. *)
print ==
  /\ pc = "print"
  /\ value' = [value EXCEPT !["state"] = word]
  /\ letter' = FALSE
  /\ row' = [c \in Columns \cup {"pid"} |-> IF c = "pid" THEN pid ELSE value'[c]]
  /\ pc' = "readdir"
  /\ UNCHANGED <<kernel, pid, column, file, previous, owners>>

-----------------------------------------------------------------------------
(***************************************************************************)
(* The kernel.                                                             *)
(***************************************************************************)

Changed(p, process) ==
  /\ table' = [table EXCEPT ![p] = process]
  /\ owners' = IF p = pid /\ pc \in {"open", "read", "print"} THEN owners \cup {process} ELSE owners
  /\ UNCHANGED <<pc, pid, column, file, value, letter, row, previous>>

(* A process is created under a pid that is free. *)
create(p) ==
  /\ table[p] = 0
  /\ born < MaxProcess
  /\ born' = born + 1
  /\ Changed(p, born')

(* The process with pid p is gone. *)
vanish(p) ==
  /\ table[p] # 0
  /\ Changed(p, 0)
  /\ UNCHANGED born

Init ==
  /\ table = [p \in Pids |-> 0]
  /\ born = 0
  /\ pc = "readdir"
  /\ pid = 0
  /\ column = 1
  /\ file = 0
  /\ value = [c \in Columns |-> 0]
  /\ letter = FALSE
  /\ row = NoRow
  /\ previous = value
  /\ owners = {}

(* The program has printed its list, or is gone. *)
finished == pc \in {"done", "crash"} /\ UNCHANGED vars

Next ==
  \/ readdir \/ open \/ read \/ print \/ finished
  \/ \E p \in Pids : create(p) \/ vanish(p)

Spec == Init /\ [][Next]_vars

-----------------------------------------------------------------------------
(***************************************************************************)
(* Properties.                                                             *)
(***************************************************************************)

(* A row whose process stayed shows its own columns, all four.  One whose  *)
(* process left, or gave its pid to another while the row was read, shows  *)
(* in each column what a process with that pid had or, if there was a      *)
(* moment without one, what the row before it showed; but its state is     *)
(* never another process's, only "unknown" (inspector.c:567-636).          *)
RowsRight ==
  pc = "readdir" /\ row # NoRow =>
    /\ row["state"] \in owners \cup {0}
    /\ \A c \in {"tasks", "name", "user"} :
         row[c] \in owners \ {0} \/ (0 \in owners /\ row[c] = previous[c])
    /\ \A p \in Processes :
         owners = {p} =>
           /\ row["tasks"] = p /\ row["name"] = p /\ row["user"] = p
           /\ row["state"] = IF p \in Odd THEN 0 ELSE p
=============================================================================
