------------------------------- MODULE History -------------------------------
(***************************************************************************)
(* The command history of the shell: the ring of Project2/history.c and    *)
(* the lines of Project2/shell.c's main loop that store, list and recall   *)
(* commands.                                                               *)
(*                                                                         *)
(* A line is an ordinary command, a comment (it starts with '#'), blank, or *)
(* one of "!!", "!number" and "!prefix".  Lines are model values; Matches  *)
(* says which prefix starts which line, Background which lines end in "&". *)
(* Blank lines change nothing and are left out.  Lines fit the 8-byte      *)
(* buffer main() copies a recalled command to.                             *)
(***************************************************************************)
EXTENDS Integers, Sequences

CONSTANTS
  max,         \* slots of the ring (100)
  Commands,    \* ordinary lines; each runs a program or a built-in
  Background,  \* the ordinary lines whose last token is "&"
  Comments,    \* lines that start with '#'
  Prefixes,    \* what may follow "!" other than a number or "!"
  Matches,     \* pairs <<prefix, line>>
  Empty,       \* the empty string
  Garbage,     \* the text an uninitialized buffer happens to hold
  MaxCommands  \* bound on the number of commands stored

Entry == Commands \cup Comments \cup {Empty, Garbage}

ASSUME RingAssumption    == max \in Nat \ {0} /\ MaxCommands \in Nat
ASSUME BackgroundAssumption == Background \subseteq Commands
ASSUME MatchesAssumption == Matches \subseteq Prefixes \X Entry

VARIABLES
  history,    \* the ring
  minimum,    \* the least command number still in the ring
  cmd_count,  \* commands stored so far (history.c)
  tail,       \* the slot of the newest command
  num_cmds,   \* commands read so far (shell.c)
  number,     \* the number of the line read last if it is a "!number"
  issued,     \* every line given to add_history, oldest first
  ran,        \* the line whose tokens were executed last, and how
  status      \* "running", "exited", or "fault" after a NULL dereference

vars == <<history, minimum, cmd_count, tail, num_cmds, number, issued, ran, status>>

Slots == 0 .. max - 1

(* The line read last is not a "!number". *)
NoNumber == -1

(* What exec() is given: the tokens of a line, isBackground, and whether   *)
(* "&" is still among the tokens.                                          *)
Run == [line : Entry, background : BOOLEAN, ampersand : BOOLEAN]

TypeOK ==
  /\ history \in [Slots -> Entry]
  /\ minimum \in Nat
  /\ cmd_count \in Nat
  /\ tail \in Slots
  /\ num_cmds \in Nat
  /\ number \in Int
  /\ issued \in Seq(Entry)
  /\ ran \in Run
  /\ status \in {"running", "exited", "fault"}

-----------------------------------------------------------------------------
(***************************************************************************)
(* history.c.                                                              *)
(***************************************************************************)

(* Mutant of minimum_after: the ring is taken to be full one command late. *)
minimum_after_late == IF cmd_count > max THEN minimum + 1 ELSE minimum

(* minimum after add_history() has counted a command. *)
minimum_after == IF cmd_count + 1 > max THEN minimum + 1 ELSE minimum

(* Mutant of add_history: tail is one slot ahead. *)
add_history_tail(line) ==
  /\ tail' = (cmd_count + 1) % max
  /\ history' = [history EXCEPT ![cmd_count % max] = line]
  /\ cmd_count' = cmd_count + 1
  /\ minimum' = minimum_after
  /\ issued' = Append(issued, line)

(* Mutant of add_history: tail is the count itself, not a slot. *)
add_history_unwrapped(line) ==
  /\ tail' = cmd_count
  /\ history' = [history EXCEPT ![cmd_count % max] = line]
  /\ cmd_count' = cmd_count + 1
  /\ minimum' = minimum_after
  /\ issued' = Append(issued, line)

(* The line goes to the slot of its number; issued records it for ever. *)
add_history(line) ==
  /\ tail' = cmd_count % max
  /\ history' = [history EXCEPT ![cmd_count % max] = line]
  /\ cmd_count' = cmd_count + 1
  /\ minimum' = minimum_after
  /\ issued' = Append(issued, line)

(* The numbers get_cmd() answers: cmd_count is the number of no command.   *)
Known(num) == num >= minimum /\ num <= cmd_count

get_cmd(num) == history[num % max]

(* The number at which find_cmd()'s scan from the newest command stops,    *)
(* if it does.                                                             *)
Found(prefix) ==
  {i \in minimum .. cmd_count - 1 :
     /\ <<prefix, get_cmd(i)>> \in Matches
     /\ \A j \in i + 1 .. cmd_count - 1 : <<prefix, get_cmd(j)>> \notin Matches}

(* The numbered lines print_history() prints. *)
print_history ==
  {<<k + cmd_count - max, history[(tail + 1 + k) % max]>> :
     k \in {j \in Slots : history[(tail + 1 + j) % max] # Empty}}

-----------------------------------------------------------------------------
(***************************************************************************)
(* main().                                                                 *)
(***************************************************************************)

Reading == status = "running" /\ cmd_count < MaxCommands

(* A line that was typed: isBackground says whether it ends in "&", which  *)
(* is taken from its tokens.                                               *)
Typed(line) == [line |-> line, background |-> line \in Background, ampersand |-> FALSE]

(* A line that was recalled: isBackground was set from the "!" line before *)
(* the tokens were replaced, and an "&" of the recalled line stays.        *)
Recalled(line, amp) ==
  [line |-> line, background |-> amp, ampersand |-> line \in Background]

(* The line is counted, stored and executed. *)
execute(line, how) ==
  /\ num_cmds' = num_cmds + 1
  /\ add_history(line)
  /\ ran' = how
  /\ UNCHANGED status

(* An ordinary line. *)
command(line) ==
  /\ Reading
  /\ number' = NoNumber
  /\ execute(line, Typed(line))

(* Mutant of comment: main() does not count the line. *)
comment_uncounted(line) ==
  /\ Reading
  /\ number' = NoNumber
  /\ add_history(line)
  /\ UNCHANGED <<num_cmds, ran, status>>

(* tokenizer() stores and counts a comment; without tokens main() goes on  *)
(* to the next line.                                                       *)
comment(line) ==
  /\ Reading
  /\ number' = NoNumber
  /\ num_cmds' = num_cmds + 1
  /\ add_history(line)
  /\ UNCHANGED <<ran, status>>

(* A NULL pointer is used.  Nothing of the program's memory remains. *)
crash ==
  /\ status' = "fault"
  /\ UNCHANGED <<history, minimum, cmd_count, tail, num_cmds, issued, ran>>

(* A line that is only "&": tokens[0] is overwritten with NULL, which the  *)
(* test for "!" then dereferences.                                         *)
ampersand_only == Reading /\ number' = NoNumber /\ crash

(* The recalled line replaces the tokens and is stored again; a comment or *)
(* an empty one leaves tokens[0] NULL, which strcmp() is then given.       *)
recall(line, amp) ==
  IF line \in Comments \cup {Empty}
    THEN crash
    ELSE execute(line, Recalled(line, amp))

(* "!!": get_cmd(num_cmds - 2) after num_cmds was incremented; strcpy()    *)
(* takes the result before the test for NULL.  amp: the line is "!! &".    *)
bang_last(amp) ==
  /\ Reading
  /\ number' = NoNumber
  /\ IF Known(num_cmds - 1) THEN recall(get_cmd(num_cmds - 1), amp) ELSE crash

(* A command that is not found: the buffer, still uninitialized, is stored *)
(* and the "!" line itself is executed, which no program answers to.       *)
not_found(amp) ==
  /\ \E line \in Entry : add_history(line)
  /\ num_cmds' = num_cmds + 1
  /\ ran' = [line |-> Empty, background |-> amp, ampersand |-> FALSE]
  /\ UNCHANGED status

(* "!number". *)
bang_number(num, amp) ==
  /\ Reading
  /\ number' = num
  /\ IF Known(num) THEN recall(get_cmd(num), amp) ELSE not_found(amp)

(* "!prefix". *)
bang_prefix(prefix, amp) ==
  /\ Reading
  /\ number' = NoNumber
  /\ \/ \E i \in Found(prefix) : recall(get_cmd(i), amp)
     \/ Found(prefix) = {} /\ not_found(amp)

(* "exit", which is stored like any command, or the end of the input. *)
leave ==
  /\ status = "running"
  /\ status' = "exited"
  /\ UNCHANGED <<history, minimum, cmd_count, tail, num_cmds, number, issued, ran>>

Init ==
  /\ history = [s \in Slots |-> Empty]
  /\ minimum = 0
  /\ cmd_count = 0
  /\ tail = 0
  /\ num_cmds = 0
  /\ number = NoNumber
  /\ issued = << >>
  /\ ran = Typed(Empty)
  /\ status = "running"

Next ==
  \/ \E amp \in BOOLEAN :
       \/ bang_last(amp)
       \/ \E num \in 0 .. MaxCommands : bang_number(num, amp)
       \/ \E prefix \in Prefixes : bang_prefix(prefix, amp)
  \/ \E line \in Commands : command(line)
  \/ \E line \in Comments : comment(line)
  \/ ampersand_only
  \/ leave

Spec == Init /\ [][Next]_vars

-----------------------------------------------------------------------------
(***************************************************************************)
(* Properties.                                                             *)
(***************************************************************************)

(* The ring loses no command too early and keeps none too long: the last   *)
(* max commands, all of them, are found under their numbers, before, at    *)
(* and after the wrap (history.c:34-43).                                   *)
Retained ==
  /\ cmd_count = Len(issued)
  /\ minimum = IF cmd_count < max THEN 0 ELSE cmd_count - max
  /\ \A num \in minimum .. cmd_count - 1 : get_cmd(num) = issued[num + 1]

(* history lists the last max commands under the numbers "!number" takes   *)
(* (history.c:17-28): tail and cmd_count, kept apart, never disagree.      *)
ListingExact ==
  print_history =
    {<<num, issued[num + 1]>> :
       num \in {n \in 0 .. cmd_count - 1 : n >= cmd_count - max /\ issued[n + 1] # Empty}}

(* The numbers of the commands that are left in the ring. *)
Left == {n \in 0 .. cmd_count - 1 : n >= cmd_count - max}

(* Command n is executed and stored again.  One that was not a background  *)
(* line runs in the background exactly if the recall says so; for the      *)
(* others see RecallsAsDocumented.                                         *)
Again(n, amp) ==
  LET line == issued[n + 1] IN
  /\ ran'.line = line
  /\ line \notin Background => ran' = [line |-> line, background |-> amp, ampersand |-> FALSE]
  /\ issued' = Append(issued, line)

(* The command "!number" executes again, or nothing.  The number of the    *)
(* next command is left to RecallsAsDocumented.                            *)
AgainNumber(num, amp) ==
  /\ num \in Left => Again(num, amp)
  /\ num \notin Left \cup {cmd_count} => ran'.line = Empty

(* The newest match "!prefix" executes again, or nothing. *)
AgainPrefix(prefix, amp) ==
  LET matching == {n \in Left : <<prefix, issued[n + 1]>> \in Matches} IN
  IF matching = {} THEN ran'.line = Empty
  ELSE Again(CHOOSE n \in matching : \A k \in matching : k <= n, amp)

(* What a step of the shell that survives it recalls. *)
RecallStep ==
  status' = "running" =>
    \A amp \in BOOLEAN :
      /\ bang_last(amp) => Again(Len(issued) - 1, amp)
      /\ \A num \in 0 .. MaxCommands : bang_number(num, amp) => AgainNumber(num, amp)
      /\ \A prefix \in Prefixes : bang_prefix(prefix, amp) => AgainPrefix(prefix, amp)

(* What a recall executes and stores, if the shell survives it.  "!!" is    *)
(* the line before it, which it finds with the counter of shell.c in the   *)
(* ring of history.c: comments and failed recalls must advance both.       *)
(* "!number" is the command of that number if it is left in the ring, and  *)
(* nothing if it is not.  "!prefix" is the newest match of all that are    *)
(* left (shell.c:145-190, 459; history.c:50-83).                           *)
Recalls == [][RecallStep]_vars

-----------------------------------------------------------------------------
(***************************************************************************)
(* What Project2/README.md promises and the code does not do.              *)
(***************************************************************************)

(* What a recall that the shell survives executes.  "!number Executes the  *)
(* command from the command history that corresponds to the number given"  *)
(* (README.md:19): a number no command has executes none.  "!! Will run    *)
(* the previous command again" (README.md:20): the way it was run when it  *)
(* was typed.                                                              *)
RecallsAsDocumented ==
  [][status' = "running" =>
       /\ number' # NoNumber /\ number' \notin Left => ran'.line = Empty
       /\ bang_last(FALSE) => ran' = Typed(issued[Len(issued)])]_vars
=============================================================================
