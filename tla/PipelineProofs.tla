--------------------------- MODULE PipelineProofs ---------------------------
(***************************************************************************)
(* Pipelines, proved for any lines, any number of stages and pipes of any  *)
(* capacity: what exec() cuts a line into is what the user means, and each *)
(* process is connected as its stage asks, whatever fails on the way.      *)
(***************************************************************************)
EXTENDS Pipeline, FiniteSetTheorems, SequenceTheorems, TLAPS

(* The stages of c that write into a pipe. *)
PipesOf(c) == {k \in 1 .. Len(c) : c[k].stdout_pipe}

Pipes == PipesOf(cmds)

(* The bars among the first t tokens. *)
BarsUpTo(t) == {b \in Bars : b <= t}

-----------------------------------------------------------------------------
(***************************************************************************)
(* What the parsing loop has found out.                                    *)
(***************************************************************************)

(* words are the tokens s to e of the line: they lie between two           *)
(* separators or ends of the line, and k - 1 bars precede them.            *)
Segment(words, k, s, e) ==
  /\ s <= e + 1
  /\ words = SubSeq(line, s, e)
  /\ \A i \in s .. e : line[i] \notin {"|", ">"}
  /\ s = 1 \/ line[s - 1] = "|"
  /\ e = Len(line) \/ line[e + 1] \in {"|", ">"}
  /\ Cardinality({b \in Bars : b < s}) = k - 1

(* words is stage k. *)
Cut(words, k) ==
  \E s \in 1 .. Len(line) + 1, e \in 0 .. Len(line) : Segment(words, k, s, e)

(* The line was cut into the stages it should be: one more than it has     *)
(* bars, only the last without a pipe, and that one with the file named.   *)
CutRight ==
  /\ Cardinality(Bars) + 1 <= Len(cmds)
  /\ Pipes = 1 .. Cardinality(Bars)
  /\ \A k \in 1 .. Cardinality(Bars) + 1 : Cut(cmds[k].tokens, k)
  /\ cmds[Cardinality(Bars) + 1].stdout_file = IF Marks = {} THEN NULL ELSE line[Len(line)]

(* Any line: at most one pipe per bar, and an end without one. *)
Parsed ==
  /\ shell = "parse" =>
       /\ host = "shell" /\ line \in Lines /\ t_count < Len(line) /\ from <= t_count + 1
       /\ \A i \in from .. t_count : line[i] \notin {"|", ">"}
       /\ Cardinality(Pipes) = Cardinality(BarsUpTo(t_count))
  /\ shell # "parse" =>
       Len(cmds) >= 1 /\ Len(cmds) \notin Pipes /\ Cardinality(Pipes) < MaxStages

(* A well-formed line: before its redirection every bar has cut a stage,   *)
(* with its redirection or its last token it is cut.                       *)
ParsedRight ==
  host = "shell" /\ WellFormed =>
    \/ /\ shell = "parse"
       /\ \A m \in Marks : t_count < m
       /\ from = 1 \/ line[from - 1] = "|"
       /\ Len(cmds) = Cardinality(BarsUpTo(t_count))
       /\ Pipes = 1 .. Len(cmds)
       /\ \A k \in 1 .. Len(cmds) : Cut(cmds[k].tokens, k)
    \/ /\ shell = "parse" => Marks = {t_count}
       /\ CutRight

-----------------------------------------------------------------------------
(***************************************************************************)
(* How the processes are connected.                                        *)
(***************************************************************************)

(* The runner has not returned from execute_pipeline(). *)
Runner == {"stage", "fork", "parent", "exec"}

(* Process p is at execvp() or is the program of its stage. *)
Executes(p) == at[p] = "exec" \/ (at[p] \in {"run", "full"} /\ kind[p] # "shell")

(* Process p reads the pipe of the stage before its own. *)
ReadsStage(p) == stdin[p] = IF Stage(p) = 1 THEN Terminal ELSE ReadEnd(Stage(p) - 1)

(* Where the shell, the runner and the children may be.  All stages before *)
(* the runner's have pipes, and only their children exist.                 *)
Placed ==
  /\ shell \in {"parse", "exec"} => at[0] = "none"
  /\ at[0] \notin {"none", "ended"} => shell = "wait"
  /\ at[0] = "none" => stage = 1
  /\ 1 .. stage - 1 \subseteq Pipes
  /\ at[0] \in {"fork", "parent"} => stage \in Pipes
  /\ at[0] # "child"
  /\ \A p \in Procs \ {0} :
       /\ at[p] \in {"none", "child", "exec", "run", "full", "ended"}
       /\ at[p] # "none" => p < stage \/ (p = stage /\ at[0] = "parent")

(* The descriptors of the runner.  One that returned with the terminal for *)
(* its input failed at a pipe or a file.                                   *)
RunnerWired ==
  /\ at[0] \in {"none"} \cup Runner => kind[0] # "shell"
  /\ at[0] \in {"none"} \cup Runner \/ Executes(0) => ReadsStage(0)
  /\ at[0] \in {"none", "stage", "fork", "parent"} => stdout[0] = Terminal
  /\ Executes(0) =>
       /\ stage \notin Pipes
       /\ stdout[0] = IF cmds[stage].stdout_file # NULL THEN File(stage) ELSE Terminal
  /\ at[0] \in {"run", "full"} /\ kind[0] = "shell" =>
       \/ stdin[0] = Closed
       \/ ReadsStage(0) /\ (stage \in Pipes \/ cmds[stage].stdout_file # NULL)
  /\ \A j \in 1 .. MaxStages : WriteEnd(j) \in other[0] => j = stage

(* The descriptors of a child. *)
ChildWired(p) ==
  at[p] # "none" =>
    /\ ReadsStage(p)
    /\ Executes(p) => stdout[p] = WriteEnd(p)
    /\ \A j \in 1 .. MaxStages : WriteEnd(j) \in other[p] => j = p

ChildrenWired == \A p \in Procs \ {0} : ChildWired(p)

IInv == TypeOK /\ Parsed /\ ParsedRight /\ Placed /\ RunnerWired /\ ChildrenWired

-----------------------------------------------------------------------------
(***************************************************************************)
(* The constants and the ends of pipes.                                    *)
(***************************************************************************)

LEMMA Constants ==
  /\ MaxStages \in Nat /\ MaxStages >= 3 /\ Capacity \in Nat /\ Capacity >= 1
  /\ 0 \in Procs
  /\ \A p : p \in Procs <=> p \in Int /\ 0 <= p /\ p < MaxStages
  BY PipelineAssumption DEF Procs

LEMMA WordsFacts ==
  /\ {"cat", "tr", "sed", "file", NULL} \subseteq Words
  /\ NULL \in Words
  /\ \A tokens \in Lines : \A i \in 1 .. Len(tokens) : tokens[i] \in Words
  <1> DEFINE Of(tokens) == {tokens[i] : i \in 1 .. Len(tokens)}
             Own == {"cat", "tr", "sed", "file", NULL}
             Read == UNION {Of(tokens) : tokens \in Lines}
  <1>1. Words = Own \cup Read
    BY DEF Words
  <1>2. ASSUME NEW tokens \in Lines, NEW i \in 1 .. Len(tokens) PROVE tokens[i] \in Read
    <2>1. tokens[i] \in Of(tokens)
      OBVIOUS
    <2> HIDE DEF Of
    <2> QED
      BY <2>1
  <1>3. NULL \in Own
    OBVIOUS
  <1> HIDE DEF Own, Read
  <1>4. Own \subseteq Words /\ Read \subseteq Words
    BY <1>1
  <1> QED
    BY <1>2, <1>3, <1>4 DEF Own

LEMMA LineFacts ==
  ASSUME NEW tokens \in Lines
  PROVE  /\ Len(tokens) \in Nat /\ Len(tokens) >= 1
         /\ \A i \in 1 .. Len(tokens) : tokens[i] \in Words /\ tokens[i] # NULL
         /\ Cardinality({i \in 1 .. Len(tokens) : tokens[i] = "|"}) < MaxStages
  <1>1. /\ tokens \in Seq(STRING) /\ tokens # << >>
        /\ \A i \in 1 .. Len(tokens) : tokens[i] # NULL
        /\ Cardinality({i \in 1 .. Len(tokens) : tokens[i] = "|"}) < MaxStages
    BY PipelineAssumption
  <1>2. Len(tokens) \in Nat \ {0}
    BY <1>1, EmptySeq
  <1>3. Len(tokens) \in Nat /\ Len(tokens) >= 1
    BY <1>2
  <1>4. \A i \in 1 .. Len(tokens) : tokens[i] \in Words
    BY WordsFacts
  <1> QED
    BY <1>1, <1>3, <1>4

LEMMA EndFacts ==
  /\ Terminal # Closed
  /\ \A j, k : WriteEnd(j) = WriteEnd(k) => j = k
  /\ \A j, k : ReadEnd(j) # WriteEnd(k)
  /\ \A k : ReadEnd(k) # Terminal /\ ReadEnd(k) # Closed
  /\ \A k : WriteEnd(k) # Terminal
  /\ \A j, k : File(j) # WriteEnd(k)
  /\ \A k : WriteEnd(k)[2] = k
  /\ \A k \in 1 .. MaxStages : ReadEnd(k) \in Ends /\ WriteEnd(k) \in Ends
  BY DEF Terminal, Closed, ReadEnd, WriteEnd, File, Ends

(* The types of what a child or the runner changes. *)
Points == {"none", "stage", "fork", "parent", "child", "exec", "run", "full", "ended"}

ProcessTypes ==
  /\ at \in [Procs -> Points]
  /\ stdin \in [Procs -> {Terminal, Closed} \cup Ends]
  /\ stdout \in [Procs -> {Terminal} \cup {File(k) : k \in 1 .. MaxStages} \cup Ends]
  /\ other \in [Procs -> SUBSET Ends]
  /\ kind \in [Procs -> Kinds]
  /\ buffered \in [1 .. MaxStages -> 0 .. Capacity]

LineTypes ==
  /\ host \in {"shell", "leetify"}
  /\ line \in Lines \cup {<< >>}
  /\ t_count \in 0 .. Len(line)
  /\ from \in 1 .. Len(line) + 1
  /\ cmds \in Seq(command_lines)
  /\ \A k \in 1 .. Len(cmds) :
       \A i \in 1 .. Len(cmds[k].tokens) : cmds[k].tokens[i] \notin {"|", ">", NULL}

LEMMA TypeParts ==
  /\ TypeOK <=> /\ LineTypes /\ ProcessTypes /\ stage \in 1 .. MaxStages
                /\ shell \in {"parse", "exec", "wait", "prompt"}
  /\ TypeOK' <=> /\ LineTypes' /\ ProcessTypes' /\ stage' \in 1 .. MaxStages
                 /\ shell' \in {"parse", "exec", "wait", "prompt"}
  BY Zenon DEF TypeOK, LineTypes, ProcessTypes, Points

(* The bars of a line are finitely many. *)
LEMMA BarsFinite ==
  ASSUME LineTypes
  PROVE  /\ IsFiniteSet(Bars) /\ Cardinality(Bars) \in Nat
         /\ \A t : IsFiniteSet(BarsUpTo(t)) /\ Cardinality(BarsUpTo(t)) \in Nat
         /\ \A t : IsFiniteSet({b \in Bars : b < t}) /\ Cardinality({b \in Bars : b < t}) \in Nat
         /\ Len(line) \in Nat
  <1>1. Len(line) \in Nat
    BY LineFacts DEF LineTypes
  <1>2. IsFiniteSet(1 .. Len(line))
    BY <1>1, FS_Interval
  <1>3. IsFiniteSet(Bars)
    <2>1. Bars \in SUBSET (1 .. Len(line))
      BY DEF Bars
    <2> QED
      BY <1>2, <2>1, FS_Subset
  <1>4. ASSUME NEW T \in SUBSET Bars PROVE IsFiniteSet(T) /\ Cardinality(T) \in Nat
    BY <1>3, FS_Subset, FS_CardinalityType
  <1>5. \A t : BarsUpTo(t) \in SUBSET Bars /\ {b \in Bars : b < t} \in SUBSET Bars
    BY DEF BarsUpTo
  <1> QED
    BY <1>1, <1>3, <1>4, <1>5

LEMMA PipesFinite ==
  ASSUME LineTypes
  PROVE  IsFiniteSet(Pipes) /\ Cardinality(Pipes) \in Nat /\ Len(cmds) \in Nat
  <1>1. Len(cmds) \in Nat
    BY DEF LineTypes
  <1>2. IsFiniteSet(1 .. Len(cmds))
    BY <1>1, FS_Interval
  <1>3. Pipes \in SUBSET (1 .. Len(cmds))
    BY DEF Pipes, PipesOf
  <1> QED
    BY <1>1, <1>2, <1>3, FS_Subset, FS_CardinalityType

(* A run of stages from the first that all have pipes is shorter than      *)
(* MaxStages.                                                              *)
LEMMA FewPipes ==
  ASSUME LineTypes, Cardinality(Pipes) < MaxStages, NEW k \in Nat, 1 .. k \subseteq Pipes
  PROVE  k < MaxStages
  <1>1. Cardinality(1 .. k) = k
    BY FS_Interval
  <1>2. Cardinality(1 .. k) <= Cardinality(Pipes)
    BY PipesFinite, FS_Subset
  <1> QED
    BY <1>1, <1>2, PipesFinite, Constants

-----------------------------------------------------------------------------
(***************************************************************************)
(* Parsing.                                                                *)
(***************************************************************************)

(* A stage added to the stages c. *)
LEMMA AddStage ==
  ASSUME NEW c \in Seq(command_lines), NEW x \in command_lines
  PROVE  /\ Append(c, x) \in Seq(command_lines)
         /\ Len(c) \in Nat /\ Len(Append(c, x)) = Len(c) + 1
         /\ \A k \in 1 .. Len(c) : Append(c, x)[k] = c[k]
         /\ Append(c, x)[Len(c) + 1] = x
         /\ x.stdout_pipe => PipesOf(Append(c, x)) = PipesOf(c) \cup {Len(c) + 1}
         /\ ~ x.stdout_pipe => PipesOf(Append(c, x)) = PipesOf(c)
  <1>1. /\ Append(c, x) \in Seq(command_lines)
        /\ Len(c) \in Nat /\ Len(Append(c, x)) = Len(c) + 1
        /\ \A k \in 1 .. Len(c) : Append(c, x)[k] = c[k]
        /\ Append(c, x)[Len(c) + 1] = x
    BY AppendProperties, LenProperties
  <1> DEFINE d == Append(c, x)
  <1>2. d[Len(c) + 1] = x /\ Len(d) = Len(c) + 1 /\ \A k \in 1 .. Len(c) : d[k] = c[k]
    BY <1>1
  <1> HIDE DEF d
  <1>3. \A k : k \in 1 .. Len(d) <=> k \in 1 .. Len(c) \/ k = Len(c) + 1
    BY <1>1, <1>2
  <1>4. x.stdout_pipe => PipesOf(d) = PipesOf(c) \cup {Len(c) + 1}
    BY <1>2, <1>3, Zenon DEF PipesOf
  <1>5. ~ x.stdout_pipe => PipesOf(d) = PipesOf(c)
    BY <1>2, <1>3, Zenon DEF PipesOf
  <1> QED
    BY <1>1, <1>4, <1>5 DEF d

(* The words from s to e of a line. *)
LEMMA SubSeqFacts ==
  ASSUME LineTypes, NEW s \in 1 .. Len(line) + 1, NEW e \in 0 .. Len(line),
         \A i \in s .. e : line[i] \notin {"|", ">"}
  PROVE  /\ SubSeq(line, s, e) \in Seq(Words)
         /\ \A i \in 1 .. Len(SubSeq(line, s, e)) : SubSeq(line, s, e)[i] \notin {"|", ">", NULL}
  <1>0. Len(line) \in Nat
    BY BarsFinite
  <1>1. \A i \in s .. e : i \in 1 .. Len(line) /\ line[i] \in Words /\ line[i] # NULL
    <2>1. CASE line = << >>
      BY <2>1, EmptySeq
    <2>2. CASE line \in Lines
      <3>1. \A i \in s .. e : i \in 1 .. Len(line)
        BY <1>0
      <3>2. \A i \in 1 .. Len(line) : line[i] \in Words /\ line[i] # NULL
        BY <2>2, LineFacts
      <3> QED
        BY <3>1, <3>2
    <2> QED
      BY <2>1, <2>2 DEF LineTypes
  <1>2. s \in Int /\ e \in Int
    BY <1>0
  <1>3. /\ SubSeq(line, s, e) \in Seq(Words)
        /\ Len(SubSeq(line, s, e)) = IF s <= e THEN e - s + 1 ELSE 0
        /\ \A i \in 1 .. e - s + 1 : SubSeq(line, s, e)[i] = line[s + i - 1]
    BY <1>1, <1>2, SubSeqProperties
  <1>4. ASSUME NEW i \in 1 .. Len(SubSeq(line, s, e))
        PROVE  SubSeq(line, s, e)[i] \notin {"|", ">", NULL}
    <2>1. i \in 1 .. e - s + 1 /\ s + i - 1 \in s .. e
      BY <1>2, <1>3
    <2> QED
      BY <1>1, <1>3, <2>1
  <1> QED
    BY <1>3, <1>4

(* One more token: one more bar if it is one. *)
LEMMA NextBar ==
  ASSUME LineTypes, NEW t \in 1 .. Len(line)
  PROVE  /\ line[t] = "|" => Cardinality(BarsUpTo(t)) = Cardinality(BarsUpTo(t - 1)) + 1
         /\ line[t] # "|" => BarsUpTo(t) = BarsUpTo(t - 1)
         /\ t = Len(line) => BarsUpTo(t) = Bars
  <1>1. Len(line) \in Nat /\ t \in Int
    BY BarsFinite
  <1>2. line[t] # "|" => BarsUpTo(t) = BarsUpTo(t - 1)
    BY <1>1 DEF BarsUpTo, Bars
  <1>3. ASSUME line[t] = "|" PROVE Cardinality(BarsUpTo(t)) = Cardinality(BarsUpTo(t - 1)) + 1
    <2>1. BarsUpTo(t) = BarsUpTo(t - 1) \cup {t} /\ t \notin BarsUpTo(t - 1)
      BY <1>1, <1>3 DEF BarsUpTo, Bars
    <2>2. IsFiniteSet(BarsUpTo(t - 1))
      BY BarsFinite
    <2> QED
      BY <2>1, <2>2, FS_AddElement
  <1>4. t = Len(line) => BarsUpTo(t) = Bars
    BY <1>1 DEF BarsUpTo, Bars
  <1> QED
    BY <1>2, <1>3, <1>4

(* What parse adds: the stage before a separator, and the end.  A stage is *)
(* built from the words since the last separator.                          *)
Before(t) ==
  command_line(SubSeq(line, from, t - 1), line[t] = "|",
               IF line[t] = ">" /\ t < Len(line) THEN line[t + 1] ELSE NULL)

Ending(t, start) == command_line(SubSeq(line, start, t), FALSE, NULL)

Middle(t) == IF line[t] \in {"|", ">"} THEN Append(cmds, Before(t)) ELSE cmds

LEMMA CutFacts ==
  ASSUME NEW t
  PROVE  cut(t) = IF line[t] \in {"|", ">"} THEN <<Before(t)>> ELSE << >>
  <1>1. CASE line[t] = "|"
    <2>1. cut(t) = <<command_line(SubSeq(line, from, t - 1), TRUE, NULL)>>
      BY <1>1, Zenon DEF cut
    <2>2. Before(t) = command_line(SubSeq(line, from, t - 1), TRUE, NULL)
      <3>1. (line[t] = "|") = TRUE /\ ~ (line[t] = ">")
        BY <1>1
      <3> QED
        BY <3>1, Zenon DEF Before
    <2> QED
      BY <1>1, <2>1, <2>2
  <1>2. CASE line[t] = ">"
    <2>1. cut(t) = <<command_line(SubSeq(line, from, t - 1), FALSE,
                                  IF t < Len(line) THEN line[t + 1] ELSE NULL)>>
      <3>1. line[t] # "|"
        BY <1>2
      <3> QED
        BY <1>2, <3>1, Zenon DEF cut
    <2>2. Before(t) = command_line(SubSeq(line, from, t - 1), FALSE,
                                   IF t < Len(line) THEN line[t + 1] ELSE NULL)
      <3>1. (line[t] = "|") = FALSE
        BY <1>2
      <3>2. (line[t] = ">" /\ t < Len(line)) = (t < Len(line))
        BY <1>2
      <3> QED
        BY <3>1, <3>2, Zenon DEF Before
    <2> QED
      BY <1>2, <2>1, <2>2
  <1>3. CASE line[t] \notin {"|", ">"}
    <2>1. line[t] # "|" /\ line[t] # ">"
      BY <1>3
    <2>2. cut(t) = << >>
      BY <2>1, Zenon DEF cut
    <2> QED
      BY <1>3, <2>2
  <1> QED
    BY <1>1, <1>2, <1>3

LEMMA StageFields ==
  ASSUME NEW words, NEW pipe, NEW file
  PROVE  /\ command_line(words, pipe, file).tokens = words
         /\ command_line(words, pipe, file).stdout_pipe = pipe
         /\ command_line(words, pipe, file).stdout_file = file
         /\ words \in Seq(Words) /\ pipe \in BOOLEAN /\ file \in Words =>
              command_line(words, pipe, file) \in command_lines
  BY DEF command_line, command_lines

LEMMA StagesMade ==
  ASSUME NEW t, NEW start
  PROVE  /\ Before(t).tokens = SubSeq(line, from, t - 1)
         /\ Before(t).stdout_pipe = (line[t] = "|")
         /\ Before(t).stdout_file = IF line[t] = ">" /\ t < Len(line) THEN line[t + 1] ELSE NULL
         /\ Ending(t, start).tokens = SubSeq(line, start, t)
         /\ Ending(t, start).stdout_pipe = FALSE
         /\ Ending(t, start).stdout_file = NULL
  BY DEF Before, Ending, command_line

(* The parsing loop at its next token. *)
LEMMA ParseStep ==
  ASSUME IInv, parse
  PROVE  /\ t_count' \in 1 .. Len(line) /\ t_count' = t_count + 1
         /\ shell = "parse" /\ host' = host /\ line' = line
         /\ from' = IF line[t_count'] \in {"|", ">"} THEN t_count' + 1 ELSE from
         /\ from' \in 1 .. Len(line) + 1 /\ from' <= t_count' + 1
         /\ \A i \in from' .. t_count' : line[i] \notin {"|", ">"}
         /\ Before(t_count') \in command_lines
         /\ Ending(t_count', from') \in command_lines
         /\ Middle(t_count') \in Seq(command_lines)
         /\ cmds' = IF t_count' = Len(line) THEN Append(Middle(t_count'), Ending(t_count', from'))
                                            ELSE Middle(t_count')
         /\ shell' = IF t_count' = Len(line) THEN "exec" ELSE "parse"
  <1> DEFINE t == t_count'
  <1>0. LineTypes /\ Parsed
    BY TypeParts DEF IInv
  <1>1. /\ shell = "parse" /\ t = t_count + 1 /\ t <= Len(line) /\ host' = host /\ line' = line
        /\ from' = IF line[t] \in {"|", ">"} THEN t + 1 ELSE from
        /\ cmds' = cmds \o cut(t) \o end_stage(t)
        /\ shell' = IF t = Len(line) THEN "exec" ELSE "parse"
    BY DEF parse
  <1>2. /\ line \in Lines /\ from <= t_count + 1
        /\ \A i \in from .. t_count : line[i] \notin {"|", ">"}
    BY <1>0, <1>1 DEF Parsed
  <1>3. /\ Len(line) \in Nat /\ t_count \in 0 .. Len(line) /\ from \in 1 .. Len(line) + 1
        /\ cmds \in Seq(command_lines)
    BY <1>0, BarsFinite DEF LineTypes
  <1>4. t \in 1 .. Len(line) /\ t - 1 = t_count /\ t - 1 \in 0 .. Len(line) /\ t \in 0 .. Len(line)
    BY <1>1, <1>3
  <1> HIDE DEF t
  <1>5. from' \in 1 .. Len(line) + 1 /\ from' <= t + 1 /\ \A i \in from' .. t : line[i] \notin {"|", ">"}
    <2>1. CASE line[t] \in {"|", ">"}
      BY <1>1, <1>3, <1>4, <2>1
    <2>2. CASE line[t] \notin {"|", ">"}
      BY <1>1, <1>2, <1>3, <1>4, <2>2
    <2> QED
      BY <2>1, <2>2
  <1>6. Before(t) \in command_lines
    <2>1. SubSeq(line, from, t - 1) \in Seq(Words)
      BY <1>0, <1>2, <1>3, <1>4, SubSeqFacts
    <2>2. (IF line[t] = ">" /\ t < Len(line) THEN line[t + 1] ELSE NULL) \in Words
      <3>1. NULL \in Words
        BY WordsFacts
      <3>2. t < Len(line) => line[t + 1] \in Words
        <4>1. t < Len(line) => t + 1 \in 1 .. Len(line)
          BY <1>3, <1>4
        <4> QED
          BY <1>2, <4>1, LineFacts
      <3> QED
        BY <3>1, <3>2
    <2>3. (line[t] = "|") \in BOOLEAN
      OBVIOUS
    <2> QED
      BY <2>1, <2>2, <2>3, StageFields, Zenon DEF Before
  <1>7. Ending(t, from') \in command_lines
    <2>1. SubSeq(line, from', t) \in Seq(Words)
      BY <1>0, <1>4, <1>5, SubSeqFacts
    <2>2. NULL \in Words /\ FALSE \in BOOLEAN
      BY WordsFacts
    <2> QED
      BY <2>1, <2>2, StageFields, Zenon DEF Ending
  <1>8. cmds \o cut(t) = Middle(t) /\ Middle(t) \in Seq(command_lines)
    <2>1. CASE line[t] \in {"|", ">"}
      BY <1>3, <1>6, <2>1, CutFacts, AppendIsConcat, AppendProperties DEF Middle
    <2>2. CASE line[t] \notin {"|", ">"}
      BY <1>3, <2>2, CutFacts, ConcatEmptySeq DEF Middle
    <2> QED
      BY <2>1, <2>2
  <1>9. cmds' = IF t = Len(line) THEN Append(Middle(t), Ending(t, from')) ELSE Middle(t)
    <2>1. CASE t = Len(line)
      <3>1. end_stage(t) = <<Ending(t, from')>>
        BY <2>1 DEF end_stage, Ending
      <3> QED
        BY <1>1, <1>7, <1>8, <2>1, <3>1, AppendIsConcat
    <2>2. CASE t # Len(line)
      <3>1. end_stage(t) = << >>
        BY <2>2 DEF end_stage
      <3> QED
        BY <1>1, <1>8, <2>2, <3>1, ConcatEmptySeq
    <2> QED
      BY <2>1, <2>2
  <1> QED
    BY <1>1, <1>4, <1>5, <1>6, <1>7, <1>8, <1>9 DEF t

(* The types after a token: a stage holds words only. *)
LEMMA ParseTypes ==
  ASSUME IInv, parse PROVE LineTypes'
  <1> DEFINE t == t_count'
             mid == Middle(t)
             x == Before(t)
             y == Ending(t, from')
             Plain(c) == \A k \in 1 .. Len(c) :
                           \A i \in 1 .. Len(c[k].tokens) : c[k].tokens[i] \notin {"|", ">", NULL}
  <1>0. LineTypes /\ Parsed
    BY TypeParts DEF IInv
  <1>1. /\ t \in 1 .. Len(line) /\ t = t_count + 1
        /\ shell = "parse" /\ host' = host /\ line' = line
        /\ from' \in 1 .. Len(line) + 1
        /\ \A i \in from' .. t : line[i] \notin {"|", ">"}
        /\ x \in command_lines /\ y \in command_lines /\ mid \in Seq(command_lines)
        /\ cmds' = IF t = Len(line) THEN Append(mid, y) ELSE mid
    BY ParseStep
  <1>2. /\ Len(line) \in Nat /\ t_count \in Nat /\ from \in 1 .. Len(line) + 1
        /\ cmds \in Seq(command_lines) /\ Plain(cmds)
    BY <1>0, BarsFinite DEF LineTypes
  <1>3. \A i \in from .. t_count : line[i] \notin {"|", ">"}
    BY <1>0, <1>1 DEF Parsed
  <1>4. \A i \in 1 .. Len(x.tokens) : x.tokens[i] \notin {"|", ">", NULL}
    <2>1. t - 1 \in 0 .. Len(line) /\ t - 1 = t_count
      BY <1>1, <1>2
    <2>2. x.tokens = SubSeq(line, from, t - 1)
      BY StagesMade
    <2> QED
      BY <1>0, <1>2, <1>3, <2>1, <2>2, SubSeqFacts
  <1>5. \A i \in 1 .. Len(y.tokens) : y.tokens[i] \notin {"|", ">", NULL}
    <2>1. t \in 0 .. Len(line)
      BY <1>1, <1>2
    <2>2. y.tokens = SubSeq(line, from', t)
      BY StagesMade
    <2> QED
      BY <1>0, <1>1, <2>1, <2>2, SubSeqFacts
  <1> HIDE DEF t, mid, x, y
  <1>6. ASSUME NEW c \in Seq(command_lines), Plain(c), NEW z \in command_lines,
               \A i \in 1 .. Len(z.tokens) : z.tokens[i] \notin {"|", ">", NULL}
        PROVE  Plain(Append(c, z))
    <2> DEFINE d == Append(c, z)
    <2>1. /\ Len(c) \in Nat /\ Len(d) = Len(c) + 1 /\ d[Len(c) + 1] = z
          /\ \A k \in 1 .. Len(c) : d[k] = c[k]
      BY AddStage
    <2> HIDE DEF d
    <2>2. Plain(d)
      <3> SUFFICES ASSUME NEW k \in 1 .. Len(d), NEW i \in 1 .. Len(d[k].tokens)
                   PROVE  d[k].tokens[i] \notin {"|", ">", NULL}
        OBVIOUS
      <3>1. CASE k \in 1 .. Len(c)
        BY <1>6, <2>1, <3>1
      <3>2. CASE k = Len(c) + 1
        BY <1>6, <2>1, <3>2
      <3> QED
        BY <2>1, <3>1, <3>2
    <2> QED
      BY <2>2 DEF d
  <1>7. Plain(mid)
    <2> HIDE DEF Plain
    <2> QED
      BY <1>1, <1>2, <1>4, <1>6 DEF mid, Middle, x
  <1>8. Plain(cmds')
    <2> HIDE DEF Plain
    <2> QED
      BY <1>1, <1>5, <1>6, <1>7
  <1>9. cmds' \in Seq(command_lines)
    BY <1>1, AddStage
  <1>10. t \in 0 .. Len(line)
    BY <1>1, <1>2
  <1> QED
    BY <1>0, <1>1, <1>8, <1>9, <1>10 DEF LineTypes, t

(* One pipe per bar. *)
LEMMA ParsePipes ==
  ASSUME IInv, parse
  PROVE  /\ Cardinality(PipesOf(Middle(t_count'))) = Cardinality(BarsUpTo(t_count'))
         /\ Len(Middle(t_count')) \in Nat
         /\ PipesOf(Middle(t_count')) \subseteq 1 .. Len(Middle(t_count'))
         /\ t_count' = Len(line) =>
              /\ Len(cmds') = Len(Middle(t_count')) + 1
              /\ cmds'[Len(cmds')] = Ending(t_count', from')
              /\ \A k \in 1 .. Len(Middle(t_count')) : cmds'[k] = Middle(t_count')[k]
              /\ PipesOf(cmds') = PipesOf(Middle(t_count'))
  <1> DEFINE t == t_count'
             mid == Middle(t)
             x == Before(t)
             y == Ending(t, from')
  <1>0. LineTypes /\ Parsed
    BY TypeParts DEF IInv
  <1>1. /\ t \in 1 .. Len(line) /\ t = t_count + 1 /\ shell = "parse"
        /\ x \in command_lines /\ y \in command_lines /\ mid \in Seq(command_lines)
        /\ cmds' = IF t = Len(line) THEN Append(mid, y) ELSE mid
    BY ParseStep
  <1>2. /\ Len(line) \in Nat /\ t_count \in Nat /\ t - 1 = t_count
        /\ cmds \in Seq(command_lines) /\ Len(cmds) \in Nat
    BY <1>0, <1>1, BarsFinite, PipesFinite DEF LineTypes
  <1>3. Cardinality(Pipes) = Cardinality(BarsUpTo(t - 1))
    BY <1>0, <1>1, <1>2 DEF Parsed
  <1>4. x.stdout_pipe = (line[t] = "|") /\ y.stdout_pipe = FALSE
    BY StagesMade
  <1> HIDE DEF t, x, y
  <1>5. Cardinality(PipesOf(mid)) = Cardinality(BarsUpTo(t))
    <2>1. CASE line[t] = "|"
      <3>1. mid = Append(cmds, x)
        BY <2>1 DEF Middle, x
      <3>2. x.stdout_pipe
        BY <1>4, <2>1
      <3>3. PipesOf(mid) = Pipes \cup {Len(cmds) + 1}
        <4>1. x \in command_lines /\ cmds \in Seq(command_lines)
          BY <1>1, <1>2
        <4>2. PipesOf(Append(cmds, x)) = PipesOf(cmds) \cup {Len(cmds) + 1}
          BY <3>2, <4>1, AddStage
        <4> QED
          BY <3>1, <4>2 DEF Pipes
      <3>4. Len(cmds) + 1 \notin Pipes
        BY <1>2 DEF Pipes, PipesOf
      <3>5. Cardinality(PipesOf(mid)) = Cardinality(Pipes) + 1
        BY <1>0, <3>3, <3>4, PipesFinite, FS_AddElement
      <3> QED
        BY <1>0, <1>1, <1>3, <2>1, <3>5, NextBar
    <2>2. CASE line[t] # "|"
      <3>1. PipesOf(mid) = Pipes
        <4>1. CASE line[t] = ">"
          <5>1. mid = Append(cmds, x)
            BY <4>1 DEF Middle, x
          <5>2. ~ x.stdout_pipe
            BY <1>4, <2>2
          <5> QED
            <6>1. x \in command_lines /\ cmds \in Seq(command_lines)
              BY <1>1, <1>2
            <6>2. PipesOf(Append(cmds, x)) = PipesOf(cmds)
              BY <5>2, <6>1, AddStage
            <6> QED
              BY <5>1, <6>2 DEF Pipes
        <4>2. CASE line[t] # ">"
          BY <2>2, <4>2 DEF Middle, Pipes
        <4> QED
          BY <4>1, <4>2
      <3> QED
        BY <1>0, <1>1, <1>3, <2>2, <3>1, NextBar
    <2> QED
      BY <2>1, <2>2
  <1> HIDE DEF mid
  <1>6. Len(mid) \in Nat /\ PipesOf(mid) \subseteq 1 .. Len(mid)
    BY <1>1, LenProperties DEF PipesOf
  <1>7. ASSUME t = Len(line)
        PROVE  /\ Len(cmds') = Len(mid) + 1 /\ cmds'[Len(cmds')] = y
               /\ \A k \in 1 .. Len(mid) : cmds'[k] = mid[k]
               /\ PipesOf(cmds') = PipesOf(mid)
    <2>1. cmds' = Append(mid, y) /\ ~ y.stdout_pipe
      BY <1>1, <1>4, <1>7
    <2> QED
      BY <1>1, <2>1, AddStage
  <1> QED
    BY <1>5, <1>6, <1>7 DEF t, mid, y

LEMMA ParseParsed ==
  ASSUME IInv, parse PROVE Parsed'
  <1> DEFINE t == t_count'
             mid == Middle(t)
  <1>0. LineTypes /\ Parsed
    BY TypeParts DEF IInv
  <1>1. /\ t \in 1 .. Len(line) /\ shell = "parse" /\ host' = host /\ line' = line
        /\ from' <= t + 1
        /\ \A i \in from' .. t : line[i] \notin {"|", ">"}
        /\ cmds' = IF t = Len(line) THEN Append(mid, Ending(t, from')) ELSE mid
        /\ shell' = IF t = Len(line) THEN "exec" ELSE "parse"
    BY ParseStep
  <1>2. Len(line) \in Nat /\ line \in Lines /\ host = "shell"
    BY <1>0, <1>1, BarsFinite DEF Parsed
  <1>3. /\ Cardinality(PipesOf(mid)) = Cardinality(BarsUpTo(t)) /\ Len(mid) \in Nat
        /\ PipesOf(mid) \subseteq 1 .. Len(mid)
        /\ t = Len(line) => Len(cmds') = Len(mid) + 1 /\ PipesOf(cmds') = PipesOf(mid)
    BY ParsePipes
  <1>4. (BarsUpTo(t_count))' = BarsUpTo(t) /\ Pipes' = PipesOf(cmds')
    BY <1>1 DEF BarsUpTo, Bars, Pipes, PipesOf
  <1> HIDE DEF mid
  <1>5. CASE t = Len(line)
    <2>1. Cardinality(PipesOf(mid)) < MaxStages
      <3>1. Bars = {i \in 1 .. Len(line) : line[i] = "|"}
        BY DEF Bars
      <3>2. Cardinality(Bars) < MaxStages
        BY <1>2, <3>1, LineFacts
      <3> QED
        BY <1>0, <1>1, <1>3, <1>5, <3>2, NextBar
    <2>2. Len(cmds') >= 1 /\ Len(cmds') \notin Pipes'
      BY <1>3, <1>4, <1>5
    <2> QED
      BY <1>1, <1>3, <1>4, <1>5, <2>1, <2>2 DEF Parsed
  <1>6. CASE t # Len(line)
    <2>1. shell' = "parse" /\ cmds' = mid /\ t < Len(line)
      BY <1>1, <1>2, <1>6
    <2>2. Cardinality(Pipes') = Cardinality((BarsUpTo(t_count))')
      BY <1>3, <1>4, <2>1
    <2> QED
      BY <1>1, <1>2, <2>1, <2>2 DEF Parsed, t
  <1> QED
    BY <1>5, <1>6

LEMMA OneMore ==
  ASSUME NEW n \in Nat
  PROVE  /\ 1 .. n + 1 = (1 .. n) \cup {n + 1}
         /\ \A k \in 1 .. n + 1 : k \in 1 .. n \/ k = n + 1
  OBVIOUS

(* Words between two separators, after k - 1 bars, are stage k. *)
LEMMA CutHere ==
  ASSUME LineTypes, NEW s \in 1 .. Len(line) + 1, NEW e \in 0 .. Len(line), s <= e + 1,
         \A i \in s .. e : line[i] \notin {"|", ">"},
         s = 1 \/ line[s - 1] = "|",
         e = Len(line) \/ line[e + 1] \in {"|", ">"},
         NEW k, Cardinality(BarsUpTo(e)) = k - 1
  PROVE  Cut(SubSeq(line, s, e), k)
  <1>1. Len(line) \in Nat /\ s \in Int /\ e \in Int
    BY BarsFinite
  <1>2. BarsUpTo(e) = {b \in Bars : b < s}
    BY <1>1 DEF BarsUpTo, Bars
  <1>3. Segment(SubSeq(line, s, e), k, s, e)
    BY <1>2 DEF Segment
  <1> QED
    BY <1>3 DEF Cut

(* The two cases of ParsedRight. *)
BeforeMark ==
  /\ shell = "parse"
  /\ \A m \in Marks : t_count < m
  /\ from = 1 \/ line[from - 1] = "|"
  /\ Len(cmds) = Cardinality(BarsUpTo(t_count))
  /\ Pipes = 1 .. Len(cmds)
  /\ \A k \in 1 .. Len(cmds) : Cut(cmds[k].tokens, k)

AfterMark == (shell = "parse" => Marks = {t_count}) /\ CutRight

(* They in the next state, where the line is the same. *)
LEMMA PrimedParse ==
  ASSUME line' = line
  PROVE  /\ Bars' = Bars /\ Marks' = Marks /\ (WellFormed' <=> WellFormed)
         /\ CutRight' <=>
              /\ Cardinality(Bars) + 1 <= Len(cmds')
              /\ PipesOf(cmds') = 1 .. Cardinality(Bars)
              /\ \A k \in 1 .. Cardinality(Bars) + 1 : Cut(cmds'[k].tokens, k)
              /\ cmds'[Cardinality(Bars) + 1].stdout_file
                   = IF Marks = {} THEN NULL ELSE line[Len(line)]
         /\ BeforeMark' <=>
              /\ shell' = "parse"
              /\ \A m \in Marks : t_count' < m
              /\ from' = 1 \/ line[from' - 1] = "|"
              /\ Len(cmds') = Cardinality(BarsUpTo(t_count'))
              /\ PipesOf(cmds') = 1 .. Len(cmds')
              /\ \A k \in 1 .. Len(cmds') : Cut(cmds'[k].tokens, k)
         /\ AfterMark' <=> (shell' = "parse" => Marks = {t_count'}) /\ CutRight'
  <1>1. Bars' = Bars /\ Marks' = Marks
    BY DEF Bars, Marks
  <1>2. WellFormed' <=> WellFormed
    BY <1>1 DEF WellFormed
  <1>3. (BarsUpTo(t_count))' = BarsUpTo(t_count')
    BY <1>1 DEF BarsUpTo
  <1>4. \A k : (Cut(cmds[k].tokens, k))' <=> Cut(cmds'[k].tokens, k)
    BY <1>1 DEF Cut, Segment
  <1>5. Pipes' = PipesOf(cmds')
    BY DEF Pipes, PipesOf
  <1>6. CutRight' <=>
          /\ Cardinality(Bars) + 1 <= Len(cmds')
          /\ PipesOf(cmds') = 1 .. Cardinality(Bars)
          /\ \A k \in 1 .. Cardinality(Bars) + 1 : Cut(cmds'[k].tokens, k)
          /\ cmds'[Cardinality(Bars) + 1].stdout_file
               = IF Marks = {} THEN NULL ELSE line[Len(line)]
    BY <1>1, <1>4, <1>5, Zenon DEF CutRight
  <1>7. BeforeMark' <=>
          /\ shell' = "parse"
          /\ \A m \in Marks : t_count' < m
          /\ from' = 1 \/ line[from' - 1] = "|"
          /\ Len(cmds') = Cardinality(BarsUpTo(t_count'))
          /\ PipesOf(cmds') = 1 .. Len(cmds')
          /\ \A k \in 1 .. Len(cmds') : Cut(cmds'[k].tokens, k)
    BY <1>1, <1>3, <1>4, <1>5, Zenon DEF BeforeMark
  <1>8. AfterMark' <=> (shell' = "parse" => Marks = {t_count'}) /\ CutRight'
    BY <1>1, Zenon DEF AfterMark
  <1> QED
    BY <1>1, <1>2, <1>6, <1>7, <1>8

(* A well-formed line is cut where the user means it. *)
LEMMA ParseRight ==
  ASSUME IInv, parse PROVE ParsedRight'
  <1> DEFINE t == t_count'
             mid == Middle(t)
             x == Before(t)
             y == Ending(t, from')
             N == Len(line)
             n == Len(cmds)
  <1>0. LineTypes /\ Parsed /\ ParsedRight
    BY TypeParts DEF IInv
  <1>1. /\ t \in 1 .. N /\ t = t_count + 1 /\ shell = "parse" /\ host' = host /\ line' = line
        /\ from' = IF line[t] \in {"|", ">"} THEN t + 1 ELSE from
        /\ from' \in 1 .. N + 1 /\ from' <= t + 1
        /\ \A i \in from' .. t : line[i] \notin {"|", ">"}
        /\ x \in command_lines /\ y \in command_lines /\ mid \in Seq(command_lines)
        /\ cmds' = IF t = N THEN Append(mid, y) ELSE mid
        /\ shell' = IF t = N THEN "exec" ELSE "parse"
    BY ParseStep
  <1>2. /\ N \in Nat /\ t_count \in Nat /\ t - 1 = t_count /\ t - 1 \in 0 .. N /\ t \in 0 .. N
        /\ from \in 1 .. N + 1 /\ from <= (t - 1) + 1
        /\ cmds \in Seq(command_lines) /\ n \in Nat
        /\ \A i \in from .. t - 1 : line[i] \notin {"|", ">"}
    BY <1>0, <1>1, BarsFinite, PipesFinite DEF LineTypes, Parsed
  <1>3. /\ Len(mid) \in Nat
        /\ t = N =>
              /\ Len(cmds') = Len(mid) + 1
              /\ cmds'[Len(cmds')] = y
              /\ \A k \in 1 .. Len(mid) : cmds'[k] = mid[k]
              /\ PipesOf(cmds') = PipesOf(mid)
    BY ParsePipes
  <1>4. /\ x.tokens = SubSeq(line, from, t - 1) /\ x.stdout_pipe = (line[t] = "|")
        /\ x.stdout_file = IF line[t] = ">" /\ t < N THEN line[t + 1] ELSE NULL
        /\ y.tokens = SubSeq(line, from', t) /\ y.stdout_file = NULL
    BY StagesMade
  <1>5. line[t] \in {"|", ">"} =>
          /\ mid = Append(cmds, x) /\ Len(mid) = n + 1 /\ mid[n + 1] = x
          /\ \A k \in 1 .. n : mid[k] = cmds[k]
    BY <1>1, <1>2, AddStage DEF Middle
  <1>6. line[t] \notin {"|", ">"} => mid = cmds
    BY DEF Middle
  <1> HIDE DEF t, mid, x, y
  <1> SUFFICES ASSUME host = "shell", WellFormed PROVE BeforeMark' \/ AfterMark'
    <2>1. WellFormed' <=> WellFormed
      BY <1>1, PrimedParse
    <2> QED
      BY <1>1, <2>1, Zenon DEF ParsedRight, BeforeMark, AfterMark
  <1>7. BeforeMark \/ AfterMark
    BY <1>0, Zenon DEF ParsedRight, BeforeMark, AfterMark
  <1>8. CASE AfterMark
    <2>1. Marks = {t - 1} /\ CutRight
      BY <1>1, <1>2, <1>8 DEF AfterMark
    <2>2. t = N /\ line[t] \notin {"|", ">"}
      BY <1>1, <1>2, <2>1 DEF WellFormed, Bars, Marks
    <2>3. mid = cmds
      BY <1>6, <2>2
    <2>4. /\ Len(cmds') = n + 1 /\ PipesOf(cmds') = Pipes
          /\ \A k \in 1 .. n : cmds'[k] = cmds[k]
      BY <1>3, <2>2, <2>3 DEF Pipes
    <2>5. Cardinality(Bars) \in Nat
      BY <1>0, BarsFinite
    <2>6. CutRight'
      <3>1. \A k \in 1 .. Cardinality(Bars) + 1 : k \in 1 .. n /\ cmds'[k] = cmds[k]
        BY <1>2, <2>1, <2>4, <2>5 DEF CutRight
      <3>2. Cardinality(Bars) + 1 \in 1 .. Cardinality(Bars) + 1 /\ Cardinality(Bars) + 1 <= n + 1
        BY <1>2, <2>1, <2>5 DEF CutRight
      <3> QED
        BY <1>1, <2>1, <2>4, <3>1, <3>2, PrimedParse DEF CutRight
    <2>7. shell' # "parse"
      BY <1>1, <2>2
    <2> QED
      BY <1>1, <2>6, <2>7, PrimedParse
  <1>9. CASE BeforeMark
    <2>1. /\ \A m \in Marks : t_count < m
          /\ from = 1 \/ line[from - 1] = "|"
          /\ n = Cardinality(BarsUpTo(t - 1))
          /\ Pipes = 1 .. n
          /\ \A k \in 1 .. n : Cut(cmds[k].tokens, k)
      BY <1>2, <1>9 DEF BeforeMark
    <2>2. \A m \in Marks : m \in Int /\ t <= m /\ m <= N
      BY <1>1, <1>2, <2>1 DEF Marks
    <2>3. line[t] \in {"|", ">"} => Cut(x.tokens, n + 1)
      <3>1. (t - 1) + 1 = t /\ (n + 1) - 1 = n
        BY <1>1, <1>2
      <3> QED
        BY <1>0, <1>2, <1>4, <2>1, <3>1, CutHere
    <2>4. (\A m \in Marks : t < m) /\ t = N => Marks = {}
      BY <1>1, <1>2, <2>2
    <2>5. CASE line[t] = "|"
      <3>1. Cardinality(BarsUpTo(t)) = n + 1
        BY <1>0, <1>1, <2>1, <2>5, NextBar
      <3>2. \A m \in Marks : t < m
        <4>1. t \notin Marks
          BY <2>5 DEF Marks
        <4> QED
          BY <1>1, <1>2, <2>2, <4>1
      <3>3. PipesOf(mid) = 1 .. n + 1
        <4>1. x.stdout_pipe
          BY <1>4, <2>5
        <4>2. PipesOf(Append(cmds, x)) = PipesOf(cmds) \cup {n + 1}
          BY <1>1, <1>2, <4>1, AddStage
        <4>3. 1 .. n + 1 = (1 .. n) \cup {n + 1} /\ PipesOf(cmds) = 1 .. n
          BY <1>2, <2>1, OneMore DEF Pipes
        <4> QED
          BY <1>5, <2>5, <4>2, <4>3, Zenon
      <3>4. \A k \in 1 .. n + 1 : Cut(mid[k].tokens, k)
        <4>1. \A k \in 1 .. n : Cut(mid[k].tokens, k)
          BY <1>5, <2>1, <2>5
        <4>2. Cut(mid[n + 1].tokens, n + 1)
          BY <1>5, <2>3, <2>5
        <4>3. \A k \in 1 .. n + 1 : k \in 1 .. n \/ k = n + 1
          BY <1>2, OneMore
        <4> QED
          BY <4>1, <4>2, <4>3, Zenon
      <3>5. from' = t + 1 /\ line[from' - 1] = "|" /\ Len(mid) = n + 1
        BY <1>1, <1>2, <1>5, <2>5
      <3>6. CASE t # N
        <4>1. cmds' = mid /\ shell' = "parse"
          BY <1>1, <3>6
        <4>2. BeforeMark'
          BY <1>1, <3>1, <3>2, <3>3, <3>4, <3>5, <4>1, PrimedParse DEF t
        <4> QED
          BY <4>2
      <3>7. CASE t = N
        <4>1. Marks = {} /\ Cardinality(Bars) = n + 1
          BY <1>0, <1>1, <2>4, <3>1, <3>2, <3>7, NextBar
        <4>2. Cut(y.tokens, n + 2)
          <5>1. Cardinality(BarsUpTo(t)) = (n + 2) - 1
            BY <1>2, <3>1
          <5> QED
            BY <1>0, <1>1, <1>2, <1>4, <3>5, <3>7, <5>1, CutHere
        <4>3. Len(cmds') = n + 2 /\ cmds'[n + 2] = y
          BY <1>2, <1>3, <3>5, <3>7
        <4>4. \A k \in 1 .. n + 2 : Cut(cmds'[k].tokens, k)
          <5>1. \A k \in 1 .. n + 1 : cmds'[k] = mid[k]
            BY <1>3, <3>5, <3>7
          <5> QED
            BY <1>2, <3>4, <4>2, <4>3, <5>1
        <4>5. /\ Cardinality(Bars) + 1 = n + 2
              /\ PipesOf(cmds') = 1 .. Cardinality(Bars)
              /\ cmds'[n + 2].stdout_file = NULL
          BY <1>2, <1>3, <1>4, <3>3, <3>7, <4>1, <4>3
        <4>6. CutRight'
          BY <1>1, <1>2, <4>1, <4>3, <4>4, <4>5, PrimedParse
        <4>7. shell' # "parse"
          BY <1>1, <3>7
        <4> QED
          BY <1>1, <4>6, <4>7, PrimedParse
      <3> QED
        BY <3>6, <3>7
    <2>6. CASE line[t] = ">"
      <3>1. t \in Marks
        BY <1>1, <2>6 DEF Marks
      <3>2. Marks = {t} /\ t = N - 1 /\ \A b \in Bars : b < t
        BY <1>2, <3>1 DEF WellFormed
      <3>3. Cardinality(Bars) = n
        <4>1. BarsUpTo(t - 1) = Bars
          BY <1>1, <1>2, <3>2 DEF BarsUpTo, Bars
        <4> QED
          BY <2>1, <4>1
      <3>4. cmds' = mid /\ shell' = "parse" /\ Len(mid) = n + 1
        BY <1>1, <1>2, <1>5, <2>6, <3>2
      <3>5. PipesOf(mid) = 1 .. n
        <4>1. ~ x.stdout_pipe
          BY <1>4, <2>6
        <4>2. PipesOf(Append(cmds, x)) = PipesOf(cmds)
          BY <1>1, <1>2, <4>1, AddStage
        <4> QED
          BY <1>5, <2>1, <2>6, <4>2 DEF Pipes
      <3>6. \A k \in 1 .. n + 1 : Cut(mid[k].tokens, k)
        <4>1. \A k \in 1 .. n : Cut(mid[k].tokens, k)
          BY <1>5, <2>1, <2>6
        <4>2. Cut(mid[n + 1].tokens, n + 1)
          BY <1>5, <2>3, <2>6
        <4>3. \A k \in 1 .. n + 1 : k \in 1 .. n \/ k = n + 1
          BY <1>2, OneMore
        <4> QED
          BY <4>1, <4>2, <4>3, Zenon
      <3>7. mid[n + 1].stdout_file = line[N] /\ Marks # {}
        BY <1>2, <1>4, <1>5, <2>6, <3>1, <3>2
      <3>8. CutRight'
        BY <1>1, <1>2, <3>3, <3>4, <3>5, <3>6, <3>7, PrimedParse
      <3> QED
        BY <1>1, <3>2, <3>8, PrimedParse DEF t
    <2>7. CASE line[t] \notin {"|", ">"}
      <3>1. Cardinality(BarsUpTo(t)) = n /\ mid = cmds /\ from' = from
        BY <1>0, <1>1, <1>6, <2>1, <2>7, NextBar
      <3>2. \A m \in Marks : t < m
        <4>1. t \notin Marks
          BY <2>7 DEF Marks
        <4> QED
          BY <1>1, <1>2, <2>2, <4>1
      <3>3. CASE t # N
        <4>1. cmds' = cmds /\ shell' = "parse"
          BY <1>1, <3>1, <3>3
        <4>2. BeforeMark'
          BY <1>1, <2>1, <3>1, <3>2, <4>1, PrimedParse DEF t, Pipes
        <4> QED
          BY <4>2
      <3>4. CASE t = N
        <4>1. Marks = {} /\ Cardinality(Bars) = n
          BY <1>0, <1>1, <2>4, <3>1, <3>2, <3>4, NextBar
        <4>2. Cut(y.tokens, n + 1)
          <5>1. Cardinality(BarsUpTo(t)) = (n + 1) - 1
            BY <1>2, <3>1
          <5> QED
            BY <1>0, <1>1, <1>2, <1>4, <2>1, <3>1, <3>4, <5>1, CutHere
        <4>3. Len(cmds') = n + 1 /\ cmds'[n + 1] = y /\ \A k \in 1 .. n : cmds'[k] = cmds[k]
          BY <1>3, <3>1, <3>4
        <4>4. \A k \in 1 .. n + 1 : Cut(cmds'[k].tokens, k)
          BY <1>2, <2>1, <4>2, <4>3
        <4>5. PipesOf(cmds') = 1 .. n /\ cmds'[n + 1].stdout_file = NULL
          BY <1>3, <1>4, <2>1, <3>1, <3>4, <4>3 DEF Pipes
        <4>6. CutRight'
          BY <1>1, <1>2, <4>1, <4>3, <4>4, <4>5, PrimedParse
        <4>7. shell' # "parse"
          BY <1>1, <3>4
        <4> QED
          BY <1>1, <4>6, <4>7, PrimedParse
      <3> QED
        BY <3>3, <3>4
    <2> QED
      BY <2>5, <2>6, <2>7
  <1> QED
    BY <1>7, <1>8, <1>9
-----------------------------------------------------------------------------
(***************************************************************************)
(* The processes.  A step that leaves the stages alone keeps what parsing  *)
(* has established.                                                        *)
(***************************************************************************)

Processes ==
  /\ ProcessTypes /\ stage \in 1 .. MaxStages
  /\ shell \in {"parse", "exec", "wait", "prompt"}
  /\ Placed /\ RunnerWired /\ ChildrenWired

LEMMA InvParts ==
  /\ IInv <=> LineTypes /\ Parsed /\ ParsedRight /\ Processes
  /\ IInv' <=> LineTypes' /\ Parsed' /\ ParsedRight' /\ Processes'
  BY TypeParts, Zenon DEF IInv, Processes

LEMMA Kept ==
  ASSUME IInv, shell # "parse", shell' # "parse",
         host' = host, line' = line, t_count' = t_count, from' = from, cmds' = cmds
  PROVE  LineTypes' /\ Parsed' /\ ParsedRight' /\ Pipes' = Pipes
  <1>1. LineTypes /\ Parsed /\ ParsedRight
    BY InvParts
  <1>2. LineTypes'
    BY <1>1 DEF LineTypes
  <1>3. Pipes' = Pipes
    BY DEF Pipes, PipesOf
  <1>4. Parsed'
    BY <1>1, <1>3 DEF Parsed
  <1>5. CutRight' <=> CutRight
    BY <1>3, PrimedParse DEF CutRight, Pipes
  <1>6. WellFormed' <=> WellFormed
    BY PrimedParse
  <1>7. ParsedRight'
    BY <1>1, <1>5, <1>6, Zenon DEF ParsedRight
  <1> QED
    BY <1>2, <1>3, <1>4, <1>7

(* Once the line is parsed, the runner's stage is one of the stages, and   *)
(* if it has a pipe it has a child.                                        *)
LEMMA StageFacts ==
  ASSUME IInv, shell # "parse"
  PROVE  /\ stage \in 1 .. Len(cmds)
         /\ cmds[stage].stdout_pipe <=> stage \in Pipes
         /\ stage \in Pipes => stage \in Procs \ {0} /\ stage + 1 \in 1 .. MaxStages
         /\ stage \in Pipes => 1 .. stage \subseteq Pipes
  <1>1. /\ LineTypes /\ stage \in 1 .. MaxStages /\ 1 .. stage - 1 \subseteq Pipes
        /\ Len(cmds) >= 1 /\ Len(cmds) \notin Pipes /\ Cardinality(Pipes) < MaxStages
    BY InvParts DEF Processes, Placed, Parsed
  <1>2. Len(cmds) \in Nat /\ MaxStages \in Nat
    BY <1>1, PipesFinite, Constants
  <1>3. stage \in 1 .. Len(cmds)
    <2>1. stage <= Len(cmds)
      <3>1. stage > Len(cmds) => Len(cmds) \in 1 .. stage - 1
        BY <1>1, <1>2
      <3> QED
        BY <1>1, <1>2, <3>1
    <2> QED
      BY <1>1, <1>2, <2>1
  <1>4. cmds[stage].stdout_pipe <=> stage \in Pipes
    BY <1>3, Zenon DEF Pipes, PipesOf
  <1>5. ASSUME stage \in Pipes
        PROVE  stage \in Procs \ {0} /\ stage + 1 \in 1 .. MaxStages /\ 1 .. stage \subseteq Pipes
    <2>1. 1 .. stage \subseteq Pipes
      <3>1. \A k \in 1 .. stage : k \in 1 .. stage - 1 \/ k = stage
        BY <1>1, <1>2
      <3> QED
        BY <1>1, <1>5, <3>1
    <2>2. stage \in Nat
      BY <1>1, <1>2
    <2>3. stage < MaxStages
      BY <1>1, <2>1, <2>2, FewPipes
    <2> QED
      BY <1>1, <1>2, <2>1, <2>3, Constants
  <1> QED
    BY <1>3, <1>4, <1>5

(* What holds of a process that exists. *)
LEMMA AliveFacts ==
  ASSUME IInv, NEW p \in Procs, at[p] # "none"
  PROVE  shell # "parse" /\ shell # "exec" /\ at[0] # "none" /\ (p # 0 => p \in Pipes)
  <1>1. Placed /\ ProcessTypes /\ stage \in 1 .. MaxStages
    BY InvParts DEF Processes
  <1>2. CASE p = 0
    BY <1>1, <1>2 DEF Placed
  <1>3. CASE p # 0
    <2>1. p < stage \/ (p = stage /\ at[0] = "parent")
      BY <1>1, <1>3 DEF Placed
    <2>2. p \in Int /\ 0 < p /\ stage \in Int
      BY <1>1, <1>3, Constants
    <2>3. at[0] # "none"
      BY <1>1, <2>1, <2>2 DEF Placed
    <2>4. p \in Pipes
      <3>1. CASE p < stage
        BY <1>1, <2>2, <3>1 DEF Placed
      <3>2. CASE p = stage /\ at[0] = "parent"
        BY <1>1, <3>2 DEF Placed
      <3> QED
        BY <2>1, <3>1, <3>2
    <2> QED
      BY <1>1, <2>3, <2>4 DEF Placed
  <1> QED
    BY <1>2, <1>3

(* A step of one process that changes only what is its own keeps the       *)
(* others as they are.                                                     *)
LEMMA OneMoves ==
  ASSUME IInv, NEW p \in Procs, at[p] \notin {"none", "ended", "parent"},
         NEW x \in {"fork", "exec", "run", "full", "ended"},
         at' = [at EXCEPT ![p] = x],
         x = "fork" => p = 0 /\ stage \in Pipes,
         shell' = shell, stage' = stage, cmds' = cmds, Pipes' = Pipes,
         ProcessTypes',
         \A q \in Procs \ {p} : /\ stdin'[q] = stdin[q] /\ stdout'[q] = stdout[q]
                                /\ other'[q] = other[q] /\ kind'[q] = kind[q],
         p = 0 => RunnerWired',
         p # 0 => ChildWired(p)'
  PROVE  Processes'
  <1>1. Processes /\ 0 \in Procs
    BY InvParts, Constants
  <1>2. at \in [Procs -> Points] /\ stage \in 1 .. MaxStages
    BY <1>1 DEF Processes, ProcessTypes
  <1>3. /\ at'[p] = x /\ \A q \in Procs : q # p => at'[q] = at[q]
        /\ at[p] # "none" /\ at'[p] # "none" /\ at[p] # "parent" /\ at'[p] # "parent"
        /\ at'[p] # "child"
    BY <1>2
  <1>4. Placed'
    <2>1. Placed
      BY <1>1 DEF Processes
    <2>2. at'[0] = "none" <=> at[0] = "none"
      BY <1>1, <1>3
    <2>3. at'[0] \notin {"none", "ended"} => at[0] \notin {"none", "ended"}
      BY <1>1, <1>3
    <2>4. at'[0] = "parent" <=> at[0] = "parent"
      BY <1>1, <1>3
    <2>5. at'[0] \in {"fork", "parent"} => stage \in Pipes
      BY <1>1, <1>3, <2>1 DEF Placed
    <2>6. at'[0] # "child"
      BY <1>1, <1>3, <2>1 DEF Placed
    <2>7. ASSUME NEW q \in Procs \ {0}
          PROVE  /\ at'[q] \in {"none", "child", "exec", "run", "full", "ended"}
                 /\ at'[q] # "none" => q < stage \/ (q = stage /\ at'[0] = "parent")
      <3>1. /\ at[q] \in {"none", "child", "exec", "run", "full", "ended"}
            /\ at[q] # "none" => q < stage \/ (q = stage /\ at[0] = "parent")
        BY <2>1 DEF Placed
      <3>2. CASE q = p
        BY <1>3, <2>4, <3>1, <3>2
      <3>3. CASE q # p
        BY <1>3, <2>4, <3>1, <3>3
      <3> QED
        BY <3>2, <3>3
    <2> QED
      BY <2>1, <2>2, <2>3, <2>5, <2>6, <2>7 DEF Placed
  <1>5. RunnerWired'
    <2>1. CASE p = 0
      BY <2>1
    <2>2. CASE p # 0
      <3>1. /\ at'[0] = at[0] /\ stdin'[0] = stdin[0] /\ stdout'[0] = stdout[0]
            /\ other'[0] = other[0] /\ kind'[0] = kind[0]
        BY <1>1, <1>3, <2>2
      <3> QED
        BY <1>1, <3>1, Zenon DEF Processes, RunnerWired, Executes, ReadsStage, Stage
    <2> QED
      BY <2>1, <2>2
  <1>6. ASSUME NEW q \in Procs \ {0} PROVE ChildWired(q)'
    <2>1. CASE q = p
      BY <2>1
    <2>2. CASE q # p
      <3>1. /\ at'[q] = at[q] /\ stdin'[q] = stdin[q] /\ stdout'[q] = stdout[q]
            /\ other'[q] = other[q] /\ kind'[q] = kind[q]
        BY <1>3, <2>2
      <3>2. ChildWired(q)
        BY <1>1 DEF Processes, ChildrenWired
      <3> QED
        BY <3>1, <3>2, Zenon DEF ChildWired, Executes, ReadsStage, Stage
    <2> QED
      BY <2>1, <2>2
  <1> QED
    BY <1>1, <1>2, <1>4, <1>5, <1>6 DEF Processes, ChildrenWired

(* A program's step: the descriptors stay as execute_pipeline() left them. *)
LEMMA ProgramMoves ==
  ASSUME IInv, NEW p \in Procs, at[p] \in {"exec", "run", "full"},
         NEW x \in {"run", "full", "ended"}, at' = [at EXCEPT ![p] = x],
         NEW y \in Kinds, kind' = [kind EXCEPT ![p] = y],
         x # "ended" => (y = "shell" <=> at[p] # "exec" /\ kind[p] = "shell"),
         buffered' \in [1 .. MaxStages -> 0 .. Capacity],
         host' = host, line' = line, t_count' = t_count, from' = from, cmds' = cmds,
         shell' = shell, stage' = stage, stdin' = stdin, stdout' = stdout, other' = other
  PROVE  IInv'
  <1>1. Processes /\ ProcessTypes
    BY InvParts DEF Processes
  <1>2. at[p] \notin {"none", "ended", "parent"} /\ x \in {"fork", "exec", "run", "full", "ended"}
    OBVIOUS
  <1>3. shell # "parse" /\ LineTypes' /\ Parsed' /\ ParsedRight' /\ Pipes' = Pipes
    BY <1>2, AliveFacts, Kept
  <1>4. /\ at'[p] = x /\ kind'[p] = y
        /\ \A q \in Procs \ {p} : kind'[q] = kind[q]
    BY <1>1 DEF ProcessTypes
  <1>5. ProcessTypes'
    <2>1. at' \in [Procs -> Points] /\ kind' \in [Procs -> Kinds]
      BY <1>1 DEF ProcessTypes, Points
    <2> QED
      BY <1>1, <2>1 DEF ProcessTypes
  <1>6. Executes(p)' => Executes(p)
    BY <1>4 DEF Executes
  <1>7. x # "ended" /\ y = "shell" => at[p] \in {"run", "full"} /\ kind[p] = "shell"
    OBVIOUS
  <1>8. p = 0 => RunnerWired'
    <2>1. SUFFICES ASSUME p = 0 PROVE RunnerWired'
      OBVIOUS
    <2>2. RunnerWired
      BY <1>1 DEF Processes
    <2>3. at'[0] = x /\ kind'[0] = y /\ (Executes(0)' => Executes(0))
      BY <1>4, <1>6, <2>1
    <2>4. at'[0] \notin {"none", "stage", "fork", "parent", "exec"}
      BY <2>3
    <2>5. ReadsStage(0)' <=> ReadsStage(0)
      BY DEF ReadsStage, Stage
    <2>6. at'[0] \in {"run", "full"} /\ kind'[0] = "shell" =>
            at[0] \in {"run", "full"} /\ kind[0] = "shell"
      BY <1>7, <2>1, <2>3
    <2> QED
      BY <1>3, <2>2, <2>3, <2>4, <2>5, <2>6, Zenon DEF RunnerWired, Runner
  <1>9. p # 0 => ChildWired(p)'
    <2>1. SUFFICES ASSUME p # 0 PROVE ChildWired(p)'
      OBVIOUS
    <2>2. ChildWired(p) /\ at[p] # "none"
      BY <1>1, <2>1 DEF Processes, ChildrenWired
    <2> QED
      BY <1>6, <2>2, Zenon DEF ChildWired, ReadsStage, Stage
  <1>10. Processes'
    BY <1>2, <1>3, <1>4, <1>5, <1>8, <1>9, OneMoves
  <1> QED
    BY <1>3, <1>10, InvParts

LEMMA TakeKeeps ==
  ASSUME IInv, NEW p \in Procs, take(p) PROVE IInv'
  <1>1. ProcessTypes
    BY InvParts DEF Processes
  <1>2. /\ at[p] = "run" /\ at' = [at EXCEPT ![p] = "full"] /\ kind' = kind
        /\ host' = host /\ line' = line /\ t_count' = t_count /\ from' = from /\ cmds' = cmds
        /\ shell' = shell /\ stage' = stage /\ stdin' = stdin /\ stdout' = stdout /\ other' = other
    BY DEF take, GoTo, parsing, fds
  <1>3. kind' = [kind EXCEPT ![p] = kind[p]] /\ kind[p] \in Kinds
    BY <1>1, <1>2 DEF ProcessTypes
  <1>4. buffered' \in [1 .. MaxStages -> 0 .. Capacity]
    <2>1. CASE buffered' = buffered
      BY <1>1, <2>1 DEF ProcessTypes
    <2>2. CASE \E k \in 1 .. MaxStages :
                 buffered[k] > 0 /\ buffered' = [buffered EXCEPT ![k] = @ - 1]
      BY <1>1, <2>2, Constants DEF ProcessTypes
    <2> QED
      BY <2>1, <2>2 DEF take
  <1> QED
    BY <1>2, <1>3, <1>4, ProgramMoves

LEMMA LeaveKeeps ==
  ASSUME IInv, NEW p \in Procs, leave(p) PROVE IInv'
  <1>1. ProcessTypes
    BY InvParts DEF Processes
  <1>2. /\ at[p] = "run" /\ at' = [at EXCEPT ![p] = "ended"] /\ kind' = kind /\ buffered' = buffered
        /\ host' = host /\ line' = line /\ t_count' = t_count /\ from' = from /\ cmds' = cmds
        /\ shell' = shell /\ stage' = stage /\ stdin' = stdin /\ stdout' = stdout /\ other' = other
    BY DEF leave, GoTo, parsing, fds
  <1>3. kind' = [kind EXCEPT ![p] = kind[p]] /\ kind[p] \in Kinds
    BY <1>1, <1>2 DEF ProcessTypes
  <1>4. buffered' \in [1 .. MaxStages -> 0 .. Capacity]
    BY <1>1, <1>2 DEF ProcessTypes
  <1> QED
    BY <1>2, <1>3, <1>4, ProgramMoves

LEMMA PutKeeps ==
  ASSUME IInv, NEW p \in Procs, put(p) PROVE IInv'
  <1>1. ProcessTypes
    BY InvParts DEF Processes
  <1>2. /\ at[p] \in {"run", "full"} /\ kind' = kind
        /\ host' = host /\ line' = line /\ t_count' = t_count /\ from' = from /\ cmds' = cmds
        /\ shell' = shell /\ stage' = stage /\ stdin' = stdin /\ stdout' = stdout /\ other' = other
    BY DEF put, parsing, fds
  <1>3. kind' = [kind EXCEPT ![p] = kind[p]] /\ kind[p] \in Kinds
    BY <1>1, <1>2 DEF ProcessTypes
  <1>4. PICK x \in {"run", "full", "ended"} : at' = [at EXCEPT ![p] = x]
    <2>1. at' = [at EXCEPT ![p] = "run"] \/ at' = [at EXCEPT ![p] = "ended"]
      BY Zenon DEF put, GoTo
    <2> QED
      BY <2>1
  <1>5. buffered' \in [1 .. MaxStages -> 0 .. Capacity]
    <2>1. CASE buffered' = buffered
      BY <1>1, <2>1 DEF ProcessTypes
    <2>2. CASE \E k \in 1 .. MaxStages :
                 buffered[k] < Capacity /\ buffered' = [buffered EXCEPT ![k] = @ + 1]
      BY <1>1, <2>2, Constants DEF ProcessTypes
    <2>3. buffered' = buffered \/ \E k \in 1 .. MaxStages :
                 buffered[k] < Capacity /\ buffered' = [buffered EXCEPT ![k] = @ + 1]
      <3>1. CASE \E k \in 1 .. MaxStages : stdout[p] = WriteEnd(k)
        <4>1. PICK k \in 1 .. MaxStages : stdout[p] = WriteEnd(k)
          BY <3>1
        <4>2. stdout[p][2] = k
          BY <4>1, EndFacts
        <4> QED
          BY <3>1, <4>2, Zenon DEF put
      <3>2. CASE ~ \E k \in 1 .. MaxStages : stdout[p] = WriteEnd(k)
        BY <3>2, Zenon DEF put
      <3> QED
        BY <3>1, <3>2
    <2> QED
      BY <2>1, <2>2, <2>3
  <1>6. x # "ended" => (kind[p] = "shell" <=> at[p] # "exec" /\ kind[p] = "shell")
    BY <1>2
  <1> QED
    BY <1>2, <1>3, <1>4, <1>5, <1>6, ProgramMoves

LEMMA ExecKeeps ==
  ASSUME IInv, NEW p \in Procs, execvp(p) PROVE IInv'
  <1>1. ProcessTypes
    BY InvParts DEF Processes
  <1>2. /\ at[p] = "exec" /\ buffered' = buffered
        /\ host' = host /\ line' = line /\ t_count' = t_count /\ from' = from /\ cmds' = cmds
        /\ shell' = shell /\ stage' = stage /\ stdin' = stdin /\ stdout' = stdout /\ other' = other
    BY DEF execvp, parsing, fds
  <1>3. buffered' \in [1 .. MaxStages -> 0 .. Capacity]
    BY <1>1, <1>2 DEF ProcessTypes
  <1>4. CASE at' = [at EXCEPT ![p] = "ended"] /\ kind' = kind
    <2>1. kind' = [kind EXCEPT ![p] = kind[p]] /\ kind[p] \in Kinds
      BY <1>1, <1>4 DEF ProcessTypes
    <2> QED
      BY <1>2, <1>3, <1>4, <2>1, ProgramMoves
  <1>5. CASE /\ at' = [at EXCEPT ![p] = "run"]
             /\ \E k \in {"filter", "brief", "endless"} : kind' = [kind EXCEPT ![p] = k]
    <2>1. PICK k \in {"filter", "brief", "endless"} : kind' = [kind EXCEPT ![p] = k]
      BY <1>5
    <2>2. k \in Kinds /\ k # "shell"
      BY DEF Kinds
    <2> QED
      BY <1>2, <1>3, <1>5, <2>1, <2>2, ProgramMoves
  <1> QED
    BY <1>4, <1>5, Zenon DEF execvp, GoTo

(* execute_pipeline() returns in process p: in the runner only at a pipe   *)
(* or a file, or with its standard input closed.                           *)
LEMMA ReturnKeeps ==
  ASSUME IInv, NEW p \in Procs, at[p] \in {"stage", "fork", "exec"}, Return(p),
         host' = host, line' = line, t_count' = t_count, from' = from, cmds' = cmds,
         shell' = shell, stage' = stage, stdout' = stdout, other' = other, buffered' = buffered,
         \/ stdin' = stdin
         \/ p = 0 /\ stdin' = [stdin EXCEPT ![0] = Closed],
         p = 0 /\ host = "shell" =>
           \/ stdin'[0] = Closed
           \/ stage \in Pipes \/ cmds[stage].stdout_file # NULL
  PROVE  IInv'
  <1>1. Processes /\ ProcessTypes /\ 0 \in Procs
    BY InvParts, Constants DEF Processes
  <1>2. at[p] \notin {"none", "ended", "parent"}
    OBVIOUS
  <1>3. shell # "parse" /\ LineTypes' /\ Parsed' /\ ParsedRight' /\ Pipes' = Pipes
    BY <1>2, AliveFacts, Kept
  <1> DEFINE x == IF host = "shell" THEN "run" ELSE "ended"
  <1>4. /\ at' = [at EXCEPT ![p] = x] /\ kind' = [kind EXCEPT ![p] = "shell"]
        /\ x \in {"fork", "exec", "run", "full", "ended"} /\ x # "fork"
        /\ x = "run" => host = "shell"
    BY Zenon DEF Return, GoTo
  <1>5. /\ at'[p] = x /\ kind'[p] = "shell"
        /\ \A q \in Procs \ {p} : kind'[q] = kind[q] /\ stdin'[q] = stdin[q]
    BY <1>1, <1>4 DEF ProcessTypes
  <1>6. ProcessTypes'
    <2>1. at' \in [Procs -> Points] /\ kind' \in [Procs -> Kinds]
      BY <1>1, <1>4 DEF ProcessTypes, Points, Kinds
    <2>2. stdin' \in [Procs -> {Terminal, Closed} \cup Ends]
      BY <1>1 DEF ProcessTypes
    <2> QED
      BY <1>1, <2>1, <2>2 DEF ProcessTypes
  <1>7. ~ Executes(p)' /\ x \in {"run", "ended"}
    BY <1>4, <1>5 DEF Executes
  <1> HIDE DEF x
  <1>8. p = 0 => RunnerWired'
    <2>1. SUFFICES ASSUME p = 0 PROVE RunnerWired'
      OBVIOUS
    <2>2. RunnerWired
      BY <1>1 DEF Processes
    <2>3. at'[0] \in {"run", "ended"} /\ ~ Executes(0)' /\ (at'[0] = "run" => host = "shell")
      BY <1>4, <1>5, <1>7, <2>1
    <2>4. ReadsStage(0)
      BY <2>1, <2>2 DEF RunnerWired, Runner
    <2>5. stdin'[0] = Closed \/ ReadsStage(0)'
      BY <1>1, <2>4 DEF ReadsStage, Stage, ProcessTypes
    <2>6. at'[0] = "run" => \/ stdin'[0] = Closed
                            \/ stage \in Pipes \/ cmds[stage].stdout_file # NULL
      BY <2>1, <2>3
    <2>7. at'[0] \in {"run", "full"} /\ kind'[0] = "shell" =>
            \/ stdin'[0] = Closed
            \/ ReadsStage(0)' /\ (stage \in Pipes \/ cmds[stage].stdout_file # NULL)
      BY <2>3, <2>5, <2>6
    <2>8. at'[0] \notin {"none", "stage", "fork", "parent", "exec"}
      BY <2>3
    <2> QED
      BY <1>3, <2>2, <2>3, <2>7, <2>8, Zenon DEF RunnerWired, Runner
  <1>9. p # 0 => ChildWired(p)'
    <2>1. SUFFICES ASSUME p # 0 PROVE ChildWired(p)'
      OBVIOUS
    <2>2. ChildWired(p) /\ at[p] # "none" /\ stdin' = stdin
      BY <1>1, <2>1 DEF Processes, ChildrenWired
    <2> QED
      BY <1>7, <2>2, Zenon DEF ChildWired, ReadsStage, Stage
  <1>10. Processes'
    BY <1>2, <1>3, <1>4, <1>5, <1>6, <1>8, <1>9, OneMoves
  <1> QED
    BY <1>3, <1>10, InvParts

LEMMA NotFoundKeeps ==
  ASSUME IInv, NEW p \in Procs, command_not_found(p) PROVE IInv'
  <1>1. ProcessTypes /\ 0 \in Procs
    BY InvParts, Constants DEF Processes
  <1>2. /\ at[p] = "exec" /\ Return(p)
        /\ stdin' = IF p = 0 /\ host = "shell" THEN [stdin EXCEPT ![0] = Closed] ELSE stdin
        /\ buffered' = buffered
        /\ host' = host /\ line' = line /\ t_count' = t_count /\ from' = from /\ cmds' = cmds
        /\ shell' = shell /\ stage' = stage /\ stdout' = stdout /\ other' = other
    BY DEF command_not_found, parsing
  <1>3. p = 0 /\ host = "shell" => stdin'[0] = Closed
    BY <1>1, <1>2 DEF ProcessTypes
  <1>4. stdin' = stdin \/ (p = 0 /\ stdin' = [stdin EXCEPT ![0] = Closed])
    BY <1>2
  <1> HIDE DEF Return
  <1> QED
    BY <1>2, <1>3, <1>4, ReturnKeeps

LEMMA RedirectKeeps ==
  ASSUME IInv, redirect PROVE IInv'
  <1>1. Processes /\ ProcessTypes /\ 0 \in Procs
    BY InvParts, Constants DEF Processes
  <1>2. /\ at[0] = "stage" /\ ~ cmds[stage].stdout_pipe
        /\ stdin' = stdin /\ other' = other /\ buffered' = buffered
        /\ host' = host /\ line' = line /\ t_count' = t_count /\ from' = from /\ cmds' = cmds
        /\ shell' = shell /\ stage' = stage
    BY DEF redirect, parsing
  <1>3. at[0] \notin {"none", "ended", "parent"}
    BY <1>2
  <1>4. shell # "parse" /\ LineTypes' /\ Parsed' /\ ParsedRight' /\ Pipes' = Pipes
    BY <1>1, <1>2, <1>3, AliveFacts, Kept
  <1>5. stage \notin Pipes /\ stage \in 1 .. MaxStages
    BY <1>1, <1>2, <1>4, StageFacts DEF Processes
  <1>6. CASE /\ at' = [at EXCEPT ![0] = "exec"] /\ kind' = kind
             /\ stdout' = [stdout EXCEPT ![0] = IF cmds[stage].stdout_file # NULL
                                                  THEN File(stage) ELSE @]
    <2>1. /\ at'[0] = "exec" /\ \A q \in Procs \ {0} : stdout'[q] = stdout[q]
          /\ stdout'[0] = IF cmds[stage].stdout_file # NULL THEN File(stage) ELSE stdout[0]
      BY <1>1, <1>6 DEF ProcessTypes
    <2>2. ProcessTypes'
      <3>1. at' \in [Procs -> Points]
        BY <1>1, <1>6 DEF ProcessTypes, Points
      <3>2. stdout' \in [Procs -> {Terminal} \cup {File(k) : k \in 1 .. MaxStages} \cup Ends]
        BY <1>1, <1>5, <1>6 DEF ProcessTypes
      <3> QED
        BY <1>1, <1>2, <1>6, <3>1, <3>2 DEF ProcessTypes
    <2>3. RunnerWired'
      <3>1. /\ stdout[0] = Terminal /\ ReadsStage(0) /\ kind[0] # "shell"
            /\ \A j \in 1 .. MaxStages : WriteEnd(j) \in other[0] => j = stage
        BY <1>1, <1>2 DEF Processes, RunnerWired, Runner
      <3>2. ReadsStage(0)'
        BY <1>2, <3>1 DEF ReadsStage, Stage
      <3>3. at'[0] \notin {"none", "stage", "fork", "parent", "run", "full"}
        BY <2>1
      <3> QED
        BY <1>2, <1>4, <1>5, <1>6, <2>1, <3>1, <3>2, <3>3, Zenon DEF RunnerWired
    <2>4. Processes'
      BY <1>1, <1>2, <1>3, <1>4, <1>6, <2>1, <2>2, <2>3, OneMoves
    <2> QED
      BY <1>4, <2>4, InvParts
  <1>7. CASE cmds[stage].stdout_file # NULL /\ Return(0) /\ stdout' = stdout
    BY <1>1, <1>2, <1>7, ReturnKeeps
  <1> QED
    BY <1>6, <1>7, Zenon DEF redirect, GoTo

LEMMA MakePipeKeeps ==
  ASSUME IInv, make_pipe PROVE IInv'
  <1>1. Processes /\ ProcessTypes /\ 0 \in Procs
    BY InvParts, Constants DEF Processes
  <1>2. /\ at[0] = "stage" /\ cmds[stage].stdout_pipe
        /\ stdin' = stdin /\ stdout' = stdout /\ buffered' = buffered
        /\ host' = host /\ line' = line /\ t_count' = t_count /\ from' = from /\ cmds' = cmds
        /\ shell' = shell /\ stage' = stage
    BY DEF make_pipe, parsing
  <1>3. at[0] \notin {"none", "ended", "parent"}
    BY <1>2
  <1>4. shell # "parse" /\ LineTypes' /\ Parsed' /\ ParsedRight' /\ Pipes' = Pipes
    BY <1>1, <1>2, <1>3, AliveFacts, Kept
  <1>5. stage \in Pipes /\ stage \in 1 .. MaxStages
    BY <1>1, <1>2, <1>4, StageFacts DEF Processes
  <1>6. CASE /\ at' = [at EXCEPT ![0] = "fork"] /\ kind' = kind
             /\ other' = [other EXCEPT ![0] = @ \cup {ReadEnd(stage), WriteEnd(stage)}]
    <2>1. /\ at'[0] = "fork" /\ \A q \in Procs \ {0} : other'[q] = other[q]
          /\ other'[0] = other[0] \cup {ReadEnd(stage), WriteEnd(stage)}
      BY <1>1, <1>6 DEF ProcessTypes
    <2>2. ProcessTypes'
      <3>1. at' \in [Procs -> Points]
        BY <1>1, <1>6 DEF ProcessTypes, Points
      <3>2. other' \in [Procs -> SUBSET Ends]
        BY <1>1, <1>5, <1>6, EndFacts DEF ProcessTypes
      <3> QED
        BY <1>1, <1>2, <1>6, <3>1, <3>2 DEF ProcessTypes
    <2>3. RunnerWired'
      <3>1. /\ stdout[0] = Terminal /\ ReadsStage(0) /\ kind[0] # "shell"
            /\ \A j \in 1 .. MaxStages : WriteEnd(j) \in other[0] => j = stage
        BY <1>1, <1>2 DEF Processes, RunnerWired, Runner
      <3>2. ReadsStage(0)'
        BY <1>2, <3>1 DEF ReadsStage, Stage
      <3>3. at'[0] \notin {"exec", "run", "full"}
        BY <2>1
      <3>4. \A j \in 1 .. MaxStages : WriteEnd(j) \in other'[0] => j = stage
        BY <2>1, <3>1, EndFacts
      <3> QED
        BY <1>2, <1>6, <3>1, <3>2, <3>3, <3>4, Zenon DEF RunnerWired, Executes
    <2>4. Processes'
      BY <1>1, <1>2, <1>3, <1>4, <1>5, <1>6, <2>1, <2>2, <2>3, OneMoves
    <2> QED
      BY <1>4, <2>4, InvParts
  <1>7. CASE Return(0) /\ other' = other
    BY <1>1, <1>2, <1>5, <1>7, ReturnKeeps
  <1> QED
    BY <1>6, <1>7, Zenon DEF make_pipe, GoTo

LEMMA ChildKeeps ==
  ASSUME IInv, NEW p \in Procs, child(p) PROVE IInv'
  <1>1. Processes /\ ProcessTypes /\ 0 \in Procs
    BY InvParts, Constants DEF Processes
  <1>2. /\ at[p] = "child" /\ at' = [at EXCEPT ![p] = "exec"]
        /\ stdout' = [stdout EXCEPT ![p] = WriteEnd(p)]
        /\ other' = [other EXCEPT ![p] = @ \ {ReadEnd(p)}]
        /\ stdin' = stdin /\ kind' = kind /\ buffered' = buffered
        /\ host' = host /\ line' = line /\ t_count' = t_count /\ from' = from /\ cmds' = cmds
        /\ shell' = shell /\ stage' = stage
    BY DEF child, GoTo, parsing
  <1>3. at[p] \notin {"none", "ended", "parent"}
    BY <1>2
  <1>4. shell # "parse" /\ LineTypes' /\ Parsed' /\ ParsedRight' /\ Pipes' = Pipes
    BY <1>2, <1>3, AliveFacts, Kept
  <1>5. p # 0 /\ p \in 1 .. MaxStages
    <2>1. p # 0
      BY <1>1, <1>2 DEF Processes, Placed
    <2> QED
      BY <2>1, Constants
  <1>6. /\ at'[p] = "exec" /\ stdout'[p] = WriteEnd(p) /\ other'[p] = other[p] \ {ReadEnd(p)}
        /\ \A q \in Procs \ {p} : stdout'[q] = stdout[q] /\ other'[q] = other[q]
    BY <1>1, <1>2 DEF ProcessTypes
  <1>7. ProcessTypes'
    <2>1. at' \in [Procs -> Points]
      BY <1>1, <1>2 DEF ProcessTypes, Points
    <2>2. stdout' \in [Procs -> {Terminal} \cup {File(k) : k \in 1 .. MaxStages} \cup Ends]
      BY <1>1, <1>2, <1>5, EndFacts DEF ProcessTypes
    <2>3. other' \in [Procs -> SUBSET Ends]
      BY <1>1, <1>2 DEF ProcessTypes
    <2> QED
      BY <1>1, <1>2, <2>1, <2>2, <2>3 DEF ProcessTypes
  <1>8. ChildWired(p)'
    <2>1. ChildWired(p) /\ at[p] # "none"
      BY <1>1, <1>2, <1>5 DEF Processes, ChildrenWired
    <2>2. ReadsStage(p) /\ \A j \in 1 .. MaxStages : WriteEnd(j) \in other[p] => j = p
      BY <2>1 DEF ChildWired
    <2>3. ReadsStage(p)'
      BY <1>2, <1>5, <2>2 DEF ReadsStage, Stage
    <2> QED
      BY <1>6, <2>2, <2>3 DEF ChildWired
  <1>9. Processes'
    BY <1>2, <1>3, <1>4, <1>5, <1>6, <1>7, <1>8, OneMoves
  <1> QED
    BY <1>4, <1>9, InvParts

(* fork(): the new child holds what the runner held. *)
LEMMA ForkStageKeeps ==
  ASSUME IInv, fork_stage PROVE IInv'
  <1>1. Processes /\ ProcessTypes /\ 0 \in Procs /\ Placed
    BY InvParts, Constants DEF Processes
  <1>2. /\ at[0] = "fork" /\ buffered' = buffered
        /\ host' = host /\ line' = line /\ t_count' = t_count /\ from' = from /\ cmds' = cmds
        /\ shell' = shell /\ stage' = stage
    BY DEF fork_stage, parsing
  <1>3. shell # "parse" /\ LineTypes' /\ Parsed' /\ ParsedRight' /\ Pipes' = Pipes
    BY <1>1, <1>2, AliveFacts, Kept
  <1>4. stage \in Pipes /\ stage \in Procs \ {0} /\ stage \in 1 .. MaxStages
    BY <1>1, <1>2, <1>3, StageFacts DEF Processes, Placed
  <1>5. CASE /\ at' = [at EXCEPT ![0] = "parent", ![stage] = "child"]
             /\ stdin' = [stdin EXCEPT ![stage] = stdin[0]]
             /\ stdout' = [stdout EXCEPT ![stage] = stdout[0]]
             /\ other' = [other EXCEPT ![stage] = other[0]]
             /\ kind' = kind
    <2>1. /\ at'[0] = "parent" /\ at'[stage] = "child"
          /\ stdin'[stage] = stdin[0] /\ other'[stage] = other[0]
          /\ \A q \in Procs \ {0, stage} : at'[q] = at[q]
          /\ \A q \in Procs \ {stage} :
               stdin'[q] = stdin[q] /\ stdout'[q] = stdout[q] /\ other'[q] = other[q]
      BY <1>1, <1>4, <1>5 DEF ProcessTypes
    <2>2. ProcessTypes'
      <3>1. at' \in [Procs -> Points]
        BY <1>1, <1>4, <1>5 DEF ProcessTypes, Points
      <3>2. /\ stdin' \in [Procs -> {Terminal, Closed} \cup Ends]
            /\ stdout' \in [Procs -> {Terminal} \cup {File(k) : k \in 1 .. MaxStages} \cup Ends]
            /\ other' \in [Procs -> SUBSET Ends]
        BY <1>1, <1>5 DEF ProcessTypes
      <3> QED
        BY <1>1, <1>2, <1>5, <3>1, <3>2 DEF ProcessTypes
    <2>3. Placed'
      <3>1. shell = "wait" /\ 1 .. stage - 1 \subseteq Pipes
        BY <1>1, <1>2 DEF Placed
      <3>2. ASSUME NEW q \in Procs \ {0}
            PROVE  /\ at'[q] \in {"none", "child", "exec", "run", "full", "ended"}
                   /\ at'[q] # "none" => q < stage \/ (q = stage /\ at'[0] = "parent")
        <4>1. CASE q = stage
          BY <2>1, <4>1
        <4>2. CASE q # stage
          BY <1>1, <1>2, <2>1, <4>2 DEF Placed
        <4> QED
          BY <4>1, <4>2
      <3> QED
        BY <1>2, <1>3, <1>4, <2>1, <3>1, <3>2 DEF Placed
    <2>4. /\ stdout[0] = Terminal /\ ReadsStage(0) /\ kind[0] # "shell"
          /\ \A j \in 1 .. MaxStages : WriteEnd(j) \in other[0] => j = stage
      BY <1>1, <1>2 DEF Processes, RunnerWired, Runner
    <2>5. /\ stdin'[0] = stdin[0] /\ stdout'[0] = stdout[0] /\ other'[0] = other[0]
      BY <1>1, <1>4, <2>1
    <2>6. RunnerWired'
      <3>1. ReadsStage(0)'
        BY <1>2, <2>4, <2>5 DEF ReadsStage, Stage
      <3>2. at'[0] \notin {"exec", "run", "full"}
        BY <2>1
      <3> QED
        BY <1>2, <1>5, <2>4, <2>5, <3>1, <3>2, Zenon DEF RunnerWired, Executes
    <2>7. ASSUME NEW q \in Procs \ {0} PROVE ChildWired(q)'
      <3>1. CASE q = stage
        <4>1. stdin'[q] = IF q = 1 THEN Terminal ELSE ReadEnd(q - 1)
          BY <2>1, <2>4, <3>1 DEF ReadsStage, Stage
        <4>2. ReadsStage(q)'
          BY <4>1 DEF ReadsStage, Stage
        <4>3. ~ Executes(q)' /\ \A j \in 1 .. MaxStages : WriteEnd(j) \in other'[q] => j = q
          BY <2>1, <2>4, <3>1 DEF Executes
        <4> QED
          BY <4>2, <4>3 DEF ChildWired
      <3>2. CASE q # stage
        <4>1. /\ at'[q] = at[q] /\ stdin'[q] = stdin[q] /\ stdout'[q] = stdout[q]
              /\ other'[q] = other[q] /\ kind'[q] = kind[q]
          BY <1>5, <2>1, <3>2
        <4>2. ChildWired(q)
          BY <1>1 DEF Processes, ChildrenWired
        <4> QED
          BY <4>1, <4>2, Zenon DEF ChildWired, Executes, ReadsStage, Stage
      <3> QED
        BY <3>1, <3>2
    <2>8. Processes'
      BY <1>1, <1>2, <2>2, <2>3, <2>6, <2>7 DEF Processes, ChildrenWired
    <2> QED
      BY <1>3, <2>8, InvParts
  <1>6. CASE Return(0) /\ stdin' = stdin /\ stdout' = stdout /\ other' = other
    BY <1>1, <1>2, <1>4, <1>6, ReturnKeeps
  <1> QED
    BY <1>5, <1>6, Zenon DEF fork_stage, fds

(* The runner goes on to the next stage and leaves its child behind. *)
LEMMA ParentKeeps ==
  ASSUME IInv, parent PROVE IInv'
  <1>1. Processes /\ ProcessTypes /\ 0 \in Procs /\ Placed
    BY InvParts, Constants DEF Processes
  <1>2. /\ at[0] = "parent" /\ at' = [at EXCEPT ![0] = "stage"]
        /\ stdin' = [stdin EXCEPT ![0] = ReadEnd(stage)]
        /\ other' = [other EXCEPT ![0] = @ \ {WriteEnd(stage)}]
        /\ stage' = stage + 1
        /\ stdout' = stdout /\ kind' = kind /\ buffered' = buffered
        /\ host' = host /\ line' = line /\ t_count' = t_count /\ from' = from /\ cmds' = cmds
        /\ shell' = shell
    BY DEF parent, GoTo, parsing
  <1>3. shell # "parse" /\ LineTypes' /\ Parsed' /\ ParsedRight' /\ Pipes' = Pipes
    BY <1>1, <1>2, AliveFacts, Kept
  <1>4. /\ stage \in Pipes /\ stage + 1 \in 1 .. MaxStages /\ stage \in 1 .. MaxStages
        /\ 1 .. stage \subseteq Pipes
    BY <1>1, <1>2, <1>3, StageFacts DEF Processes, Placed
  <1>5. stage \in Int /\ (stage + 1) - 1 = stage /\ stage + 1 # 1
    BY <1>4, Constants
  <1>6. /\ at'[0] = "stage" /\ stdin'[0] = ReadEnd(stage) /\ other'[0] = other[0] \ {WriteEnd(stage)}
        /\ \A q \in Procs \ {0} :
             at'[q] = at[q] /\ stdin'[q] = stdin[q] /\ other'[q] = other[q]
    BY <1>1, <1>2 DEF ProcessTypes
  <1>7. ProcessTypes'
    <2>1. at' \in [Procs -> Points]
      BY <1>1, <1>2 DEF ProcessTypes, Points
    <2>2. /\ stdin' \in [Procs -> {Terminal, Closed} \cup Ends]
          /\ other' \in [Procs -> SUBSET Ends]
      BY <1>1, <1>2, <1>4, EndFacts DEF ProcessTypes
    <2> QED
      BY <1>1, <1>2, <2>1, <2>2 DEF ProcessTypes
  <1>8. Placed'
    <2>1. shell = "wait"
      BY <1>1, <1>2 DEF Placed
    <2>2. ASSUME NEW q \in Procs \ {0}
          PROVE  /\ at'[q] \in {"none", "child", "exec", "run", "full", "ended"}
                 /\ at'[q] # "none" => q < stage'
      <3>1. /\ at'[q] \in {"none", "child", "exec", "run", "full", "ended"}
            /\ at'[q] # "none" => q < stage \/ q = stage
        BY <1>1, <1>6 DEF Placed
      <3> QED
        BY <1>2, <1>5, <3>1, Constants
    <2>3. 1 .. stage' - 1 \subseteq Pipes'
      BY <1>2, <1>3, <1>4, <1>5
    <2> QED
      BY <1>2, <1>6, <2>1, <2>2, <2>3 DEF Placed
  <1>9. RunnerWired'
    <2>1. /\ stdout[0] = Terminal /\ kind[0] # "shell"
          /\ \A j \in 1 .. MaxStages : WriteEnd(j) \in other[0] => j = stage
      BY <1>1, <1>2 DEF Processes, RunnerWired, Runner
    <2>2. ReadsStage(0)'
      BY <1>2, <1>5, <1>6 DEF ReadsStage, Stage
    <2>3. at'[0] \notin {"exec", "run", "full"}
      BY <1>6
    <2>4. \A j \in 1 .. MaxStages : WriteEnd(j) \notin other'[0]
      BY <1>6, <2>1
    <2> QED
      BY <1>2, <2>1, <2>2, <2>3, <2>4, Zenon DEF RunnerWired, Executes
  <1>10. ASSUME NEW q \in Procs \ {0} PROVE ChildWired(q)'
    <2>1. ChildWired(q)
      BY <1>1 DEF Processes, ChildrenWired
    <2> QED
      BY <1>2, <1>6, <2>1, Zenon DEF ChildWired, Executes, ReadsStage, Stage
  <1>11. Processes'
    BY <1>1, <1>2, <1>4, <1>7, <1>8, <1>9, <1>10 DEF Processes, ChildrenWired
  <1> QED
    BY <1>3, <1>11, InvParts

(* exec() forks the runner and waits for it. *)
LEMMA ForkRunnerKeeps ==
  ASSUME IInv, fork_runner PROVE IInv'
  <1>1. Processes /\ ProcessTypes /\ 0 \in Procs /\ Placed
    BY InvParts, Constants DEF Processes
  <1>2. /\ shell = "exec" /\ stdin' = stdin /\ stdout' = stdout /\ other' = other /\ kind' = kind
        /\ buffered' = buffered
        /\ host' = host /\ line' = line /\ t_count' = t_count /\ from' = from /\ cmds' = cmds
        /\ stage' = stage
    BY DEF fork_runner, parsing, fds
  <1>3. \/ shell' = "wait" /\ at' = [at EXCEPT ![0] = "stage"]
        \/ shell' = "prompt" /\ at' = at
    BY DEF fork_runner, GoTo
  <1>4. LineTypes' /\ Parsed' /\ ParsedRight' /\ Pipes' = Pipes
    BY <1>2, <1>3, Kept
  <1>5. at[0] = "none"
    BY <1>1, <1>2 DEF Placed
  <1>6. /\ \A q \in Procs \ {0} : at'[q] = at[q]
        /\ \/ shell' = "wait" /\ at'[0] = "stage"
           \/ shell' = "prompt" /\ at'[0] = "none"
    BY <1>1, <1>3, <1>5 DEF ProcessTypes
  <1>7. ProcessTypes'
    <2>1. at' \in [Procs -> Points]
      BY <1>1, <1>3 DEF ProcessTypes, Points
    <2> QED
      BY <1>1, <1>2, <2>1 DEF ProcessTypes
  <1>8. Placed'
    BY <1>1, <1>2, <1>4, <1>5, <1>6 DEF Placed
  <1>9. RunnerWired'
    <2>1. /\ stdout[0] = Terminal /\ ReadsStage(0) /\ kind[0] # "shell"
          /\ \A j \in 1 .. MaxStages : WriteEnd(j) \in other[0] => j = stage
      BY <1>1, <1>5 DEF Processes, RunnerWired
    <2>2. ReadsStage(0)'
      BY <1>2, <2>1 DEF ReadsStage, Stage
    <2>3. at'[0] \notin {"exec", "run", "full"}
      BY <1>6
    <2> QED
      BY <1>2, <2>1, <2>2, <2>3, Zenon DEF RunnerWired, Executes
  <1>10. ASSUME NEW q \in Procs \ {0} PROVE ChildWired(q)'
    <2>1. ChildWired(q) /\ at'[q] = at[q]
      BY <1>1, <1>6 DEF Processes, ChildrenWired
    <2> QED
      BY <1>2, <2>1, Zenon DEF ChildWired, Executes, ReadsStage, Stage
  <1>11. Processes'
    BY <1>1, <1>2, <1>6, <1>7, <1>8, <1>9, <1>10 DEF Processes, ChildrenWired
  <1> QED
    BY <1>4, <1>11, InvParts

(* The runner has ended when its parent goes on. *)
LEMMA WaitpidKeeps ==
  ASSUME IInv, waitpid PROVE IInv'
  <1>1. Processes
    BY InvParts
  <1>2. /\ shell = "wait" /\ at[0] = "ended" /\ shell' = "prompt" /\ at' = at
        /\ stdin' = stdin /\ stdout' = stdout /\ other' = other /\ kind' = kind
        /\ buffered' = buffered
        /\ host' = host /\ line' = line /\ t_count' = t_count /\ from' = from /\ cmds' = cmds
        /\ stage' = stage
    BY DEF waitpid, parsing, fds
  <1>3. LineTypes' /\ Parsed' /\ ParsedRight' /\ Pipes' = Pipes
    BY <1>2, Kept
  <1>4. Placed'
    BY <1>1, <1>2, <1>3 DEF Processes, Placed
  <1>5. RunnerWired' /\ ChildrenWired'
    BY <1>1, <1>2, <1>3, Zenon
    DEF Processes, RunnerWired, ChildrenWired, ChildWired, Executes, ReadsStage, Stage
  <1>6. ProcessTypes'
    BY <1>1, <1>2 DEF Processes, ProcessTypes
  <1>7. Processes'
    BY <1>1, <1>2, <1>4, <1>5, <1>6 DEF Processes
  <1> QED
    BY <1>3, <1>7, InvParts

(* While the line is parsed no process exists. *)
LEMMA ParseKeeps ==
  ASSUME IInv, parse PROVE IInv'
  <1>1. Processes /\ Placed /\ ProcessTypes /\ stage \in 1 .. MaxStages
    BY InvParts DEF Processes
  <1>2. /\ shell = "parse" /\ shell' \in {"parse", "exec"}
        /\ stage' = stage /\ at' = at /\ stdin' = stdin /\ stdout' = stdout
        /\ other' = other /\ kind' = kind /\ buffered' = buffered
    BY DEF parse, fds
  <1>3. at[0] = "none" /\ stage = 1
    BY <1>1, <1>2 DEF Placed
  <1>4. 1 .. stage - 1 = {}
    BY <1>3
  <1>5. ProcessTypes'
    BY <1>1, <1>2 DEF ProcessTypes
  <1>6. Placed'
    BY <1>1, <1>2, <1>3, <1>4 DEF Placed
  <1>7. RunnerWired'
    <2>1. /\ stdout[0] = Terminal /\ ReadsStage(0) /\ kind[0] # "shell"
          /\ \A j \in 1 .. MaxStages : WriteEnd(j) \in other[0] => j = stage
      BY <1>1, <1>3 DEF Processes, RunnerWired
    <2>2. ReadsStage(0)'
      BY <1>2, <2>1 DEF ReadsStage, Stage
    <2>3. at'[0] \notin {"exec", "run", "full"}
      BY <1>2, <1>3
    <2> QED
      BY <1>2, <2>1, <2>2, <2>3, Zenon DEF RunnerWired, Executes
  <1>8. ChildrenWired'
    BY <1>1, <1>2, Zenon
    DEF Processes, ChildrenWired, ChildWired, Executes, ReadsStage, Stage
  <1>9. Processes'
    BY <1>1, <1>2, <1>5, <1>6, <1>7, <1>8 DEF Processes
  <1> QED
    BY <1>9, ParseTypes, ParseParsed, ParseRight, InvParts

LEMMA StutterKeeps ==
  ASSUME IInv, UNCHANGED vars PROVE IInv'
  <1>1. /\ host' = host /\ line' = line /\ t_count' = t_count /\ from' = from /\ cmds' = cmds
        /\ shell' = shell /\ stage' = stage /\ at' = at /\ stdin' = stdin /\ stdout' = stdout
        /\ other' = other /\ kind' = kind /\ buffered' = buffered
    BY DEF vars, parsing, fds
  <1>2. Pipes' = Pipes /\ Bars' = Bars /\ Marks' = Marks
    BY <1>1 DEF Pipes, PipesOf, Bars, Marks
  <1>3. LineTypes' /\ Parsed'
    BY <1>1, <1>2, InvParts, Zenon DEF LineTypes, Parsed, BarsUpTo
  <1>4. ParsedRight'
    <2>1. (BeforeMark' <=> BeforeMark) /\ (AfterMark' <=> AfterMark) /\ (WellFormed' <=> WellFormed)
      BY <1>1, PrimedParse, Zenon DEF BeforeMark, AfterMark, CutRight, Pipes
    <2>2. ParsedRight
      BY InvParts
    <2> QED
      BY <1>1, <2>1, <2>2, Zenon DEF ParsedRight, BeforeMark, AfterMark
  <1>5. Processes'
    BY <1>1, <1>2, InvParts, Zenon
    DEF Processes, ProcessTypes, Placed, RunnerWired, ChildrenWired, ChildWired, Executes,
        ReadsStage, Stage
  <1> QED
    BY <1>3, <1>4, <1>5, InvParts

LEMMA NextKeeps ==
  ASSUME IInv, [Next]_vars PROVE IInv'
  <1>1. CASE parse
    BY <1>1, ParseKeeps
  <1>2. CASE fork_runner
    BY <1>2, ForkRunnerKeeps
  <1>3. CASE waitpid
    BY <1>3, WaitpidKeeps
  <1>4. ASSUME NEW p \in Procs, Setup(p) PROVE IInv'
    <2>1. CASE make_pipe
      BY <2>1, MakePipeKeeps
    <2>2. CASE fork_stage
      BY <2>2, ForkStageKeeps
    <2>3. CASE parent
      BY <2>3, ParentKeeps
    <2>4. CASE redirect
      BY <2>4, RedirectKeeps
    <2>5. CASE child(p)
      BY <2>5, ChildKeeps
    <2>6. CASE execvp(p)
      BY <2>6, ExecKeeps
    <2>7. CASE command_not_found(p)
      BY <2>7, NotFoundKeeps
    <2> QED
      BY <1>4, <2>1, <2>2, <2>3, <2>4, <2>5, <2>6, <2>7, Zenon DEF Setup
  <1>5. ASSUME NEW p \in Procs, Program(p) PROVE IInv'
    BY <1>5, TakeKeeps, PutKeeps, Zenon DEF Program
  <1>6. ASSUME NEW p \in Procs, leave(p) PROVE IInv'
    BY <1>6, LeaveKeeps
  <1>7. CASE UNCHANGED vars
    BY <1>7, StutterKeeps
  <1>8. CASE finished
    BY <1>7, <1>8 DEF finished
  <1> QED
    BY <1>1, <1>2, <1>3, <1>4, <1>5, <1>6, <1>7, <1>8, Zenon DEF Next, Parent

(* leetify's three stages; only the last has no pipe. *)
LEMMA LeetifyStages ==
  ASSUME NEW output_file \in {NULL, "file"}, NEW c, c = leetify_cmds(output_file)
  PROVE  /\ c \in Seq(command_lines) /\ Len(c) = 3
         /\ PipesOf(c) \subseteq 1 .. 2
         /\ \A k \in 1 .. Len(c) :
              \A i \in 1 .. Len(c[k].tokens) : c[k].tokens[i] \notin {"|", ">", NULL}
  <1> DEFINE c1 == command_line(<<"cat">>, TRUE, NULL)
             c2 == command_line(<<"tr">>, TRUE, NULL)
             c3 == command_line(<<"sed">>, FALSE, output_file)
  <1>1. /\ "cat" \in Words /\ "tr" \in Words /\ "sed" \in Words /\ NULL \in Words
        /\ output_file \in Words
    <2>1. output_file \in {"cat", "tr", "sed", "file", NULL}
      OBVIOUS
    <2> QED
      BY <2>1, WordsFacts
  <1>2. <<"cat">> \in Seq(Words) /\ <<"tr">> \in Seq(Words) /\ <<"sed">> \in Seq(Words)
    BY <1>1
  <1>3. c1 \in command_lines /\ c2 \in command_lines /\ c3 \in command_lines
    BY <1>1, <1>2 DEF command_line, command_lines
  <1>4. c1.tokens = <<"cat">> /\ c2.tokens = <<"tr">> /\ c3.tokens = <<"sed">>
    BY DEF command_line
  <1>5. ~ c3.stdout_pipe
    BY DEF command_line
  <1>6. c = <<c1, c2, c3>>
    BY DEF leetify_cmds
  <1> HIDE DEF c1, c2, c3
  <1>7. c \in Seq(command_lines) /\ Len(c) = 3 /\ c[1] = c1 /\ c[2] = c2 /\ c[3] = c3
    BY <1>3, <1>6
  <1>8. ASSUME NEW k \in 1 .. Len(c), NEW i \in 1 .. Len(c[k].tokens)
        PROVE  c[k].tokens[i] \notin {"|", ">", NULL}
    <2>1. k = 1 \/ k = 2 \/ k = 3
      BY <1>7
    <2>2. c[k].tokens = <<"cat">> \/ c[k].tokens = <<"tr">> \/ c[k].tokens = <<"sed">>
      BY <1>4, <1>7, <2>1, Zenon
    <2> QED
      BY <2>2 DEF NULL
  <1>9. PipesOf(c) \subseteq 1 .. 2
    <2>1. 3 \notin PipesOf(c)
      BY <1>5, <1>7, Zenon DEF PipesOf
    <2>2. PipesOf(c) \subseteq 1 .. 3
      BY <1>7 DEF PipesOf
    <2> QED
      BY <2>1, <2>2
  <1> QED
    BY <1>7, <1>8, <1>9

LEMMA InitHolds ==
  ASSUME Init PROVE IInv
  <1>1. /\ t_count = 0 /\ from = 1 /\ stage = 1
        /\ at = [p \in Procs |-> "none"]
        /\ stdin = [p \in Procs |-> Terminal]
        /\ stdout = [p \in Procs |-> Terminal]
        /\ other = [p \in Procs |-> {}]
        /\ kind = [p \in Procs |-> "none"]
        /\ buffered = [k \in 1 .. MaxStages |-> 0]
    BY DEF Init
  <1>2. \/ host = "shell" /\ line \in Lines /\ cmds = << >> /\ shell = "parse"
        \/ /\ host = "leetify" /\ line = << >> /\ shell = "exec"
           /\ \E output_file \in {NULL, "file"} : cmds = leetify_cmds(output_file)
    BY DEF Init
  <1>3. Processes
    <2>1. 0 \in Procs /\ stage \in 1 .. MaxStages /\ shell \in {"parse", "exec"}
      BY <1>1, <1>2, Constants
    <2>2. ProcessTypes
      BY <1>1, Constants DEF ProcessTypes, Points, Kinds
    <2>3. \A p \in Procs : /\ at[p] = "none" /\ stdin[p] = Terminal /\ stdout[p] = Terminal
                           /\ other[p] = {} /\ kind[p] = "none"
      BY <1>1
    <2>4. 1 .. stage - 1 = {}
      BY <1>1
    <2>5. Placed
      BY <1>1, <2>1, <2>3, <2>4 DEF Placed
    <2>6. RunnerWired
      BY <1>1, <2>1, <2>3 DEF RunnerWired, Executes, ReadsStage, Stage
    <2>7. ChildrenWired
      BY <2>3 DEF ChildrenWired, ChildWired
    <2> QED
      BY <2>1, <2>2, <2>5, <2>6, <2>7 DEF Processes
  <1>4. CASE host = "shell" /\ line \in Lines /\ cmds = << >> /\ shell = "parse"
    <2>1. Len(line) \in Nat /\ Len(line) >= 1
      BY <1>4, LineFacts
    <2>2. cmds \in Seq(command_lines) /\ Len(cmds) = 0
      BY <1>4
    <2>3. LineTypes
      BY <1>1, <1>4, <2>1, <2>2 DEF LineTypes
    <2>4. Pipes = {} /\ BarsUpTo(t_count) = {}
      BY <1>1, <2>1, <2>2 DEF Pipes, PipesOf, BarsUpTo, Bars
    <2>5. Cardinality(Pipes) = 0 /\ Cardinality(BarsUpTo(t_count)) = 0
      BY <2>4, FS_EmptySet
    <2>6. Parsed
      BY <1>1, <1>4, <2>1, <2>5 DEF Parsed
    <2>7. \A m \in Marks : t_count < m
      BY <1>1, <2>1 DEF Marks
    <2>8. ParsedRight
      BY <1>1, <1>4, <2>2, <2>4, <2>5, <2>7 DEF ParsedRight
    <2> QED
      BY <1>3, <2>3, <2>6, <2>8, InvParts
  <1>5. CASE /\ host = "leetify" /\ line = << >> /\ shell = "exec"
             /\ \E output_file \in {NULL, "file"} : cmds = leetify_cmds(output_file)
    <2>1. /\ cmds \in Seq(command_lines) /\ Len(cmds) = 3 /\ Pipes \subseteq 1 .. 2
          /\ \A k \in 1 .. Len(cmds) :
               \A i \in 1 .. Len(cmds[k].tokens) : cmds[k].tokens[i] \notin {"|", ">", NULL}
      BY <1>5, LeetifyStages DEF Pipes
    <2>2. Len(line) = 0
      BY <1>5
    <2>3. LineTypes
      BY <1>1, <1>5, <2>1, <2>2 DEF LineTypes
    <2>4. Cardinality(Pipes) < MaxStages
      <3>1. ASSUME NEW n \in Nat PROVE Cardinality(1 .. n) = n /\ IsFiniteSet(1 .. n)
        BY FS_Interval
      <3>2. Cardinality(Pipes) <= 2
        <4>1. Cardinality(1 .. 2) = 2 /\ IsFiniteSet(1 .. 2)
          BY <3>1, Zenon
        <4>2. Pipes \in SUBSET (1 .. 2)
          BY <2>1
        <4>3. Cardinality(Pipes) <= Cardinality(1 .. 2)
          BY <4>1, <4>2, FS_Subset, Zenon
        <4> QED
          BY <4>1, <4>3
      <3> QED
        BY <2>3, <3>2, PipesFinite, Constants
    <2>5. Parsed
      BY <1>5, <2>1, <2>4 DEF Parsed
    <2>6. ParsedRight
      BY <1>5 DEF ParsedRight
    <2> QED
      BY <1>3, <2>3, <2>5, <2>6, InvParts
  <1> QED
    BY <1>2, <1>4, <1>5

LEMMA Invariance == Spec => []IInv
  <1>1. Init => IInv
    BY InitHolds
  <1>2. IInv /\ [Next]_vars => IInv'
    BY NextKeeps
  <1> QED
    BY <1>1, <1>2, PTL DEF Spec

-----------------------------------------------------------------------------
(***************************************************************************)
(* What the user means.                                                    *)
(***************************************************************************)

(* A set of bars with one bar more than another has another size. *)
LEMMA MoreBars ==
  ASSUME LineTypes, NEW S \in SUBSET Bars, NEW T \in SUBSET Bars, S \subseteq T,
         NEW b \in T, b \notin S
  PROVE  Cardinality(S) # Cardinality(T)
  <1>1. IsFiniteSet(T)
    BY BarsFinite, FS_Subset
  <1> QED
    BY <1>1, FS_Subset

Mine(k) ==
  {i \in 1 .. Len(line) : /\ line[i] # "|"
                          /\ Cardinality({b \in Bars : b < i}) = k - 1
                          /\ \A m \in Marks : i < m}

(* The words meant as stage k are those of its segment. *)
LEMMA SegmentIsMine ==
  ASSUME LineTypes, WellFormed, NEW words, NEW k,
         NEW s \in 1 .. Len(line) + 1, NEW e \in 0 .. Len(line), Segment(words, k, s, e)
  PROVE  Mine(k) = s .. e
  <1> DEFINE N == Len(line)
             Less(i) == {b \in Bars : b < i}
  <1>1. N \in Nat /\ s \in Int /\ e \in Int
    BY BarsFinite
  <1>2. /\ \A i : Less(i) \in SUBSET Bars
        /\ \A i : \A b \in Bars : b \in Less(i) <=> b < i
        /\ \A b \in Bars : b \in Int /\ 1 <= b /\ b <= N /\ line[b] = "|"
        /\ \A i \in Int : 1 <= i /\ i <= N /\ line[i] = "|" => i \in Bars
    BY <1>1 DEF Bars
  <1>3. /\ \A m \in Marks : m \in Int /\ 1 <= m /\ m <= N /\ line[m] = ">"
        /\ \A i \in Int : 1 <= i /\ i <= N /\ line[i] = ">" => i \in Marks
        /\ \A m \in Marks : m = N - 1 /\ \A b \in Bars : b < m
    BY <1>1 DEF Marks, WellFormed
  <1>4. /\ s <= e + 1
        /\ \A i \in s .. e : line[i] \notin {"|", ">"}
        /\ s = 1 \/ line[s - 1] = "|"
        /\ e = N \/ line[e + 1] \in {"|", ">"}
        /\ Cardinality(Less(s)) = k - 1
    BY DEF Segment
  <1>5. \A i : i \in Mine(k) <=> /\ i \in 1 .. N /\ line[i] # "|"
                                 /\ Cardinality(Less(i)) = k - 1
                                 /\ \A m \in Marks : i < m
    BY DEF Mine
  <1> HIDE DEF Less
  <1>6. ASSUME NEW i \in s .. e PROVE i \in Mine(k)
    <2>1. i \in 1 .. N /\ i \in Int /\ line[i] \notin {"|", ">"}
      BY <1>1, <1>4
    <2>2. Less(i) = Less(s)
      <3>1. ASSUME NEW b \in Bars PROVE b < i <=> b < s
        <4>1. b \notin s .. e
          BY <1>2, <1>4
        <4> QED
          BY <1>1, <1>2, <4>1
      <3> QED
        BY <3>1 DEF Less
    <2>3. ASSUME NEW m \in Marks PROVE i < m
      <3>1. m \notin s .. e
        BY <1>3, <1>4
      <3>2. ~ (m < s)
        <4>1. SUFFICES ASSUME m < s PROVE FALSE
          OBVIOUS
        <4>2. s # 1
          BY <1>1, <1>3, <4>1
        <4>3. s - 1 \in Bars
          <5>1. s - 1 \in Int /\ 1 <= s - 1 /\ s - 1 <= N /\ line[s - 1] = "|"
            BY <1>1, <1>4, <4>2
          <5> QED
            BY <1>2, <5>1, Zenon
        <4> QED
          BY <1>1, <1>3, <4>1, <4>3
      <3> QED
        BY <1>1, <1>3, <3>1, <3>2
    <2> QED
      BY <1>4, <1>5, <2>1, <2>2, <2>3
  <1>7. ASSUME NEW i \in Mine(k) PROVE i \in s .. e
    <2>1. i \in 1 .. N /\ i \in Int /\ line[i] # "|" /\ Cardinality(Less(i)) = Cardinality(Less(s))
      BY <1>1, <1>4, <1>5
    <2>2. ~ (i < s)
      <3>1. SUFFICES ASSUME i < s PROVE FALSE
        OBVIOUS
      <3>2. s # 1
        BY <1>1, <2>1, <3>1
      <3>3. s - 1 \in Bars /\ s - 1 < s
        <4>1. s - 1 \in Int /\ 1 <= s - 1 /\ s - 1 <= N /\ line[s - 1] = "|" /\ s - 1 < s
          BY <1>1, <1>4, <3>2
        <4> QED
          BY <1>2, <4>1, Zenon
      <3>4. Less(i) \subseteq Less(s)
        <4>1. \A b \in Bars : b < i => b < s
          BY <1>1, <1>2, <2>1, <3>1
        <4> QED
          BY <1>2, <4>1, Zenon
      <3>5. s - 1 \in Less(s) /\ s - 1 \notin Less(i)
        <4>1. ~ (s - 1 < i)
          BY <1>1, <1>4, <2>1, <3>1, <3>2
        <4> QED
          BY <1>2, <3>3, <4>1, Zenon
      <3> QED
        BY <1>2, <2>1, <3>4, <3>5, MoreBars
    <2>3. ~ (e < i)
      <3>1. SUFFICES ASSUME e < i PROVE FALSE
        OBVIOUS
      <3>2. e + 1 \in Int /\ 1 <= e + 1 /\ e + 1 <= N /\ e # N
        BY <1>1, <2>1, <3>1
      <3>3. line[e + 1] = "|"
        <4>1. line[e + 1] = ">" => e + 1 \in Marks
          BY <1>3, <3>2
        <4>2. \A m \in Marks : i < m
          BY <1>5
        <4>3. e + 1 \notin Marks
          BY <1>1, <2>1, <3>1, <4>2
        <4> QED
          BY <1>4, <3>2, <4>1, <4>3
      <3>4. e + 1 \in Bars
        BY <1>2, <3>2, <3>3, Zenon
      <3>5. e + 1 < i /\ s < i /\ ~ (e + 1 < s)
        <4>1. e + 1 # i
          BY <2>1, <3>3
        <4> QED
          BY <1>1, <1>4, <2>1, <3>1, <4>1
      <3>6. Less(s) \subseteq Less(i)
        <4>1. \A b \in Bars : b < s => b < i
          BY <1>1, <1>2, <2>1, <3>5
        <4> QED
          BY <1>2, <4>1, Zenon
      <3>7. e + 1 \in Less(i) /\ e + 1 \notin Less(s)
        BY <1>2, <3>4, <3>5, Zenon
      <3> QED
        BY <1>2, <2>1, <3>6, <3>7, MoreBars
    <2> QED
      BY <1>1, <2>1, <2>2, <2>3
  <1> QED
    BY <1>6, <1>7

(* The n-th element of M. *)
Nth(M, n) == CHOOSE i \in M : Cardinality({j \in M : j <= i}) = n

(* The elements of s .. e in their order. *)
LEMMA InOrder ==
  ASSUME NEW s \in Int, NEW e \in Int, s <= e + 1, NEW M, M = s .. e
  PROVE  /\ Cardinality(M) = e - s + 1
         /\ \A n \in 1 .. e - s + 1 : Nth(M, n) = s + n - 1
  <1>1. Cardinality(M) = e - s + 1
    BY FS_Interval
  <1>2. ASSUME NEW i \in M PROVE Cardinality({j \in M : j <= i}) = i - s + 1
    <2>1. i \in Int /\ s <= i /\ i <= e
      OBVIOUS
    <2>2. {j \in M : j <= i} = s .. i
      BY <2>1
    <2>3. Cardinality(s .. i) = i - s + 1
      BY <2>1, FS_Interval
    <2> QED
      BY <2>2, <2>3
  <1>3. ASSUME NEW n \in 1 .. e - s + 1
        PROVE  Nth(M, n) = s + n - 1
    <2>1. s + n - 1 \in M
      OBVIOUS
    <2>2. Cardinality({j \in M : j <= s + n - 1}) = n
      <3>1. Cardinality({j \in M : j <= s + n - 1}) = (s + n - 1) - s + 1
        BY <1>2, <2>1, Zenon
      <3>2. (s + n - 1) - s + 1 = n
        OBVIOUS
      <3> QED
        BY <3>1, <3>2, Zenon
    <2>3. \A i \in M : Cardinality({j \in M : j <= i}) = n => i = s + n - 1
      <3>1. \A i \in M : i - s + 1 = n => i = s + n - 1
        OBVIOUS
      <3> QED
        BY <1>2, <3>1, Zenon
    <2> QED
      BY <2>1, <2>2, <2>3, Zenon DEF Nth
  <1> QED
    BY <1>1, <1>3

LEMMA CutIsMeant ==
  ASSUME LineTypes, WellFormed, NEW words, NEW k, Cut(words, k)
  PROVE  words = Meant(k)
  <1>1. PICK s \in 1 .. Len(line) + 1, e \in 0 .. Len(line) : Segment(words, k, s, e)
    BY DEF Cut
  <1>2. Mine(k) = s .. e
    BY <1>1, SegmentIsMine
  <1>3. Meant(k) = [n \in 1 .. Cardinality(Mine(k)) |-> line[Nth(Mine(k), n)]]
    BY DEF Meant, Mine, Nth
  <1>4. Len(line) \in Nat /\ s \in Int /\ e \in Int /\ s <= e + 1
    BY <1>1, BarsFinite DEF Segment
  <1>5. Meant(k) = [n \in 1 .. e - s + 1 |-> line[s + n - 1]]
    <2>1. Cardinality(Mine(k)) = e - s + 1 /\ \A n \in 1 .. e - s + 1 : Nth(Mine(k), n) = s + n - 1
      BY <1>2, <1>4, InOrder
    <2> QED
      BY <1>3, <2>1
  <1>6. words = [n \in 1 .. e - s + 1 |-> line[s + n - 1]]
    <2>1. words = SubSeq(line, s, e)
      BY <1>1 DEF Segment
    <2>2. \A i \in s .. e : line[i] \in Words
      <3>1. \A i \in s .. e : i \in 1 .. Len(line)
        BY <1>4
      <3>2. CASE line = << >>
        BY <3>1, <3>2
      <3>3. CASE line \in Lines
        BY <3>1, <3>3, LineFacts
      <3> QED
        BY <3>2, <3>3 DEF LineTypes
    <2>3. /\ words \in Seq(Words)
          /\ Len(words) = IF s <= e THEN e - s + 1 ELSE 0
          /\ \A i \in 1 .. e - s + 1 : words[i] = line[s + i - 1]
      BY <1>4, <2>1, <2>2, SubSeqProperties
    <2>4. Len(words) = e - s + 1
      BY <1>4, <2>3
    <2>5. words \in [1 .. e - s + 1 -> Words]
      BY <2>3, <2>4, LenProperties
    <2> QED
      BY <2>3, <2>5
  <1> QED
    BY <1>5, <1>6

-----------------------------------------------------------------------------
(***************************************************************************)
(* The theorems.                                                           *)
(***************************************************************************)

(* Every reachable state is well typed: in particular no stage's words     *)
(* contain a separator, a pipe never holds more than it can, and the       *)
(* runner never goes past the last stage (shell.c:330-421, 500-545).       *)
THEOREM TypeCorrect == Spec => []TypeOK
  <1>1. IInv => TypeOK
    BY DEF IInv
  <1> QED
    BY <1>1, Invariance, PTL

LEMMA InvPlumbed ==
  ASSUME IInv PROVE Plumbed
  <1> SUFFICES ASSUME NEW p \in Procs, at[p] \in {"run", "full"}, kind[p] # "shell"
               PROVE  LET k == Stage(p) IN
                      /\ stdin[p] = IF k = 1 THEN Terminal ELSE ReadEnd(k - 1)
                      /\ stdout[p] = IF p # 0 THEN WriteEnd(k)
                                     ELSE IF cmds[k].stdout_file # NULL THEN File(k) ELSE Terminal
                      /\ \A j \in 1 .. MaxStages : WriteEnd(j) \in other[p] => j = k
                      /\ host = "shell" /\ WellFormed =>
                           /\ cmds[k].tokens = Meant(k)
                           /\ p = 0 => /\ k = Cardinality(Bars) + 1
                                       /\ cmds[k].stdout_file
                                            = IF Marks = {} THEN NULL ELSE line[Len(line)]
    BY Zenon DEF Plumbed
  <1> DEFINE k == Stage(p)
  <1>1. LineTypes /\ Parsed /\ ParsedRight /\ Processes /\ 0 \in Procs
    BY InvParts, Constants
  <1>2. shell # "parse" /\ (p # 0 => p \in Pipes) /\ Executes(p)
    BY AliveFacts DEF Executes
  <1>3. p = 0 => RunnerWired /\ k = stage
    BY <1>1 DEF Processes, Stage
  <1>4. p # 0 => ChildWired(p) /\ k = p /\ at[p] # "none"
    BY <1>1 DEF Processes, ChildrenWired, Stage
  <1>5. ReadsStage(p)
    BY <1>2, <1>3, <1>4 DEF RunnerWired, ChildWired
  <1>6. stdout[p] = IF p # 0 THEN WriteEnd(k)
                    ELSE IF cmds[k].stdout_file # NULL THEN File(k) ELSE Terminal
    <2>1. CASE p = 0
      BY <1>2, <1>3, <2>1 DEF RunnerWired
    <2>2. CASE p # 0
      BY <1>2, <1>4, <2>2 DEF ChildWired
    <2> QED
      BY <2>1, <2>2
  <1>7. \A j \in 1 .. MaxStages : WriteEnd(j) \in other[p] => j = k
    BY <1>3, <1>4 DEF RunnerWired, ChildWired
  <1>8. ASSUME host = "shell", WellFormed
        PROVE  /\ cmds[k].tokens = Meant(k)
               /\ p = 0 => /\ k = Cardinality(Bars) + 1
                           /\ cmds[k].stdout_file = IF Marks = {} THEN NULL ELSE line[Len(line)]
    <2>1. CutRight
      BY <1>1, <1>2, <1>8, Zenon DEF ParsedRight
    <2>2. Cardinality(Bars) \in Nat
      BY <1>1, BarsFinite
    <2>3. p = 0 => k = Cardinality(Bars) + 1
      <3>1. SUFFICES ASSUME p = 0 PROVE stage = Cardinality(Bars) + 1
        BY <1>3
      <3>2. /\ stage \notin 1 .. Cardinality(Bars) /\ stage \in 1 .. MaxStages
            /\ 1 .. stage - 1 \subseteq 1 .. Cardinality(Bars)
        BY <1>1, <1>2, <1>3, <2>1, <3>1 DEF RunnerWired, CutRight, Processes, Placed
      <3>3. stage \in Int /\ stage >= 1 /\ stage > Cardinality(Bars)
        BY <2>2, <3>2, Constants
      <3>4. stage > 1 => stage - 1 <= Cardinality(Bars)
        <4>1. stage > 1 => stage - 1 \in 1 .. stage - 1
          BY <3>3
        <4> QED
          BY <2>2, <3>2, <4>1
      <3> QED
        BY <2>2, <3>3, <3>4
    <2>4. k \in 1 .. Cardinality(Bars) + 1
      <3>1. p # 0 => k \in 1 .. Cardinality(Bars)
        BY <1>2, <1>4, <2>1 DEF CutRight
      <3> HIDE DEF k
      <3> QED
        BY <2>2, <2>3, <3>1
    <2>5. Cut(cmds[k].tokens, k)
      BY <2>1, <2>4 DEF CutRight
    <2>6. cmds[k].tokens = Meant(k)
      BY <1>1, <1>8, <2>5, CutIsMeant
    <2> HIDE DEF k
    <2> QED
      BY <2>1, <2>3, <2>6 DEF CutRight
  <1> QED
    BY <1>5, <1>6, <1>7, <1>8 DEF ReadsStage

(* Whatever fails and however the processes are interleaved, a program     *)
(* runs as the stage of the line the user means, with the pipes and the    *)
(* file of that stage and no write end of another (shell.c:330-421,        *)
(* 500-545).                                                               *)
THEOREM PlumbedHolds == Spec => []Plumbed
  <1>1. IInv => Plumbed
    BY InvPlumbed
  <1> QED
    BY <1>1, Invariance, PTL

LEMMA InvOneShell ==
  ASSUME IInv PROVE OneShell
  <1> SUFFICES ASSUME NEW p \in Alive, kind[p] = "shell", stdin[p] = Terminal
               PROVE  \/ p = 1 /\ cmds[1].stdout_pipe
                      \/ /\ p = 0 /\ shell = "wait"
                         /\ cmds[1].stdout_pipe \/ cmds[1].stdout_file # NULL
    BY Zenon DEF OneShell
  <1>1. Processes /\ ProcessTypes /\ Placed /\ 0 \in Procs /\ stage \in 1 .. MaxStages
    BY InvParts, Constants DEF Processes
  <1>2. p \in Procs /\ at[p] \notin {"none", "ended"}
    BY DEF Alive
  <1>3. 1 \in Pipes => cmds[1].stdout_pipe
    BY Zenon DEF Pipes, PipesOf
  <1>4. CASE p = 0
    <2>1. RunnerWired
      BY <1>1 DEF Processes
    <2>2. at[0] \in {"run", "full"}
      <3>1. at[0] \in Points /\ at[0] \notin {"none", "ended", "child"}
        BY <1>1, <1>2, <1>4 DEF Placed, ProcessTypes
      <3>2. at[0] \notin Runner
        BY <1>4, <2>1 DEF RunnerWired
      <3> QED
        BY <3>1, <3>2 DEF Points, Runner
    <2>3. ReadsStage(0) /\ (stage \in Pipes \/ cmds[stage].stdout_file # NULL)
      BY <1>4, <2>1, <2>2, EndFacts DEF RunnerWired
    <2>4. stage = 1
      BY <1>4, <2>3, EndFacts DEF ReadsStage, Stage
    <2>5. shell = "wait"
      BY <1>1, <1>2, <1>4 DEF Placed
    <2> QED
      BY <1>3, <1>4, <2>3, <2>4, <2>5, Zenon
  <1>5. CASE p # 0
    <2>1. ChildWired(p) /\ p \in Pipes
      BY <1>1, <1>2, <1>5, AliveFacts DEF Processes, ChildrenWired
    <2>2. ReadsStage(p)
      BY <1>2, <2>1 DEF ChildWired
    <2>3. p = 1
      BY <1>5, <2>2, EndFacts DEF ReadsStage, Stage
    <2> QED
      BY <1>3, <2>1, <2>3, Zenon
  <1> QED
    BY <1>4, <1>5

(* A second shell reads what the user types only if it is the child of a   *)
(* first stage, or the runner failed at its first pipe or file and the     *)
(* shell still waits for it (shell.c:503-520, 535-538).                    *)
THEOREM OneShellHolds == Spec => []OneShell
  <1>1. IInv => OneShell
    BY InvOneShell
  <1> QED
    BY <1>1, Invariance, PTL
=============================================================================
