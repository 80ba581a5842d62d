----------------------------- MODULE WebServer -----------------------------
(***************************************************************************)
(* The web server of Project4/www.c: main() accepts connections and forks  *)
(* a child for each, handle_request() reads one request and answers it.    *)
(*                                                                         *)
(* Every process runs the same loop: a child that leaves handle_request()  *)
(* goes back to accept(), now on a listening socket it has closed, and     *)
(* that error is what ends it.  Children are never waited for, so a        *)
(* process number is used once.  at[p] is where process p is:              *)
(*   "none"    not forked yet        "accept", "fork"   main's loop        *)
(*   "child", "parent"  after fork() "read"   reading the request          *)
(*   "stat", "index"    the two calls of stat()                            *)
(*   "header", "open", "send"  the steps of a 200 answer       "ended"     *)
(* A line of a request is a name (GET with that path), "GET" without a     *)
(* path, another "field", a "blank" line (CR LF) or a "bare" LF.  Clients  *)
(* and the file system are external: other programs change the files while *)
(* requests are served.                                                    *)
(***************************************************************************)
EXTENDS Integers, Sequences, FiniteSets

CONSTANTS
  Clients,     \* each connects once
  Requests,    \* Requests[c]: what client c may send, sequences of lines
  Names,       \* the paths of files and directories
  Directories, \* those of them that are directories
  Index,       \* Index[n] is n with "/index.html" appended
  MaxProcs,    \* bound on the processes: fork() fails beyond it
  MaxSize,     \* bound on the size of a file
  MaxChanges   \* bound on the changes to files while the server runs

Procs     == 0 .. MaxProcs
NoClient  == "none"
NoPath    == "none"
Absent    == -1
Directory == -2

ASSUME WebServerAssumption ==
  /\ Directories \subseteq Names
  /\ Index \in [Directories -> Names]
  /\ NoClient \notin Clients
  /\ Names \cap {"GET", "field", "blank", "bare", NoPath} = {}
  /\ \A c \in Clients : Requests[c] \subseteq Seq(Names \cup {"GET", "field", "blank", "bare"})
  /\ MaxProcs \in Nat /\ MaxSize \in Nat /\ MaxChanges \in Nat

VARIABLES
  at,
  listening,  \* the processes that have the listening socket open
  client_fd,  \* main()'s local of each process
  holds,      \* the connections each process has a descriptor for
  path,       \* handle_request()'s locals
  st_size,
  opened,     \* the size of the file behind file_fd, Directory if it is one,
              \* Absent if open() failed
  dropped,    \* clients for whom the result of open() or sendfile(), which the
              \* code drops, was a failure or fewer bytes than there were
  client,     \* the state of each client
  request,    \* what each client sends
  nread,      \* how many of its lines were read
  answer,     \* what was written to each client
  file,       \* the file system: a size, Directory or Absent
  changes,    \* how often a file was changed
  disturbed   \* clients that were being answered when a file was changed

process == <<at, listening, client_fd, holds>>
locals  == <<path, st_size, opened, dropped>>
network == <<client, request, nread>>
files   == <<file, changes, disturbed>>
vars    == <<process, locals, network, answer, files>>

Points   == {"none", "accept", "fork", "child", "parent", "read", "stat", "index",
             "header", "open", "send", "ended"}
Answers  == [status : {0, 200, 404}, length : 0 .. MaxSize, body : 0 .. MaxSize]
NoAnswer == [status |-> 0, length |-> 0, body |-> 0]

TypeOK ==
  /\ at \in [Procs -> Points]
  /\ listening \subseteq Procs
  /\ client_fd \in [Procs -> Clients \cup {NoClient}]
  /\ holds \in [Procs -> SUBSET Clients]
  /\ path \in [Procs -> Names \cup {NoPath}]
  /\ st_size \in [Procs -> 0 .. MaxSize]
  /\ opened \in [Procs -> Directory .. MaxSize]
  /\ dropped \subseteq Clients
  /\ client \in [Clients -> {"idle", "pending", "connected", "closed"}]
  /\ request \in [Clients -> (UNION {Requests[c] : c \in Clients}) \cup {<< >>}]
  /\ nread \in [Clients -> Nat]
  /\ \A c \in Clients : nread[c] <= Len(request[c])
  /\ answer \in [Clients -> Answers]
  /\ file \in [Names -> Directory .. MaxSize]
  /\ changes \in 0 .. MaxChanges
  /\ disturbed \subseteq Clients

Alive      == {p \in Procs : at[p] \notin {"none", "ended"}}
Holders(c) == {p \in Alive : c \in holds[p]}
Serving(p) == at[p] \in {"read", "stat", "index", "header", "open", "send"}

GoTo(p, x) == at' = [at EXCEPT ![p] = x]

-----------------------------------------------------------------------------
(***************************************************************************)
(* main().                                                                 *)
(***************************************************************************)

(* accept() returns a connection. *)
accept(p) ==
  /\ at[p] = "accept"
  /\ p \in listening
  /\ \E c \in Clients :
       /\ client[c] = "pending"
       /\ client' = [client EXCEPT ![c] = "connected"]
       /\ client_fd' = [client_fd EXCEPT ![p] = c]
       /\ holds' = [holds EXCEPT ![p] = @ \cup {c}]
  /\ GoTo(p, "fork")
  /\ UNCHANGED <<listening, locals, request, nread, answer, files>>

(* accept() fails, as it always does without a listening socket: main()    *)
(* returns and the process ends.                                           *)
accept_error(p) ==
  /\ at[p] = "accept"
  /\ GoTo(p, "ended")
  /\ UNCHANGED <<listening, client_fd, holds, locals, network, answer, files>>

(* fork(): the child has a copy of every descriptor; exit(1) if it fails. *)
fork(p) ==
  /\ at[p] = "fork"
  /\ \/ \E q \in Procs :
          /\ at[q] = "none"
          /\ \A r \in Procs : at[r] = "none" => q <= r
          /\ at' = [at EXCEPT ![p] = "parent", ![q] = "child"]
          /\ client_fd' = [client_fd EXCEPT ![q] = client_fd[p]]
          /\ holds' = [holds EXCEPT ![q] = holds[p]]
          /\ listening' = IF p \in listening THEN listening \cup {q} ELSE listening
     \/ GoTo(p, "ended") /\ UNCHANGED <<listening, client_fd, holds>>
  /\ UNCHANGED <<locals, network, answer, files>>

(* Mutant of child: the listening socket stays open. *)
child_listens(p) ==
  /\ at[p] = "child"
  /\ GoTo(p, "read")
  /\ UNCHANGED <<listening, client_fd, holds, locals, network, answer, files>>

(* The child closes the listening socket. *)
child(p) ==
  /\ at[p] = "child"
  /\ listening' = listening \ {p}
  /\ GoTo(p, "read")
  /\ UNCHANGED <<client_fd, holds, locals, network, answer, files>>

(* Mutant of parent: the connection stays open. *)
parent_holds(p) ==
  /\ at[p] = "parent"
  /\ GoTo(p, "accept")
  /\ UNCHANGED <<listening, client_fd, holds, locals, network, answer, files>>

(* The parent closes the connection. *)
parent(p) ==
  /\ at[p] = "parent"
  /\ holds' = [holds EXCEPT ![p] = @ \ {client_fd[p]}]
  /\ GoTo(p, "accept")
  /\ UNCHANGED <<listening, client_fd, locals, network, answer, files>>

-----------------------------------------------------------------------------
(***************************************************************************)
(* handle_request().  Whatever it returns, the child leaves its loop.      *)
(***************************************************************************)

(* What a line of the request makes of the child: read_line() does not     *)
(* count the newline, so a bare one looks like the end of the connection;  *)
(* strcpy() of a missing path crashes.                                     *)
AfterLine(l) ==
  CASE l = "bare"  -> "accept"
    [] l = "blank" -> "stat"
    [] l = "GET"   -> "ended"
    [] OTHER       -> "read"

(* One line of the request. *)
read_line(p) ==
  LET c == client_fd[p] IN
  /\ at[p] = "read"
  /\ nread[c] < Len(request[c])
  /\ LET l == request[c][nread[c] + 1] IN
     /\ GoTo(p, AfterLine(l))
     /\ path' = [path EXCEPT ![p] = IF l \in Names THEN l ELSE @]
  /\ nread' = [nread EXCEPT ![c] = @ + 1]
  /\ UNCHANGED <<listening, client_fd, holds, st_size, opened, dropped, client, request, answer, files>>

(* read() returns 0 or -1: the client has closed the connection. *)
read_end(p) ==
  LET c == client_fd[p] IN
  /\ at[p] = "read"
  /\ nread[c] = Len(request[c])
  /\ client[c] = "closed"
  /\ GoTo(p, "accept")
  /\ UNCHANGED <<listening, client_fd, holds, locals, network, answer, files>>

(* write() to the client, then on to x; SIGPIPE may end the process if the *)
(* client has closed the connection.                                       *)
write(p, a, x) ==
  LET c == client_fd[p] IN
  \/ /\ answer' = [answer EXCEPT ![c] = a]
     /\ GoTo(p, x)
  \/ /\ client[c] = "closed"
     /\ GoTo(p, "ended")
     /\ UNCHANGED answer

not_found(p) ==
  /\ write(p, [status |-> 404, length |-> 0, body |-> 0], "accept")
  /\ UNCHANGED st_size

(* stat(): of no path at all it fails, as it does of a name that is absent *)
(* or that it may not look at.                                             *)
Lookup(n) == IF n = NoPath THEN Absent ELSE file[n]

(* The st_size it may report: a directory has some size of its own. *)
Sizes(n) == IF file[n] = Directory THEN 0 .. MaxSize ELSE {file[n]}

(* Mutant of found: the result of stat() is not looked at. *)
found_any(p) ==
  /\ st_size' = [st_size EXCEPT ![p] = Lookup(path[p])]
  /\ GoTo(p, "header")
  /\ UNCHANGED <<path, answer>>

(* stat() has succeeded: go on with the size it reports. *)
found(p) ==
  /\ Lookup(path[p]) # Absent
  /\ \E size \in Sizes(path[p]) : st_size' = [st_size EXCEPT ![p] = size]
  /\ GoTo(p, "header")
  /\ UNCHANGED <<path, answer>>

(* The first stat(). *)
stat(p) ==
  /\ at[p] = "stat"
  /\ \/ Lookup(path[p]) # Directory /\ found(p)
     \/ Lookup(path[p]) = Absent /\ not_found(p) /\ UNCHANGED path
     \/ /\ Lookup(path[p]) = Directory
        /\ path' = [path EXCEPT ![p] = Index[@]]
        /\ GoTo(p, "index")
        /\ UNCHANGED <<st_size, answer>>
  /\ UNCHANGED <<listening, client_fd, holds, opened, dropped, network, files>>

(* Mutant of stat_index: a missing index file is not looked for, and the   *)
(* answer goes on with what is known of the directory.                     *)
stat_index_unchecked(p) ==
  /\ at[p] = "index"
  /\ \/ found(p)
     \/ Lookup(path[p]) = Absent /\ GoTo(p, "header") /\ UNCHANGED <<path, st_size, answer>>
  /\ UNCHANGED <<listening, client_fd, holds, opened, dropped, network, files>>

(* The second stat(), of the index file of a directory; whether that is a  *)
(* directory in turn is not tested.                                        *)
stat_index(p) ==
  /\ at[p] = "index"
  /\ \/ found(p)
     \/ Lookup(path[p]) = Absent /\ not_found(p) /\ UNCHANGED path
  /\ UNCHANGED <<listening, client_fd, holds, opened, dropped, network, files>>

(* The status line and the headers. *)
header(p) ==
  /\ at[p] = "header"
  /\ write(p, [status |-> 200, length |-> st_size[p], body |-> 0], "open")
  /\ UNCHANGED <<listening, client_fd, holds, locals, network, files>>

(* open(), whose result is not looked at: it may fail (no permission, no   *)
(* descriptor left) although stat() did not.                               *)
open(p) ==
  /\ at[p] = "open"
  /\ \/ /\ opened' = [opened EXCEPT ![p] = file[path[p]]]
        /\ UNCHANGED dropped
     \/ /\ opened' = [opened EXCEPT ![p] = Absent]
        /\ dropped' = dropped \cup {client_fd[p]}
  /\ GoTo(p, "send")
  /\ UNCHANGED <<listening, client_fd, holds, path, st_size, network, answer, files>>

(* The bytes behind file_fd: none without a file or of a directory; else   *)
(* those of the file now, or those it had when it was removed.             *)
Available(p) ==
  IF opened[p] < 0 THEN 0 ELSE IF file[path[p]] >= 0 THEN file[path[p]] ELSE opened[p]

(* The most that sendfile() is asked for and can send. *)
Sendable(p) == IF Available(p) < st_size[p] THEN Available(p) ELSE st_size[p]

(* sendfile() of st_size bytes: it sends what there is or any smaller      *)
(* number of bytes, and its result is not looked at.                       *)
sendfile(p) ==
  LET c == client_fd[p] IN
  /\ at[p] = "send"
  /\ \E n \in 0 .. Sendable(p) :
       /\ write(p, [answer[c] EXCEPT !.body = n], "accept")
       /\ dropped' = IF n < Sendable(p) THEN dropped \cup {c} ELSE dropped
  /\ UNCHANGED <<listening, client_fd, holds, path, st_size, opened, network, files>>

-----------------------------------------------------------------------------
(***************************************************************************)
(* Clients and the file system.                                            *)
(***************************************************************************)

(* A connection is established while some process listens. *)
connect(c, r) ==
  /\ client[c] = "idle"
  /\ listening \cap Alive # {}
  /\ client' = [client EXCEPT ![c] = "pending"]
  /\ request' = [request EXCEPT ![c] = r]
  /\ UNCHANGED <<process, locals, nread, answer, files>>

(* The client closes its connection before the server has. *)
hang_up(c) ==
  /\ client[c] = "connected"
  /\ Holders(c) # {}
  /\ client' = [client EXCEPT ![c] = "closed"]
  /\ UNCHANGED <<process, locals, request, nread, answer, files>>

(* Some program rewrites, removes or creates file n.  A file that was      *)
(* removed is not created again while a child has it open.                 *)
change(n, size) ==
  /\ changes < MaxChanges
  /\ file[n] # Directory
  /\ file[n] # size
  /\ file[n] = Absent => \A p \in Procs : ~ (at[p] = "send" /\ path[p] = n)
  /\ file' = [file EXCEPT ![n] = size]
  /\ changes' = changes + 1
  /\ disturbed' = disturbed \cup
       {client_fd[p] : p \in {q \in Procs : at[q] \in {"index", "header", "open", "send"}}}
  /\ UNCHANGED <<process, locals, network, answer>>

-----------------------------------------------------------------------------

(* main() has set up its socket and its directory. *)
Init ==
  /\ at = [p \in Procs |-> IF p = 0 THEN "accept" ELSE "none"]
  /\ listening = {0}
  /\ client_fd = [p \in Procs |-> NoClient]
  /\ holds = [p \in Procs |-> {}]
  /\ path = [p \in Procs |-> NoPath]
  /\ st_size = [p \in Procs |-> 0]
  /\ opened = [p \in Procs |-> Absent]
  /\ dropped = {}
  /\ client = [c \in Clients |-> "idle"]
  /\ request = [c \in Clients |-> << >>]
  /\ nread = [c \in Clients |-> 0]
  /\ answer = [c \in Clients |-> NoAnswer]
  /\ file = [n \in Names |-> IF n \in Directories THEN Directory ELSE MaxSize]
  /\ changes = 0
  /\ disturbed = {}

Main(p)   == fork(p) \/ child(p) \/ parent(p)
Handle(p) == read_line(p) \/ read_end(p) \/ stat(p) \/ stat_index(p) \/ header(p) \/ open(p) \/ sendfile(p)

Next ==
  \/ \E p \in Procs : accept(p) \/ accept_error(p) \/ Main(p) \/ Handle(p)
  \/ \E c \in Clients : hang_up(c) \/ \E r \in Requests[c] : connect(c, r)
  \/ \E n \in Names, size \in Absent .. MaxSize : change(n, size)

(* Every process runs, but accept() on an open socket need not fail; a     *)
(* client whose request the server still waits for gives up in the end.    *)
Fairness ==
  /\ \A p \in Procs : /\ WF_vars(accept(p))
                       /\ WF_vars(p \notin listening /\ accept_error(p))
                       /\ WF_vars(Main(p))
                       /\ WF_vars(Handle(p))
  /\ \A c \in Clients : WF_vars(nread[c] = Len(request[c]) /\ hang_up(c))

Spec     == Init /\ [][Next]_vars
FairSpec == Spec /\ Fairness

-----------------------------------------------------------------------------
(***************************************************************************)
(* Properties.                                                             *)
(***************************************************************************)

(* Only the first process takes connections, although every child goes     *)
(* back to accept(), and a connection is served by one process at a time   *)
(* (www.c:251-285).                                                        *)
OneServer ==
  /\ \A p \in Procs : p # 0 => at[p] \notin {"fork", "parent"}
  /\ \A p, q \in Procs : Serving(p) /\ Serving(q) /\ client_fd[p] = client_fd[q] => p = q

(* A request ends with its first blank line and is readable up to there. *)
Complete(r) ==
  /\ r # << >>
  /\ \A i \in 1 .. Len(r) : IF i = Len(r) THEN r[i] = "blank"
                                          ELSE r[i] \notin {"blank", "bare", "GET"}

(* What the last GET line of r asks for, and the file that answers it. *)
Asked(r) ==
  LET gets == {i \in 1 .. Len(r) : r[i] \in Names} IN
  IF gets = {} THEN NoPath ELSE r[CHOOSE i \in gets : \A j \in gets : j <= i]

Resolved(r) == IF Asked(r) \in Directories THEN Index[Asked(r)] ELSE Asked(r)

(* a is the right answer for file f: 404 exactly when it does not exist,   *)
(* else its length and no more than its bytes; all of them unless cut.     *)
Right(a, f, cut) ==
  IF f = NoPath \/ Lookup(f) = Absent
    THEN a = [status |-> 404, length |-> 0, body |-> 0]
    ELSE /\ a.status = 200
         /\ file[f] = Directory => a.body = 0
         /\ file[f] # Directory => /\ a.length = file[f]
                                   /\ a.body <= file[f]
                                   /\ cut \/ a.body = file[f]

(* The child p is done with a client that still waits and whose complete   *)
(* request no change of a file has disturbed since the first stat().       *)
Done(p) ==
  LET c == client_fd[p] IN
  /\ Serving(p) /\ ~ Serving(p)'
  /\ client[c] = "connected"
  /\ Complete(request[c])
  /\ c \notin disturbed

(* A complete request gets 404 if the file it asks for does not exist, and *)
(* otherwise the file's length and its bytes: the whole file, but for the  *)
(* failures of open() and sendfile() that the code does not look at, which *)
(* leave the client with fewer bytes than the length it was told, never    *)
(* with another answer (www.c:145-209).                                    *)
AnswersWhole ==
  [][\A p \in Procs : LET c == client_fd[p] IN
       Done(p) => Right(answer'[c], Resolved(request[c]), c \in dropped')]_vars

(* Every connection that was accepted is closed again: the client sees the *)
(* end of its answer without closing its own side, because no process      *)
(* keeps a copy of the descriptor (www.c:265, 277-287).                    *)
ConnectionsEnd ==
  \A c \in Clients : client[c] = "connected" ~> Holders(c) = {}
=============================================================================
