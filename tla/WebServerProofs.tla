-------------------------- MODULE WebServerProofs --------------------------
(***************************************************************************)
(* OneServer, for any number of clients, processes, requests and files.    *)
(* Two facts carry it.  The listening socket is open in the first process, *)
(* and in a child only until its first step, so that no child can get past *)
(* accept().  And the first process forks at most once for a connection:   *)
(* the one it has just accepted was pending, so that no child has it yet.  *)
(***************************************************************************)
EXTENDS WebServer, TLAPS

(* The types the argument needs. *)
ProcessTypes ==
  /\ at \in [Procs -> Points]
  /\ listening \subseteq Procs
  /\ client_fd \in [Procs -> Clients \cup {NoClient}]
  /\ client \in [Clients -> {"idle", "pending", "connected", "closed"}]

(* The first process never serves and no other one takes a connection. *)
Roles ==
  /\ at[0] \in {"accept", "fork", "parent", "ended"}
  /\ \A p \in Procs : p # 0 => at[p] \notin {"fork", "parent"}

(* A child keeps the listening socket only until its first step. *)
Listening == \A p \in listening : p = 0 \/ at[p] = "child"

(* A process has a connection that was accepted, if any; every child has   *)
(* one, and so has the first process when it is about to fork.             *)
Accepted ==
  /\ \A p \in Procs : client_fd[p] # NoClient => client[client_fd[p]] \in {"connected", "closed"}
  /\ \A p \in Procs : (p # 0 /\ at[p] # "none") \/ at[p] = "fork" => client_fd[p] # NoClient

(* Children have connections of their own, and the first process is about  *)
(* to fork for one that no child has.                                      *)
OwnConnection ==
  /\ \A p, q \in Procs \ {0} :
       client_fd[p] = client_fd[q] => p = q \/ client_fd[p] = NoClient
  /\ at[0] = "fork" => \A p \in Procs \ {0} : client_fd[p] # client_fd[0]

IInv == ProcessTypes /\ Roles /\ Listening /\ Accepted /\ OwnConnection

LEMMA ZeroIsProcess == 0 \in Procs
  BY WebServerAssumption DEF Procs

LEMMA InitHolds == Init => IInv
  <1> SUFFICES ASSUME Init PROVE IInv
    OBVIOUS
  <1>1. ProcessTypes
    BY ZeroIsProcess DEF Init, ProcessTypes, Points
  <1>2. Roles /\ Listening /\ Accepted /\ OwnConnection
    BY ZeroIsProcess DEF Init, Roles, Listening, Accepted, OwnConnection
  <1> QED
    BY <1>1, <1>2 DEF IInv

(* A step that moves a child on within its code, or ends a process, and    *)
(* touches neither sockets nor clients.                                    *)
LEMMA MovePreserves ==
  ASSUME IInv, NEW p \in Procs, NEW x \in Points,
         GoTo(p, x), UNCHANGED <<client_fd, client>>,
         listening' \subseteq listening, at[p] = "child" => p \notin listening',
         at[p] # "none",
         x = "ended" \/ (x \notin {"none", "fork", "parent", "child"} /\ (p = 0 => x = "accept"))
  PROVE  IInv'
  <1> USE ZeroIsProcess DEF IInv, ProcessTypes, GoTo
  <1>1. ProcessTypes'
    OBVIOUS
  <1>2. Roles'
    BY DEF Roles
  <1>3. Listening'
    BY DEF Listening
  <1>4. Accepted'
    BY DEF Accepted
  <1>5. OwnConnection'
    BY DEF OwnConnection
  <1> QED
    BY <1>1, <1>2, <1>3, <1>4, <1>5

LEMMA AcceptPreserves == ASSUME IInv, NEW p \in Procs, accept(p) PROVE IInv'
  <1> USE ZeroIsProcess DEF IInv, ProcessTypes, GoTo
  <1>1. p = 0
    BY DEF accept, Listening
  <1>2. PICK c \in Clients : /\ client[c] = "pending"
                             /\ client' = [client EXCEPT ![c] = "connected"]
                             /\ client_fd' = [client_fd EXCEPT ![p] = c]
    BY DEF accept
  <1>3. at' = [at EXCEPT ![0] = "fork"] /\ listening' = listening
    BY <1>1 DEF accept
  <1>4. c # NoClient
    BY WebServerAssumption
  <1>5. \A q \in Procs : client_fd[q] # c
    BY <1>2, <1>4 DEF Accepted
  <1>6. ProcessTypes'
    BY <1>2, <1>3 DEF Points
  <1>7. Roles' /\ Listening'
    BY <1>3, <1>1 DEF Roles, Listening
  <1>8. Accepted'
    BY <1>1, <1>2, <1>3, <1>4, <1>5 DEF Accepted
  <1>9. OwnConnection'
    BY <1>1, <1>2, <1>3, <1>5 DEF OwnConnection
  <1> QED
    BY <1>6, <1>7, <1>8, <1>9

LEMMA ForkPreserves == ASSUME IInv, NEW p \in Procs, fork(p) PROVE IInv'
  <1> USE ZeroIsProcess DEF IInv, ProcessTypes
  <1>1. p = 0
    BY DEF fork, Roles
  <1>2. CASE GoTo(p, "ended") /\ UNCHANGED <<listening, client_fd, holds>>
    BY <1>1, <1>2, MovePreserves DEF fork, network, Points
  <1>3. CASE \E q \in Procs :
               /\ at[q] = "none"
               /\ at' = [at EXCEPT ![p] = "parent", ![q] = "child"]
               /\ client_fd' = [client_fd EXCEPT ![q] = client_fd[p]]
               /\ listening' = IF p \in listening THEN listening \cup {q} ELSE listening
    <2>1. PICK q \in Procs :
               /\ at[q] = "none"
               /\ at' = [at EXCEPT ![0] = "parent", ![q] = "child"]
               /\ client_fd' = [client_fd EXCEPT ![q] = client_fd[0]]
               /\ listening' = IF 0 \in listening THEN listening \cup {q} ELSE listening
      BY <1>1, <1>3
    <2>2. q # 0 /\ client' = client /\ at[0] = "fork"
      BY <1>1, <2>1 DEF fork, network, Roles
    <2>3. ProcessTypes'
      BY <2>1, <2>2 DEF Points
    <2>4. Roles' /\ Listening'
      BY <2>1, <2>2 DEF Roles, Listening
    <2>5. Accepted'
      BY <2>1, <2>2 DEF Accepted
    <2>6. OwnConnection'
      BY <2>1, <2>2 DEF OwnConnection
    <2> QED
      BY <2>3, <2>4, <2>5, <2>6
  <1> QED
    BY <1>2, <1>3 DEF fork

(* The steps of a process other than accept() and fork(). *)
LEMMA ProcessPreserves ==
  ASSUME IInv, NEW p \in Procs,
         accept_error(p) \/ child(p) \/ parent(p) \/ Handle(p)
  PROVE  IInv'
  <1> USE DEF Points
  <1>1. CASE accept_error(p)
    BY <1>1, MovePreserves DEF accept_error, network, IInv, Roles
  <1>2. CASE child(p)
    <2>1. p # 0
      BY <1>2 DEF child, IInv, Roles
    <2> QED
      BY <1>2, <2>1, MovePreserves DEF child, network
  <1>3. CASE parent(p)
    BY <1>3, MovePreserves DEF parent, network
  <1>4. CASE Handle(p)
    <2>1. PICK x \in {"read", "accept", "stat", "index", "header", "open", "send", "ended"} : GoTo(p, x)
      BY <1>4 DEF Handle, read_line, read_end, stat, stat_index, header, open, sendfile, found,
                  not_found, write, AfterLine
    <2>2. UNCHANGED <<client_fd, client, listening>>
      BY <1>4 DEF Handle, read_line, read_end, stat, stat_index, header, open, sendfile, network
    <2>3. at[p] \in {"read", "stat", "index", "header", "open", "send"}
      BY <1>4 DEF Handle, read_line, read_end, stat, stat_index, header, open, sendfile
    <2>4. p # 0
      BY <2>3 DEF IInv, Roles
    <2> QED
      BY <2>1, <2>2, <2>3, <2>4, MovePreserves
  <1> QED
    BY <1>1, <1>2, <1>3, <1>4

(* Clients and the file system. *)
LEMMA EnvironmentPreserves ==
  ASSUME IInv,
         \/ \E c \in Clients : hang_up(c) \/ \E r \in Requests[c] : connect(c, r)
         \/ \E n \in Names, size \in Absent .. MaxSize : change(n, size)
  PROVE  IInv'
  <1> USE DEF IInv, ProcessTypes
  <1>1. UNCHANGED <<at, listening, client_fd>>
    BY DEF hang_up, connect, change, process
  <1>2. client' \in [Clients -> {"idle", "pending", "connected", "closed"}]
    BY DEF hang_up, connect, change, network
  <1>3. \A c \in Clients : client[c] \in {"connected", "closed"} => client'[c] \in {"connected", "closed"}
    BY DEF hang_up, connect, change, network
  <1>4. Roles' /\ Listening' /\ OwnConnection'
    BY <1>1 DEF Roles, Listening, OwnConnection
  <1>5. Accepted'
    BY <1>1, <1>3 DEF Accepted
  <1> QED
    BY <1>1, <1>2, <1>4, <1>5

LEMMA StepPreserves == IInv /\ [Next]_vars => IInv'
  <1> SUFFICES ASSUME IInv, [Next]_vars PROVE IInv'
    OBVIOUS
  <1>1. CASE \E p \in Procs : accept(p) \/ fork(p)
    BY <1>1, AcceptPreserves, ForkPreserves
  <1>2. CASE \E p \in Procs : accept_error(p) \/ child(p) \/ parent(p) \/ Handle(p)
    BY <1>2, ProcessPreserves
  <1>3. CASE \/ \E c \in Clients : hang_up(c) \/ \E r \in Requests[c] : connect(c, r)
             \/ \E n \in Names, size \in Absent .. MaxSize : change(n, size)
    BY <1>3, EnvironmentPreserves
  <1>4. CASE UNCHANGED vars
    BY <1>4 DEF IInv, ProcessTypes, Roles, Listening, Accepted, OwnConnection, vars, process, network
  <1> QED
    BY <1>1, <1>2, <1>3, <1>4 DEF Next, Main

(* The inductive invariant holds in every reachable state. *)
THEOREM Invariant == Spec => []IInv
  BY InitHolds, StepPreserves, PTL DEF Spec

(* For any number of clients and processes only the first process takes    *)
(* connections, although every child goes back to accept(), and two        *)
(* processes never serve the same connection (www.c:251-285).              *)
THEOREM OneServerHolds == Spec => []OneServer
  <1>1. IInv => OneServer
    BY DEF IInv, Roles, Accepted, OwnConnection, OneServer, Serving
  <1> QED
    BY <1>1, Invariant, PTL

-----------------------------------------------------------------------------
(***************************************************************************)
(* Types.  A process that serves has a client, the path it has looked up   *)
(* is one of the file system's, and directories stay what they are.        *)
(***************************************************************************)

Paths ==
  /\ \A n \in Names : file[n] = Directory <=> n \in Directories
  /\ \A p \in Procs : at[p] \in {"index", "header", "open", "send"} => path[p] \in Names

(* Nothing was read of a request before the connection was accepted. *)
Unread == \A c \in Clients : client[c] \in {"idle", "pending"} => nread[c] = 0

TInv == TypeOK /\ Paths /\ Unread /\ IInv

LEMMA InitTyped == Init => TypeOK /\ Paths
  <1> SUFFICES ASSUME Init PROVE TypeOK /\ Paths
    OBVIOUS
  <1> USE WebServerAssumption, ZeroIsProcess DEF Init, Absent, Directory
  <1>1. /\ at \in [Procs -> Points] /\ listening \subseteq Procs
        /\ client_fd \in [Procs -> Clients \cup {NoClient}] /\ holds \in [Procs -> SUBSET Clients]
    BY DEF Points
  <1>2. /\ path \in [Procs -> Names \cup {NoPath}] /\ st_size \in [Procs -> 0 .. MaxSize]
        /\ opened \in [Procs -> Directory .. MaxSize] /\ dropped \subseteq Clients
    OBVIOUS
  <1>3. /\ client \in [Clients -> {"idle", "pending", "connected", "closed"}]
        /\ request \in [Clients -> (UNION {Requests[c] : c \in Clients}) \cup {<< >>}]
        /\ nread \in [Clients -> Nat]
        /\ \A c \in Clients : nread[c] <= Len(request[c])
    OBVIOUS
  <1>4. answer \in [Clients -> Answers]
    BY DEF Answers, NoAnswer
  <1>5. /\ file \in [Names -> Directory .. MaxSize]
        /\ changes \in 0 .. MaxChanges /\ disturbed \subseteq Clients
    OBVIOUS
  <1>6. Paths
    BY DEF Paths
  <1> QED
    BY <1>1, <1>2, <1>3, <1>4, <1>5, <1>6 DEF TypeOK

LEMMA SequenceLengths ==
  ASSUME TypeOK, NEW c \in Clients
  PROVE  /\ Len(request[c]) \in Nat
         /\ request[c] \in Seq(Names \cup {"GET", "field", "blank", "bare"})
         /\ \A i \in 1 .. Len(request[c]) : request[c][i] \in Names \cup {"GET", "field", "blank", "bare"}
  <1>1. request[c] \in Seq(Names \cup {"GET", "field", "blank", "bare"})
    <2>1. (\E d \in Clients : request[c] \in Requests[d]) \/ request[c] = << >>
      BY DEF TypeOK
    <2>2. << >> \in Seq(Names \cup {"GET", "field", "blank", "bare"})
      OBVIOUS
    <2>3. CASE \E d \in Clients : request[c] \in Requests[d]
      BY <2>3, WebServerAssumption
    <2> QED
      BY <2>1, <2>2, <2>3
  <1> QED
    BY <1>1

(* A process that serves, or is about to, has a client. *)
LEMMA ServesClient ==
  ASSUME TInv, NEW p \in Procs, Serving(p) \/ at[p] \in {"child", "fork"}
  PROVE  client_fd[p] \in Clients
  BY DEF TInv, TypeOK, IInv, Accepted, Roles, Serving

(* The steps of main()'s loop. *)
LEMMA MainTyped ==
  ASSUME TInv, NEW p \in Procs,
         accept(p) \/ accept_error(p) \/ fork(p) \/ child(p) \/ parent(p)
  PROVE  TypeOK' /\ Paths'
  <1> USE DEF TInv, TypeOK, Points, GoTo, locals, network, files
  <1>1. CASE accept(p)
    BY <1>1 DEF accept, Paths
  <1>2. CASE accept_error(p)
    BY <1>2 DEF accept_error, Paths
  <1>3. CASE fork(p)
    <2>1. CASE GoTo(p, "ended") /\ UNCHANGED <<listening, client_fd, holds>>
      BY <1>3, <2>1 DEF fork, Paths
    <2>2. CASE ~ (GoTo(p, "ended") /\ UNCHANGED <<listening, client_fd, holds>>)
      <3>1. PICK q \in Procs :
              /\ at' = [at EXCEPT ![p] = "parent", ![q] = "child"]
              /\ client_fd' = [client_fd EXCEPT ![q] = client_fd[p]]
              /\ holds' = [holds EXCEPT ![q] = holds[p]]
              /\ listening' = IF p \in listening THEN listening \cup {q} ELSE listening
        BY <1>3, <2>2 DEF fork
      <3>2. UNCHANGED <<locals, network, answer, files>>
        BY <1>3 DEF fork
      <3>3. TypeOK'
        BY <3>1, <3>2
      <3>4. Paths'
        BY <3>1, <3>2 DEF Paths
      <3> QED
        BY <3>3, <3>4
    <2> QED
      BY <2>1, <2>2
  <1>4. CASE child(p)
    BY <1>4 DEF child, Paths
  <1>5. CASE parent(p)
    BY <1>5 DEF parent, Paths
  <1> QED
    BY <1>1, <1>2, <1>3, <1>4, <1>5

LEMMA ReadTyped ==
  ASSUME TInv, NEW p \in Procs, read_line(p) \/ read_end(p)
  PROVE  TypeOK' /\ Paths'
  <1> USE DEF TInv, GoTo, locals, network, files
  <1>1. CASE read_line(p)
    <2> DEFINE c == client_fd[p]
               l == request[c][nread[c] + 1]
    <2>1. c \in Clients /\ Len(request[c]) \in Nat
      BY <1>1, ServesClient, SequenceLengths DEF read_line, Serving
    <2>2. AfterLine(l) \in {"accept", "stat", "ended", "read"}
      BY DEF AfterLine
    <2> HIDE DEF l
    <2>3. at' \in [Procs -> Points] /\ at'[p] \in {"accept", "stat", "ended", "read"}
          /\ \A q \in Procs : q # p => at'[q] = at[q]
      BY <1>1, <2>2 DEF read_line, TypeOK, Points, l
    <2>4. path' \in [Procs -> Names \cup {NoPath}] /\ \A q \in Procs : q # p => path'[q] = path[q]
      BY <1>1 DEF read_line, TypeOK, l
    <2>5. nread' \in [Clients -> Nat] /\ \A d \in Clients : nread'[d] <= Len(request[d])
      BY <1>1, <2>1 DEF read_line, TypeOK
    <2>6. TypeOK'
      BY <1>1, <2>3, <2>4, <2>5 DEF read_line, TypeOK
    <2>7. Paths'
      BY <1>1, <2>3, <2>4 DEF read_line, Paths
    <2> QED
      BY <2>6, <2>7
  <1>2. CASE read_end(p)
    BY <1>2 DEF read_end, TypeOK, Points, Paths
  <1> QED
    BY <1>1, <1>2

(* write() keeps the types if what it writes is an answer. *)
LEMMA WriteTyped ==
  ASSUME TInv, NEW p \in Procs, Serving(p), NEW a \in Answers, NEW x \in Points, write(p, a, x)
  PROVE  /\ at' \in [Procs -> Points] /\ at'[p] \in {x, "ended"}
         /\ \A q \in Procs : q # p => at'[q] = at[q]
         /\ answer' \in [Clients -> Answers]
  <1>1. client_fd[p] \in Clients
    BY ServesClient
  <1>2. at \in [Procs -> Points] /\ answer \in [Clients -> Answers]
    BY DEF TInv, TypeOK
  <1>3. PICK y \in {x, "ended"} : at' = [at EXCEPT ![p] = y]
    BY DEF write, GoTo
  <1>4. answer' = answer \/ answer' = [answer EXCEPT ![client_fd[p]] = a]
    BY DEF write
  <1>5. answer' \in [Clients -> Answers]
    BY <1>1, <1>2, <1>4
  <1> QED
    BY <1>2, <1>3, <1>5 DEF Points

LEMMA FoundTyped ==
  ASSUME TInv, NEW p \in Procs, found(p)
  PROVE  /\ path[p] \in Names /\ file[path[p]] # Absent
         /\ file[path[p]] # Directory => st_size'[p] = file[path[p]]
         /\ at' \in [Procs -> Points] /\ at'[p] = "header"
         /\ \A q \in Procs : q # p => at'[q] = at[q]
         /\ st_size' \in [Procs -> 0 .. MaxSize]
         /\ UNCHANGED <<path, answer>>
  <1>1. path[p] \in Names /\ file[path[p]] # Absent /\ file[path[p]] \in Directory .. MaxSize
    BY DEF TInv, TypeOK, found, Lookup
  <1>2. PICK size \in Sizes(path[p]) : st_size' = [st_size EXCEPT ![p] = size]
    BY DEF found
  <1>3. size \in 0 .. MaxSize /\ (file[path[p]] # Directory => size = file[path[p]])
    BY <1>1, <1>2, WebServerAssumption DEF Sizes, Absent, Directory
  <1>4. st_size' \in [Procs -> 0 .. MaxSize] /\ st_size'[p] = size
    BY <1>2, <1>3 DEF TInv, TypeOK
  <1> QED
    BY <1>1, <1>3, <1>4 DEF TInv, TypeOK, found, GoTo, Points

LEMMA NotFoundTyped ==
  ASSUME TInv, NEW p \in Procs, Serving(p), not_found(p)
  PROVE  /\ at' \in [Procs -> Points] /\ at'[p] \in {"accept", "ended"}
         /\ \A q \in Procs : q # p => at'[q] = at[q]
         /\ answer' \in [Clients -> Answers]
         /\ UNCHANGED st_size
  <1>1. [status |-> 404, length |-> 0, body |-> 0] \in Answers
    BY WebServerAssumption DEF Answers
  <1> QED
    BY <1>1, WriteTyped DEF not_found, Points

LEMMA StatTyped ==
  ASSUME TInv, NEW p \in Procs, stat(p) \/ stat_index(p)
  PROVE  TypeOK' /\ Paths'
  <1>1. Serving(p)
    BY DEF stat, stat_index, Serving
  <1>2. UNCHANGED <<listening, client_fd, holds, opened, dropped, client, request, nread, file, changes, disturbed>>
    BY DEF stat, stat_index, network, files
  <1>3. CASE found(p)
    <2>1. TypeOK'
      BY <1>2, <1>3, FoundTyped DEF TInv, TypeOK
    <2>2. Paths'
      BY <1>2, <1>3, FoundTyped DEF TInv, Paths
    <2> QED
      BY <2>1, <2>2
  <1>4. CASE not_found(p) /\ UNCHANGED path
    <2>1. TypeOK'
      BY <1>1, <1>2, <1>4, NotFoundTyped DEF TInv, TypeOK
    <2>2. Paths'
      BY <1>1, <1>2, <1>4, NotFoundTyped DEF TInv, Paths
    <2> QED
      BY <2>1, <2>2
  <1>5. CASE /\ Lookup(path[p]) = Directory
             /\ path' = [path EXCEPT ![p] = Index[@]]
             /\ GoTo(p, "index")
             /\ UNCHANGED <<st_size, answer>>
    <2>1. path[p] \in Directories
      BY <1>5 DEF TInv, TypeOK, Paths, Lookup, Absent, Directory
    <2>2. Index[path[p]] \in Names
      BY <2>1, WebServerAssumption
    <2>3. TypeOK'
      BY <1>2, <1>5, <2>2 DEF TInv, TypeOK, GoTo, Points
    <2>4. Paths'
      BY <1>2, <1>5, <2>2 DEF TInv, TypeOK, Paths, GoTo
    <2> QED
      BY <2>3, <2>4
  <1> QED
    BY <1>3, <1>4, <1>5 DEF stat, stat_index

LEMMA SendTyped ==
  ASSUME TInv, NEW p \in Procs, header(p) \/ open(p) \/ sendfile(p)
  PROVE  TypeOK' /\ Paths'
  <1>1. Serving(p) /\ client_fd[p] \in Clients
    BY ServesClient DEF header, open, sendfile, Serving
  <1>2. st_size[p] \in 0 .. MaxSize /\ MaxSize \in Nat
    BY WebServerAssumption DEF TInv, TypeOK
  <1>3. CASE header(p)
    <2>1. [status |-> 200, length |-> st_size[p], body |-> 0] \in Answers
      BY <1>2 DEF Answers
    <2>2. /\ at' \in [Procs -> Points] /\ at'[p] \in {"open", "ended"}
          /\ \A q \in Procs : q # p => at'[q] = at[q]
          /\ answer' \in [Clients -> Answers]
      BY <1>1, <1>3, <2>1, WriteTyped DEF header, Points
    <2> QED
      BY <1>3, <2>2 DEF header, locals, network, files, TInv, TypeOK, Paths
  <1>4. CASE open(p)
    <2>1. path[p] \in Names /\ file[path[p]] \in Directory .. MaxSize
      BY <1>4 DEF open, TInv, TypeOK, Paths
    <2>2. opened' \in [Procs -> Directory .. MaxSize] /\ dropped' \subseteq Clients
      <3>1. Absent \in Directory .. MaxSize
        BY <1>2 DEF Absent, Directory
      <3>2. opened \in [Procs -> Directory .. MaxSize] /\ dropped \subseteq Clients
        BY DEF TInv, TypeOK
      <3>3. PICK x \in Directory .. MaxSize : opened' = [opened EXCEPT ![p] = x]
        BY <1>4, <2>1, <3>1 DEF open
      <3>4. dropped' = dropped \/ dropped' = dropped \cup {client_fd[p]}
        BY <1>4 DEF open
      <3> QED
        BY <1>1, <3>2, <3>3, <3>4
    <2>3. TypeOK'
      BY <1>4, <2>2 DEF open, GoTo, Points, network, files, TInv, TypeOK
    <2>4. Paths'
      BY <1>4, <2>1 DEF open, GoTo, files, TInv, TypeOK, Paths
    <2> QED
      BY <2>3, <2>4
  <1>5. CASE sendfile(p)
    <2>1. path[p] \in Names /\ Available(p) \in Nat
      BY <1>2, <1>5 DEF sendfile, TInv, TypeOK, Paths, Available, Absent, Directory
    <2>2. Sendable(p) \in 0 .. MaxSize
      BY <1>2, <2>1 DEF Sendable
    <2>0. PICK n \in 0 .. Sendable(p) :
            /\ write(p, [answer[client_fd[p]] EXCEPT !.body = n], "accept")
            /\ dropped' = IF n < Sendable(p) THEN dropped \cup {client_fd[p]} ELSE dropped
      BY <1>5 DEF sendfile
    <2> DEFINE a == [answer[client_fd[p]] EXCEPT !.body = n]
    <2>3. answer[client_fd[p]] \in Answers
      BY <1>1 DEF TInv, TypeOK
    <2>4. a \in Answers
      BY <2>2, <2>3, <1>2 DEF Answers
    <2>5. write(p, a, "accept") /\ dropped' \subseteq Clients
      BY <1>1, <2>0 DEF TInv, TypeOK
    <2> HIDE DEF a
    <2>6. /\ at' \in [Procs -> Points] /\ at'[p] \in {"accept", "ended"}
          /\ \A q \in Procs : q # p => at'[q] = at[q]
          /\ answer' \in [Clients -> Answers]
      BY <1>1, <2>4, <2>5, WriteTyped DEF Points
    <2> QED
      BY <1>5, <2>5, <2>6 DEF sendfile, network, files, TInv, TypeOK, Paths
  <1> QED
    BY <1>3, <1>4, <1>5

LEMMA EnvironmentTyped ==
  ASSUME TInv,
         \/ \E c \in Clients : hang_up(c) \/ \E r \in Requests[c] : connect(c, r)
         \/ \E n \in Names, size \in Absent .. MaxSize : change(n, size)
  PROVE  TypeOK' /\ Paths'
  <1> USE DEF TInv, process, locals, network, files
  <1>1. ASSUME NEW c \in Clients, hang_up(c) PROVE TypeOK' /\ Paths'
    BY <1>1 DEF hang_up, TypeOK, Paths
  <1>2. ASSUME NEW c \in Clients, NEW r \in Requests[c], connect(c, r) PROVE TypeOK' /\ Paths'
    <2>1. nread[c] = 0 /\ Len(r) \in Nat
      BY <1>2, WebServerAssumption DEF connect, Unread
    <2> QED
      BY <1>2, <2>1 DEF connect, TypeOK, Paths
  <1>3. ASSUME NEW n \in Names, NEW size \in Absent .. MaxSize, change(n, size) PROVE TypeOK' /\ Paths'
    <2>1. disturbed' \subseteq Clients
      <3>1. \A q \in Procs : at[q] \in {"index", "header", "open", "send"} => client_fd[q] \in Clients
        BY ServesClient DEF Serving
      <3> QED
        BY <1>3, <3>1 DEF change, TypeOK
    <2>2. file' \in [Names -> Directory .. MaxSize] /\ changes' \in 0 .. MaxChanges
      BY <1>3, WebServerAssumption DEF change, TypeOK, Absent, Directory
    <2>3. TypeOK'
      BY <1>3, <2>1, <2>2 DEF change, TypeOK
    <2>4. Paths'
      BY <1>3, WebServerAssumption DEF change, TypeOK, Paths, Absent, Directory
    <2> QED
      BY <2>3, <2>4
  <1> QED
    BY <1>1, <1>2, <1>3

LEMMA UnreadPreserved ==
  ASSUME TInv, [Next]_vars
  PROVE  Unread'
  <1> USE DEF TInv, Unread, network
  <1>1. ASSUME NEW p \in Procs, accept(p) \/ accept_error(p) \/ Main(p) PROVE Unread'
    BY <1>1 DEF accept, accept_error, Main, fork, child, parent, TypeOK
  <1>2. ASSUME NEW p \in Procs, Handle(p) PROVE Unread'
    <2>1. CASE read_line(p)
      <3>1. client[client_fd[p]] \in {"connected", "closed"} /\ client_fd[p] \in Clients
        BY <2>1, ServesClient, WebServerAssumption DEF read_line, Serving, IInv, Accepted
      <3> QED
        BY <2>1, <3>1 DEF read_line, TypeOK
    <2>2. CASE ~ read_line(p)
      BY <1>2, <2>2 DEF Handle, read_end, stat, stat_index, header, open, sendfile
    <2> QED
      BY <2>1, <2>2
  <1>3. CASE \/ \E c \in Clients : hang_up(c) \/ \E r \in Requests[c] : connect(c, r)
             \/ \E n \in Names, size \in Absent .. MaxSize : change(n, size)
    BY <1>3 DEF hang_up, connect, change, TypeOK
  <1>4. CASE UNCHANGED vars
    BY <1>4 DEF vars
  <1> QED
    BY <1>1, <1>2, <1>3, <1>4 DEF Next

LEMMA StepTyped == TInv /\ [Next]_vars => TInv'
  <1> SUFFICES ASSUME TInv, [Next]_vars PROVE TInv'
    OBVIOUS
  <1>1. IInv' /\ Unread'
    BY StepPreserves, UnreadPreserved DEF TInv
  <1>2. ASSUME NEW p \in Procs, accept(p) \/ accept_error(p) \/ Main(p) \/ Handle(p)
        PROVE  TypeOK' /\ Paths'
    BY <1>2, MainTyped, ReadTyped, StatTyped, SendTyped DEF Main, Handle
  <1>3. ASSUME UNCHANGED vars PROVE TypeOK' /\ Paths'
    <2>1. /\ UNCHANGED <<at, listening, client_fd, holds, path, st_size, opened, dropped, client, request>>
          /\ UNCHANGED <<nread, answer, file, changes, disturbed>>
      BY <1>3 DEF vars, process, locals, network, files
    <2>2. TypeOK'
      BY <2>1 DEF TInv, TypeOK
    <2>3. Paths'
      BY <2>1 DEF TInv, Paths
    <2> QED
      BY <2>2, <2>3
  <1>4. TypeOK' /\ Paths'
    <2>1. CASE \E p \in Procs : accept(p) \/ accept_error(p) \/ Main(p) \/ Handle(p)
      BY <1>2, <2>1
    <2>2. CASE \/ \E c \in Clients : hang_up(c) \/ \E r \in Requests[c] : connect(c, r)
               \/ \E n \in Names, size \in Absent .. MaxSize : change(n, size)
      BY <2>2, EnvironmentTyped
    <2> QED
      BY <1>3, <2>1, <2>2 DEF Next
  <1> QED
    BY <1>1, <1>4 DEF TInv

LEMMA TypedInvariant == Spec => []TInv
  <1>1. Init => TInv
    BY InitTyped, InitHolds DEF TInv, Init, Unread
  <1> QED
    BY <1>1, StepTyped, PTL DEF Spec

(* All variables keep their types; in particular handle_request() works on *)
(* a client the server has accepted and sends no more than stat() said     *)
(* there is (www.c:145-209).                                               *)
THEOREM TypeCorrect == Spec => []TypeOK
  BY TypedInvariant, PTL DEF TInv

-----------------------------------------------------------------------------
(***************************************************************************)
(* Whole answers.  The invariant follows one request through its child:    *)
(* the path is the last one read, then the one asked for, then the one of  *)
(* the file to send; the size, the header and the open file are those of   *)
(* the file system, unless a file was changed meanwhile or open() failed.  *)
(***************************************************************************)

(* The path of process p is that of the last GET among the lines read. *)
ReadSoFar(p) ==
  LET c == client_fd[p]
      r == request[c]
  IN  \/ path[p] = NoPath /\ \A i \in 1 .. nread[c] : r[i] \notin Names
      \/ \E i \in 1 .. nread[c] : /\ r[i] \in Names
                                  /\ path[p] = r[i]
                                  /\ \A j \in i + 1 .. nread[c] : r[j] \notin Names

Undisturbed(p) == Complete(request[client_fd[p]]) /\ client_fd[p] \notin disturbed

Answering(p) ==
  LET c == client_fd[p]
      r == request[c]
  IN  /\ at[p] \in {"none", "child"} => path[p] = NoPath
      /\ at[p] \in {"fork", "child"} => nread[c] = 0
      /\ at[p] = "read" => ReadSoFar(p)
      /\ at[p] = "stat" /\ Complete(r) => path[p] = Asked(r)
      /\ at[p] = "index" /\ Undisturbed(p) => Asked(r) \in Directories /\ path[p] = Resolved(r)
      /\ at[p] \in {"header", "open", "send"} /\ Undisturbed(p) =>
           /\ Asked(r) \in Names /\ path[p] = Resolved(r) /\ file[path[p]] # Absent
           /\ file[path[p]] # Directory => st_size[p] = file[path[p]]
      /\ at[p] \in {"open", "send"} /\ Undisturbed(p) =>
           answer[c] = [status |-> 200, length |-> st_size[p], body |-> 0]
      /\ at[p] = "send" /\ Undisturbed(p) =>
           opened[p] = file[path[p]] \/ (opened[p] = Absent /\ c \in dropped)

AInv == \A p \in Procs : Answering(p)

LEMMA AfterLineIs ==
  ASSUME NEW l
  PROVE  /\ l = "bare" => AfterLine(l) = "accept"
         /\ l = "blank" => AfterLine(l) = "stat"
         /\ l = "GET" => AfterLine(l) = "ended"
         /\ l \notin {"bare", "blank", "GET"} => AfterLine(l) = "read"
  BY Zenon DEF AfterLine

(* What was read when the blank line comes is what the request asks for. *)
LEMMA LastPathAsked ==
  ASSUME NEW r \in Seq(Names \cup {"GET", "field", "blank", "bare"}), NEW n \in Nat,
         Complete(r), n + 1 <= Len(r), r[n + 1] = "blank", NEW x,
         \/ x = NoPath /\ \A i \in 1 .. n : r[i] \notin Names
         \/ \E i \in 1 .. n : /\ r[i] \in Names /\ x = r[i]
                              /\ \A j \in i + 1 .. n : r[j] \notin Names
  PROVE  x = Asked(r)
  <1> DEFINE gets == {i \in 1 .. Len(r) : r[i] \in Names}
  <1>1. n + 1 = Len(r)
    BY DEF Complete
  <1>2. "blank" \notin Names
    BY WebServerAssumption
  <1>3. gets = {i \in 1 .. n : r[i] \in Names}
    BY <1>1, <1>2
  <1>4. CASE \A i \in 1 .. n : r[i] \notin Names
    <2>1. gets = {}
      BY <1>3, <1>4
    <2> QED
      BY <1>4, <2>1 DEF Asked
  <1>5. CASE \E i \in 1 .. n : /\ r[i] \in Names /\ x = r[i]
                               /\ \A j \in i + 1 .. n : r[j] \notin Names
    <2>1. PICK i \in 1 .. n : /\ r[i] \in Names /\ x = r[i]
                              /\ \A j \in i + 1 .. n : r[j] \notin Names
      BY <1>5
    <2>2. i \in gets /\ \A j \in gets : j <= i
      BY <1>3, <2>1
    <2>3. \A k \in gets : (\A j \in gets : j <= k) => k = i
      BY <2>2
    <2>4. i = CHOOSE k \in gets : \A j \in gets : j <= k
      BY <2>2, <2>3
    <2> QED
      BY <2>1, <2>2, <2>4 DEF Asked
  <1> QED
    BY <1>4, <1>5

(* A step of process p leaves the others' requests alone. *)
LEMMA OthersAnswering ==
  ASSUME TInv, AInv, NEW p \in Procs, p # 0, NEW q \in Procs, q # p,
         client_fd[p] \in Clients,
         at'[q] = at[q], path'[q] = path[q], st_size'[q] = st_size[q], opened'[q] = opened[q],
         UNCHANGED <<client_fd, request, file, disturbed>>, dropped \subseteq dropped',
         \A c \in Clients : c # client_fd[p] => nread'[c] = nread[c] /\ answer'[c] = answer[c]
  PROVE  Answering(q)'
  <1>1. Answering(q)
    BY DEF AInv
  <1>2. CASE at[q] \in {"accept", "parent", "ended"}
    BY <1>2 DEF Answering
  <1>3. CASE at[q] = "none"
    BY <1>1, <1>3 DEF Answering
  <1>4. CASE at[q] \notin {"none", "accept", "parent", "ended"}
    <2>1. client_fd[q] \in Clients
      BY <1>4, ServesClient DEF TInv, TypeOK, Points, Serving
    <2>2. client_fd[q] # client_fd[p]
      BY <1>4, <2>1, WebServerAssumption DEF TInv, IInv, Roles, OwnConnection
    <2>3. nread'[client_fd[q]] = nread[client_fd[q]] /\ answer'[client_fd[q]] = answer[client_fd[q]]
      BY <2>1, <2>2
    <2> QED
      BY <1>1, <2>3 DEF Answering, ReadSoFar, Undisturbed
  <1> QED
    BY <1>2, <1>3, <1>4

LEMMA MainAnswering ==
  ASSUME TInv, AInv, NEW p \in Procs, accept(p) \/ accept_error(p) \/ Main(p)
  PROVE  AInv'
  <1> SUFFICES ASSUME NEW q \in Procs PROVE Answering(q)'
    BY DEF AInv
  <1>0. Answering(q) /\ UNCHANGED <<path, st_size, opened, dropped, request, nread, answer, file, disturbed>>
    BY DEF AInv, accept, accept_error, Main, fork, child, parent, locals, network, files
  <1>1. CASE accept(p)
    <2>1. p = 0
      BY <1>1 DEF accept, TInv, IInv, Listening
    <2>2. CASE q = 0
      <3>1. at'[0] = "fork" /\ nread[client_fd'[0]] = 0
        BY <1>1, <2>1 DEF accept, GoTo, TInv, TypeOK, Unread
      <3> QED
        BY <1>0, <2>2, <3>1 DEF Answering
    <2>3. CASE q # 0
      <3>1. at'[q] = at[q] /\ client_fd'[q] = client_fd[q]
        BY <1>1, <2>1, <2>3 DEF accept, GoTo, TInv, TypeOK
      <3> QED
        BY <1>0, <3>1 DEF Answering, ReadSoFar, Undisturbed
    <2> QED
      BY <2>2, <2>3
  <1>2. CASE fork(p)
    <2>1. CASE GoTo(p, "ended") /\ UNCHANGED <<listening, client_fd, holds>>
      <3>1. client_fd' = client_fd /\ (at'[q] = at[q] \/ at'[q] = "ended")
        BY <2>1 DEF GoTo, TInv, TypeOK
      <3> QED
        BY <1>0, <3>1 DEF Answering, ReadSoFar, Undisturbed
    <2>2. CASE ~ (GoTo(p, "ended") /\ UNCHANGED <<listening, client_fd, holds>>)
      <3>1. PICK k \in Procs :
              /\ at[k] = "none"
              /\ at' = [at EXCEPT ![p] = "parent", ![k] = "child"]
              /\ client_fd' = [client_fd EXCEPT ![k] = client_fd[p]]
        BY <1>2, <2>2 DEF fork
      <3>2. at[p] = "fork" /\ p # k /\ nread[client_fd[p]] = 0
        BY <1>2, <3>1 DEF fork, AInv, Answering
      <3>3. CASE q = k
        <4>1. at'[q] = "child" /\ client_fd'[q] = client_fd[p] /\ path[q] = NoPath
          BY <1>0, <3>1, <3>2, <3>3 DEF TInv, TypeOK, Answering
        <4> QED
          BY <1>0, <3>2, <4>1 DEF Answering
      <3>4. CASE q = p
        <4>1. at'[q] = "parent"
          BY <3>1, <3>2, <3>4 DEF TInv, TypeOK
        <4> QED
          BY <4>1 DEF Answering
      <3>5. CASE q # k /\ q # p
        <4>1. at'[q] = at[q] /\ client_fd'[q] = client_fd[q]
          BY <3>1, <3>5 DEF TInv, TypeOK
        <4> QED
          BY <1>0, <4>1 DEF Answering, ReadSoFar, Undisturbed
      <3> QED
        BY <3>3, <3>4, <3>5
    <2> QED
      BY <2>1, <2>2
  <1>3. CASE child(p)
    <2>1. client_fd' = client_fd
      BY <1>3 DEF child
    <2>2. CASE q = p
      <3>1. at'[q] = "read" /\ path[q] = NoPath /\ nread[client_fd[q]] = 0
        BY <1>0, <1>3, <2>2 DEF child, GoTo, TInv, TypeOK, Answering
      <3>2. ReadSoFar(q)'
        BY <1>0, <2>1, <3>1 DEF ReadSoFar
      <3> QED
        BY <3>1, <3>2 DEF Answering
    <2>3. CASE q # p
      <3>1. at'[q] = at[q]
        BY <1>3, <2>3 DEF child, GoTo, TInv, TypeOK
      <3> QED
        BY <1>0, <2>1, <3>1 DEF Answering, ReadSoFar, Undisturbed
    <2> QED
      BY <2>2, <2>3
  <1>4. CASE accept_error(p) \/ parent(p)
    <2>1. client_fd' = client_fd /\ (at'[q] = at[q] \/ at'[q] \in {"ended", "accept"})
      BY <1>4 DEF accept_error, parent, GoTo, TInv, TypeOK
    <2> QED
      BY <1>0, <2>1 DEF Answering, ReadSoFar, Undisturbed
  <1> QED
    BY <1>1, <1>2, <1>3, <1>4 DEF Main

LEMMA EnvironmentAnswering ==
  ASSUME TInv, AInv,
         \/ \E c \in Clients : hang_up(c) \/ \E r \in Requests[c] : connect(c, r)
         \/ \E n \in Names, size \in Absent .. MaxSize : change(n, size)
  PROVE  AInv'
  <1> SUFFICES ASSUME NEW q \in Procs PROVE Answering(q)'
    BY DEF AInv
  <1> USE DEF process, locals, network, files
  <1>0. Answering(q) /\ UNCHANGED <<at, client_fd, path, st_size, opened, dropped, nread, answer>>
    BY DEF AInv, hang_up, connect, change
  <1>1. ASSUME NEW c \in Clients, hang_up(c) PROVE Answering(q)'
    BY <1>0, <1>1 DEF hang_up, Answering, ReadSoFar, Undisturbed
  <1>2. ASSUME NEW c \in Clients, NEW r \in Requests[c], connect(c, r) PROVE Answering(q)'
    <2>1. UNCHANGED <<file, disturbed>>
      BY <1>2 DEF connect
    <2>2. CASE at[q] \in {"none", "accept", "parent", "ended"}
      BY <1>0, <2>2 DEF Answering
    <2>3. CASE at[q] \notin {"none", "accept", "parent", "ended"}
      <3>1. client_fd[q] \in Clients
        BY <2>3, ServesClient DEF TInv, TypeOK, Points, Serving
      <3>2. client[client_fd[q]] \in {"connected", "closed"}
        BY <3>1, WebServerAssumption DEF TInv, IInv, Accepted
      <3>3. request'[client_fd[q]] = request[client_fd[q]]
        BY <1>2, <3>1, <3>2 DEF connect, TInv, TypeOK
      <3> QED
        BY <1>0, <2>1, <3>3 DEF Answering, ReadSoFar, Undisturbed
    <2> QED
      BY <2>2, <2>3
  <1>3. ASSUME NEW n \in Names, NEW size \in Absent .. MaxSize, change(n, size) PROVE Answering(q)'
    <2>1. UNCHANGED request /\ disturbed \subseteq disturbed'
      BY <1>3 DEF change
    <2>2. at[q] \in {"index", "header", "open", "send"} => client_fd[q] \in disturbed'
      BY <1>3 DEF change
    <2> QED
      BY <1>0, <2>1, <2>2 DEF Answering, ReadSoFar, Undisturbed
  <1> QED
    BY <1>1, <1>2, <1>3

(* What every step of handle_request() leaves alone. *)
LEMMA HandleFrame ==
  ASSUME TInv, NEW p \in Procs, Handle(p)
  PROVE  /\ p # 0 /\ Serving(p) /\ client_fd[p] \in Clients
         /\ UNCHANGED <<client_fd, request, client, file, disturbed>> /\ dropped \subseteq dropped'
         /\ \A q \in Procs : q # p => /\ at'[q] = at[q] /\ path'[q] = path[q]
                                      /\ st_size'[q] = st_size[q] /\ opened'[q] = opened[q]
         /\ \A c \in Clients : c # client_fd[p] => nread'[c] = nread[c] /\ answer'[c] = answer[c]
  <1>1. Serving(p)
    BY DEF Handle, read_line, read_end, stat, stat_index, header, open, sendfile, Serving
  <1>2. p # 0 /\ client_fd[p] \in Clients
    BY <1>1, ServesClient DEF TInv, IInv, Roles, Serving
  <1>3. UNCHANGED <<client_fd, request, client, file, disturbed>>
    BY DEF Handle, read_line, read_end, stat, stat_index, header, open, sendfile, network, files
  <1>0. dropped \subseteq dropped'
    BY DEF Handle, read_line, read_end, stat, stat_index, header, open, sendfile, locals
  <1>4. \A x : GoTo(p, x) => \A q \in Procs : q # p => at'[q] = at[q]
    BY DEF GoTo, TInv, TypeOK
  <1>5. \A a, x : write(p, a, x) =>
          /\ \A q \in Procs : q # p => at'[q] = at[q]
          /\ \A c \in Clients : c # client_fd[p] => answer'[c] = answer[c]
    BY <1>4 DEF write, TInv, TypeOK
  <1>6. CASE read_line(p) \/ read_end(p) \/ open(p)
    BY <1>0, <1>1, <1>2, <1>3, <1>4, <1>6 DEF read_line, read_end, open, locals, network, TInv, TypeOK
  <1>7. CASE stat(p) \/ stat_index(p)
    <2>1. UNCHANGED <<opened, nread>>
      BY <1>7 DEF stat, stat_index, network
    <2>2. CASE found(p)
      BY <1>0, <1>1, <1>2, <1>3, <1>4, <2>1, <2>2 DEF found, TInv, TypeOK
    <2>3. CASE not_found(p) /\ UNCHANGED path
      BY <1>0, <1>1, <1>2, <1>3, <1>5, <2>1, <2>3 DEF not_found
    <2>4. CASE /\ path' = [path EXCEPT ![p] = Index[@]]
               /\ GoTo(p, "index")
               /\ UNCHANGED <<st_size, answer>>
      BY <1>0, <1>1, <1>2, <1>3, <1>4, <2>1, <2>4 DEF TInv, TypeOK
    <2> QED
      BY <1>7, <2>2, <2>3, <2>4 DEF stat, stat_index
  <1>8. CASE header(p)
    BY <1>0, <1>1, <1>2, <1>3, <1>5, <1>8 DEF header, locals, network
  <1>9. CASE sendfile(p)
    <2>1. \E a, x : write(p, a, x)
      BY <1>9 DEF sendfile
    <2> QED
      BY <1>0, <1>1, <1>2, <1>3, <1>5, <1>9, <2>1 DEF sendfile, network
  <1> QED
    BY <1>6, <1>7, <1>8, <1>9 DEF Handle

LEMMA ReadAnswering ==
  ASSUME TInv, AInv, NEW p \in Procs, read_line(p)
  PROVE  Answering(p)'
  <1> DEFINE c == client_fd[p]
             r == request[c]
             n == nread[c]
             l == r[n + 1]
  <1>1. c \in Clients /\ UNCHANGED <<client_fd, request, file, disturbed>>
    BY HandleFrame DEF Handle
  <1>2. n \in Nat /\ n + 1 <= Len(r) /\ Len(r) \in Nat /\ nread'[c] = n + 1
    BY <1>1, SequenceLengths DEF read_line, TInv, TypeOK
  <1>3. r \in Seq(Names \cup {"GET", "field", "blank", "bare"})
    BY <1>1, SequenceLengths DEF TInv
  <1>4. at'[p] = AfterLine(l) /\ path'[p] = IF l \in Names THEN l ELSE path[p]
    BY DEF read_line, GoTo, TInv, TypeOK
  <1>5. ReadSoFar(p)
    BY DEF AInv, Answering, read_line
  <1>6. CASE l \in {"bare", "GET"}
    <2>1. at'[p] \in {"accept", "ended"}
      BY <1>4, <1>6, AfterLineIs
    <2> QED
      BY <2>1 DEF Answering
  <1>7. CASE l = "blank"
    <2>1. at'[p] = "stat" /\ path'[p] = path[p]
      BY <1>4, <1>7, AfterLineIs, WebServerAssumption
    <2>2. Complete(r) => path[p] = Asked(r)
      BY <1>2, <1>3, <1>5, <1>7, LastPathAsked DEF ReadSoFar
    <2> QED
      BY <1>1, <2>1, <2>2 DEF Answering
  <1>8. CASE l \notin {"bare", "GET", "blank"}
    <2>1. at'[p] = "read"
      BY <1>4, <1>8, AfterLineIs
    <2>2. \A i \in 1 .. n + 1 : i \in 1 .. n \/ i = n + 1
      BY <1>2
    <2>3. ReadSoFar(p)'
      <3>1. CASE l \in Names
        <4>1. n + 1 \in 1 .. n + 1 /\ \A j \in (n + 1) + 1 .. n + 1 : r[j] \notin Names
          BY <1>2
        <4> QED
          BY <1>1, <1>2, <1>4, <3>1, <4>1 DEF ReadSoFar
      <3>2. CASE l \notin Names /\ path[p] = NoPath /\ \A i \in 1 .. n : r[i] \notin Names
        <4>1. \A i \in 1 .. n + 1 : r[i] \notin Names
          BY <2>2, <3>2
        <4> QED
          BY <1>1, <1>2, <1>4, <3>2, <4>1 DEF ReadSoFar
      <3>3. CASE l \notin Names /\ \E i \in 1 .. n : /\ r[i] \in Names /\ path[p] = r[i]
                                                     /\ \A j \in i + 1 .. n : r[j] \notin Names
        <4>1. PICK i \in 1 .. n : /\ r[i] \in Names /\ path[p] = r[i]
                                  /\ \A j \in i + 1 .. n : r[j] \notin Names
          BY <3>3
        <4>2. i \in 1 .. n + 1 /\ \A j \in i + 1 .. n + 1 : r[j] \notin Names
          BY <1>2, <3>3, <4>1
        <4> QED
          BY <1>1, <1>2, <1>4, <3>3, <4>1, <4>2 DEF ReadSoFar
      <3> QED
        BY <1>5, <3>1, <3>2, <3>3 DEF ReadSoFar
    <2> QED
      BY <2>1, <2>3 DEF Answering
  <1> QED
    BY <1>6, <1>7, <1>8

(* Both calls of stat(): the file found is the one that answers. *)
LEMMA StatAnswering ==
  ASSUME TInv, AInv, NEW p \in Procs, stat(p) \/ stat_index(p)
  PROVE  Answering(p)'
  <1> DEFINE c == client_fd[p]
             r == request[c]
  <1>1. c \in Clients /\ UNCHANGED <<client_fd, request, file, disturbed>> /\ Serving(p)
    BY HandleFrame DEF Handle
  <1>2. CASE found(p) /\ (at[p] = "stat" => Lookup(path[p]) # Directory)
    <2>1. /\ at'[p] = "header" /\ path' = path /\ path[p] \in Names /\ file[path[p]] # Absent
          /\ file[path[p]] # Directory => st_size'[p] = file[path[p]]
      BY <1>2, FoundTyped
    <2>2. Undisturbed(p) => Asked(r) \in Names /\ path[p] = Resolved(r)
      <3>1. CASE at[p] = "stat" /\ path[p] \notin Directories
        BY <2>1, <3>1 DEF AInv, Answering, Undisturbed, Resolved
      <3>2. CASE at[p] = "index"
        BY <3>2, WebServerAssumption DEF AInv, Answering
      <3>3. at[p] = "stat" => path[p] \notin Directories
        BY <1>2, <2>1, WebServerAssumption DEF Lookup, TInv, Paths
      <3> QED
        BY <3>1, <3>2, <3>3 DEF stat, stat_index
    <2> QED
      BY <1>1, <2>1, <2>2 DEF Answering, Undisturbed
  <1>3. CASE not_found(p)
    BY <1>1, <1>3, NotFoundTyped DEF Answering
  <1>4. CASE /\ at[p] = "stat"
             /\ Lookup(path[p]) = Directory
             /\ path' = [path EXCEPT ![p] = Index[@]]
             /\ GoTo(p, "index")
    <2>1. path[p] \in Directories
      BY <1>4 DEF TInv, TypeOK, Paths, Lookup, Absent, Directory
    <2>2. at'[p] = "index" /\ path'[p] = Index[path[p]]
      BY <1>4 DEF GoTo, TInv, TypeOK
    <2>3. Complete(r) => path[p] = Asked(r)
      BY <1>4 DEF AInv, Answering
    <2> QED
      BY <1>1, <2>1, <2>2, <2>3 DEF Answering, Undisturbed, Resolved
  <1> QED
    BY <1>2, <1>3, <1>4 DEF stat, stat_index

LEMMA SendAnswering ==
  ASSUME TInv, AInv, NEW p \in Procs, header(p) \/ open(p) \/ sendfile(p) \/ read_end(p)
  PROVE  Answering(p)'
  <1> DEFINE c == client_fd[p]
  <1>1. c \in Clients /\ UNCHANGED <<client_fd, request, file, disturbed>>
    BY HandleFrame DEF Handle
  <1>2. Answering(p)
    BY DEF AInv
  <1>3. CASE header(p)
    <2>1. UNCHANGED <<path, st_size, opened, dropped>>
      BY <1>3 DEF header, locals
    <2>2. CASE at'[p] = "ended"
      BY <2>2 DEF Answering
    <2>3. CASE at'[p] # "ended"
      <3>1. at[p] = "header" /\ at'[p] = "open"
            /\ answer'[c] = [status |-> 200, length |-> st_size[p], body |-> 0]
        BY <1>1, <1>3, <2>3 DEF header, write, GoTo, TInv, TypeOK
      <3> QED
        BY <1>1, <1>2, <2>1, <3>1 DEF Answering, Undisturbed
    <2> QED
      BY <2>2, <2>3
  <1>4. CASE open(p)
    <2>1. /\ at[p] = "open" /\ at'[p] = "send" /\ UNCHANGED <<path, st_size, answer>>
          /\ opened'[p] = file[path[p]] \/ (opened'[p] = Absent /\ c \in dropped')
      BY <1>4 DEF open, GoTo, TInv, TypeOK
    <2> QED
      BY <1>1, <1>2, <2>1 DEF Answering, Undisturbed
  <1>5. CASE sendfile(p) \/ read_end(p)
    <2>1. at'[p] \in {"accept", "ended"}
      BY <1>5 DEF sendfile, read_end, write, GoTo, TInv, TypeOK
    <2> QED
      BY <2>1 DEF Answering
  <1> QED
    BY <1>3, <1>4, <1>5

LEMMA StepAnswering == TInv /\ AInv /\ [Next]_vars => AInv'
  <1> SUFFICES ASSUME TInv, AInv, [Next]_vars PROVE AInv'
    OBVIOUS
  <1>1. ASSUME NEW p \in Procs, Handle(p) PROVE AInv'
    <2>1. \A q \in Procs : q # p => Answering(q)'
      BY <1>1, HandleFrame, OthersAnswering
    <2>2. Answering(p)'
      BY <1>1, ReadAnswering, StatAnswering, SendAnswering DEF Handle
    <2> QED
      BY <2>1, <2>2 DEF AInv
  <1>2. ASSUME UNCHANGED vars PROVE AInv'
    <2>1. /\ UNCHANGED <<at, client_fd, path, st_size, opened, dropped, request, nread>>
          /\ UNCHANGED <<answer, file, disturbed>>
      BY <1>2 DEF vars, process, locals, network, files
    <2> QED
      BY <2>1 DEF AInv, Answering, ReadSoFar, Undisturbed
  <1>3. CASE \E p \in Procs : accept(p) \/ accept_error(p) \/ Main(p) \/ Handle(p)
    BY <1>1, <1>3, MainAnswering
  <1>4. CASE \/ \E c \in Clients : hang_up(c) \/ \E r \in Requests[c] : connect(c, r)
             \/ \E n \in Names, size \in Absent .. MaxSize : change(n, size)
    BY <1>4, EnvironmentAnswering
  <1> QED
    BY <1>2, <1>3, <1>4 DEF Next

(* The answer written last is the right one. *)
LEMMA LastWrite ==
  ASSUME TInv, AInv, [Next]_vars, NEW p \in Procs, Done(p)
  PROVE  Right(answer'[client_fd[p]], Resolved(request[client_fd[p]]), client_fd[p] \in dropped')
  <1> DEFINE c == client_fd[p]
             r == request[c]
  <1>1. Handle(p)
    <2>1. at'[p] # at[p] /\ Serving(p)
      BY DEF Done, Serving
    <2>2. PICK q \in Procs : accept(q) \/ accept_error(q) \/ Main(q) \/ Handle(q)
      BY <2>1 DEF Next, vars, process, hang_up, connect, change
    <2>3. CASE Handle(q)
      BY <2>1, <2>3, HandleFrame
    <2>4. CASE accept(q) \/ accept_error(q) \/ child(q) \/ parent(q)
      BY <2>1, <2>4 DEF accept, accept_error, child, parent, GoTo, TInv, TypeOK, Serving
    <2>5. CASE fork(q)
      BY <2>1, <2>5 DEF fork, GoTo, TInv, TypeOK, Serving
    <2> QED
      BY <2>2, <2>3, <2>4, <2>5 DEF Main
  <1>2. c \in Clients /\ Answering(p) /\ Complete(r) /\ c \notin disturbed
    BY <1>1, HandleFrame DEF AInv, Done
  <1>0. client[c] = "connected" /\ ~ Serving(p)'
    BY DEF Done
  <1>3. CASE read_line(p)
    <2> DEFINE l == r[nread[c] + 1]
    <2>1. at'[p] = AfterLine(l) /\ nread[c] + 1 \in 1 .. Len(r)
      BY <1>2, <1>3, SequenceLengths DEF read_line, GoTo, TInv, TypeOK
    <2>2. l \notin {"bare", "GET"}
      BY <1>2, <2>1 DEF Complete
    <2>3. at'[p] \in {"stat", "read"}
      BY <2>1, <2>2, AfterLineIs
    <2> QED
      BY <1>0, <2>3 DEF Serving
  <1>4. CASE read_end(p)
    BY <1>0, <1>4 DEF read_end
  <1>5. CASE not_found(p) /\ Lookup(path[p]) = Absent /\ at[p] \in {"stat", "index"}
    <2>1. answer'[c] = [status |-> 404, length |-> 0, body |-> 0]
      BY <1>0, <1>2, <1>5 DEF not_found, write, TInv, TypeOK
    <2>2. path[p] = Resolved(r)
      <3>1. CASE at[p] = "stat"
        <4>1. path[p] = Asked(r) /\ path[p] \notin Directories
          BY <1>2, <1>5, <3>1, WebServerAssumption DEF Answering, Lookup, TInv, Paths, Absent, Directory
        <4> QED
          BY <4>1 DEF Resolved
      <3>2. CASE at[p] = "index"
        BY <1>2, <3>2 DEF Answering, Undisturbed
      <3> QED
        BY <1>5, <3>1, <3>2
    <2> QED
      BY <1>5, <2>1, <2>2 DEF Right
  <1>6. CASE sendfile(p)
    <2> DEFINE f == path[p]
               z == st_size[p]
    <2>1. /\ f = Resolved(r) /\ file[f] # Absent
          /\ file[f] # Directory => z = file[f]
          /\ answer[c] = [status |-> 200, length |-> z, body |-> 0]
          /\ opened[p] = file[f] \/ (opened[p] = Absent /\ c \in dropped)
      BY <1>2, <1>6 DEF sendfile, Answering, Undisturbed
    <2>2. f \in Names /\ f # NoPath /\ z \in Nat /\ file[f] \in Int /\ file[f] >= Directory
      BY <1>6, WebServerAssumption DEF sendfile, TInv, Paths, TypeOK, Directory
    <2>3. Lookup(f) = file[f]
      BY <2>2 DEF Lookup
    <2>4. PICK n \in 0 .. Sendable(p) :
            /\ answer'[c] = [answer[c] EXCEPT !.body = n]
            /\ dropped' = IF n < Sendable(p) THEN dropped \cup {c} ELSE dropped
      BY <1>0, <1>2, <1>6 DEF sendfile, write, TInv, TypeOK
    <2>5. answer'[c].status = 200 /\ answer'[c].length = z /\ answer'[c].body = n
      BY <2>1, <2>4
    <2>6. CASE file[f] = Directory
      <3>1. Sendable(p) = 0
        BY <2>1, <2>2, <2>6 DEF Sendable, Available, Absent, Directory
      <3>2. n = 0
        BY <2>4, <3>1
      <3> QED
        BY <2>1, <2>2, <2>3, <2>5, <2>6, <3>2 DEF Right
    <2>7. CASE file[f] # Directory
      <3>1. z = file[f] /\ file[f] >= 0
        BY <2>1, <2>2, <2>7 DEF Absent, Directory
      <3>2. Sendable(p) \in Nat /\ Sendable(p) <= z
        BY <2>2, <3>1 DEF Sendable, Available
      <3>3. opened[p] = file[f] => Sendable(p) = z
        BY <2>2, <3>1 DEF Sendable, Available
      <3>4. n \in Nat /\ n <= z
        BY <2>4, <3>2, <2>2
      <3>5. c \in dropped' \/ n = z
        <4>1. CASE c \in dropped
          BY <2>4, <4>1
        <4>2. CASE opened[p] = file[f] /\ n < Sendable(p)
          BY <2>4, <4>2
        <4>3. CASE opened[p] = file[f] /\ ~ (n < Sendable(p))
          BY <2>2, <3>3, <3>4, <4>3
        <4> QED
          BY <2>1, <4>1, <4>2, <4>3
      <3> QED
        BY <2>1, <2>2, <2>3, <2>5, <2>7, <3>1, <3>4, <3>5 DEF Right
    <2> QED
      BY <2>6, <2>7
  <1>7. CASE ~ (read_line(p) \/ read_end(p) \/ sendfile(p) \/ (not_found(p) /\ Lookup(path[p]) = Absent))
    <2>1. at'[p] \in {"header", "index", "open", "send"}
      BY <1>0, <1>1, <1>7 DEF Handle, stat, stat_index, header, open, found, write, GoTo, TInv, TypeOK
    <2> QED
      BY <1>0, <2>1 DEF Serving
  <1>8. not_found(p) /\ Lookup(path[p]) = Absent /\ ~ (read_line(p) \/ read_end(p) \/ sendfile(p))
          => at[p] \in {"stat", "index"} \/ header(p) \/ open(p)
    BY <1>1 DEF Handle, stat, stat_index
  <1>9. CASE header(p) \/ open(p)
    <2>1. at'[p] \in {"open", "send"}
      BY <1>0, <1>9 DEF header, open, write, GoTo, TInv, TypeOK
    <2> QED
      BY <1>0, <2>1 DEF Serving
  <1> QED
    BY <1>3, <1>4, <1>5, <1>6, <1>7, <1>8, <1>9

(* A complete request that no change of a file disturbs is answered with   *)
(* 404 if the file it asks for does not exist, and otherwise with its      *)
(* length and its bytes, all of them unless open() failed or sendfile()    *)
(* fell short, for any number of clients, processes, files and sizes       *)
(* (www.c:145-209).                                                        *)
THEOREM AnswersWholeHolds == Spec => AnswersWhole
  <1>1. Init => AInv
    BY DEF Init, AInv, Answering
  <1>2. TInv /\ AInv /\ [Next]_vars =>
          [\A p \in Procs : LET c == client_fd[p] IN
             Done(p) => Right(answer'[c], Resolved(request[c]), c \in dropped')]_vars
    BY LastWrite
  <1> QED
    BY <1>1, <1>2, StepAnswering, TypedInvariant, PTL DEF Spec, AnswersWhole
=============================================================================
