---------------------------- MODULE MCWebServer ----------------------------
(* Instances of WebServer for TLC.                                         *)
EXTENDS WebServer

SomeDirectories == {"top", "top/index"}

(* The index of one directory is a file, that of the other a directory. *)
SomeIndex == [n \in SomeDirectories |-> IF n = "top" THEN "top/index" ELSE "top/index/index"]

SomeNames == SomeDirectories \cup {"page", "top/index/index"}

(* Complete requests for a file, for nothing, for a directory whose index  *)
(* is a directory, and one in which the second GET, for a directory with   *)
(* an index file, counts; three that end early.                            *)
SomeRequests ==
  { <<"page", "blank">>, <<"page", "top/index", "blank">>, <<"top", "blank">>, <<"field", "blank">>,
    <<"page", "bare">>, <<"GET">>, << >> }

CONSTANTS c1, c2

(* The second client asks for the file, or for nothing at all. *)
ClientRequests == [c \in {c1, c2} |-> IF c = c1 THEN SomeRequests ELSE { <<"page", "blank">>, << >> }]
=============================================================================
