-------------------------------- MODULE Heap --------------------------------
(***************************************************************************)
(* What a memory allocator promises its client: every pointer it hands out *)
(* owns at least as many bytes as were asked for, no two pointers in use   *)
(* share a byte, and only free() of a pointer ends that pointer's life.    *)
(*                                                                         *)
(* Two things a client would like are not promised, since                  *)
(* Project3/allocator.c does not keep them: a calloc() that is refused     *)
(* kills the program, and realloc() never moves or resizes anything.       *)
(***************************************************************************)
EXTENDS Integers

CONSTANT
  NULL        \* the pointer that names nothing

VARIABLES
  allocated,  \* the chunks in use: where each starts and how long it is
  op,         \* the function called last
  arg,        \* the pointer passed to it, NULL if none
  asked,      \* the bytes it was asked for, 0 if none
  ret,        \* what it returned
  dead        \* the program has been killed

heapVars == <<allocated, op, arg, asked, ret, dead>>

Chunk == [ptr : Int, len : Nat]

(* No byte, and no address, belongs to both. *)
Apart(c, d) ==
  /\ c.ptr # d.ptr
  /\ c.ptr + c.len <= d.ptr \/ d.ptr + d.len <= c.ptr

HeapInit ==
  /\ allocated = {}
  /\ op = "none" /\ arg = NULL /\ asked = 0 /\ ret = NULL
  /\ dead = FALSE

(* A call that asks for memory of its own. *)
Requested == op' \in {"malloc", "calloc", "realloc"} /\ arg' = NULL

(* A request is granted with a chunk that is large enough and unused. *)
Grant ==
  /\ Requested
  /\ \E c \in allocated' :
       /\ c \in Chunk
       /\ c.ptr # NULL
       /\ c.len >= asked'
       /\ \A d \in allocated : Apart(c, d)
       /\ allocated' = allocated \cup {c}
       /\ ret' = c.ptr
  /\ UNCHANGED dead

(* A request may be refused; no chunk changes then.  A calloc() of at      *)
(* least one byte goes on to clear what it did not get.                    *)
Refuse ==
  /\ Requested
  /\ ret' = NULL
  /\ UNCHANGED allocated
  /\ dead' = (op' = "calloc" /\ asked' > 0)

(* free() takes back the chunk its argument names and no other. *)
Release ==
  /\ op' = "free"
  /\ \E c \in allocated : arg' = c.ptr /\ allocated' = allocated \ {c}
  /\ ret' = NULL
  /\ UNCHANGED dead

(* free(NULL) does nothing. *)
ReleaseNothing ==
  /\ op' = "free" /\ arg' = NULL
  /\ ret' = NULL
  /\ UNCHANGED <<allocated, dead>>

(* realloc() of a pointer in use returns NULL and leaves the chunk alone. *)
Resize ==
  /\ op' = "realloc"
  /\ \E c \in allocated : arg' = c.ptr
  /\ asked' > 0
  /\ ret' = NULL
  /\ UNCHANGED <<allocated, dead>>

HeapNext ==
  /\ ~ dead
  /\ Grant \/ Refuse \/ Release \/ ReleaseNothing \/ Resize

HeapSpec == HeapInit /\ [][HeapNext]_heapVars
=============================================================================
