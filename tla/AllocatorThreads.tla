-------------------------- MODULE AllocatorThreads --------------------------
(***************************************************************************)
(* The allocator of Project3/allocator.c called by several threads.        *)
(* g_alloc_mutex is declared and never locked, so that the threads'        *)
(* calls interleave.  malloc() is cut where its use of shared state is     *)
(* split: reuse() returns a pointer to a block, and malloc() then takes    *)
(* its space from whatever that block has become, or finds no block and    *)
(* maps a region.  The parts, and free(), are atomic here: what happens    *)
(* with coarse steps also happens with the code's finer ones.              *)
(***************************************************************************)
EXTENDS Allocator

CONSTANT Threads

VARIABLES
  at,    \* where each thread is: outside, or after reuse() in malloc()
  size,  \* malloc()'s argument after alignment
  found, \* reusable_block: an address, NULL if there is none
  given  \* the pointers handed out and not freed: [id, ptr, len]

threadvars == <<at, size, found, given>>
allvars    == <<vars, threadvars>>

(* malloc(n) up to the return of reuse(). *)
malloc_search(t, n, algo) ==
  LET k == reuse(Aligned(n), algo) IN
  /\ ~ fault
  /\ at[t] = "outside"
  /\ at' = [at EXCEPT ![t] = "found"]
  /\ size' = [size EXCEPT ![t] = Aligned(n)]
  /\ found' = [found EXCEPT ![t] = IF k = 0 THEN NULL ELSE blocks[k].addr]
  /\ UNCHANGED <<vars, given>>

(* Another thread has left too little of block k: its header or payload is *)
(* written over what follows, and the chain cannot be followed any more.   *)
overrun(k, sz) ==
  /\ Unused(blocks[k]) < RealSize(sz)
  /\ ret' = blocks[k].addr + blocks[k].usage + HDR
  /\ fault' = TRUE
  /\ UNCHANGED blocks

(* The rest of malloc(), on the chain as it is now.  The header of a block *)
(* whose region was unmapped meanwhile cannot be read.                     *)
malloc_take(t) ==
  LET ks == {k \in Indices : blocks[k].addr = found[t]} IN
  /\ ~ fault
  /\ at[t] = "found"
  /\ g_allocations < MaxAllocations
  /\ \/ /\ found[t] = NULL
        /\ \/ \E base \in Bases : map_region(base, size[t])
           \/ ret' = NULL /\ UNCHANGED <<blocks, mapped>>
        /\ UNCHANGED fault
     \/ /\ \E k \in ks :
             \/ /\ Unused(blocks[k]) >= RealSize(size[t])
                /\ take_over(k, size[t]) \/ split(k, size[t])
                /\ UNCHANGED fault
             \/ overrun(k, size[t])
        /\ UNCHANGED mapped
     \/ /\ found[t] # NULL
        /\ ks = {}
        /\ ret' = NULL
        /\ fault' = TRUE
        /\ UNCHANGED <<blocks, mapped>>
  /\ g_allocations' = IF ret' = NULL THEN g_allocations ELSE g_allocations + 1
  /\ given' = IF ret' = NULL THEN given
              ELSE given \cup {[id |-> g_allocations, ptr |-> ret', len |-> size[t]]}
  /\ Called("malloc", NULL, size[t])
  /\ at' = [at EXCEPT ![t] = "outside"]
  /\ UNCHANGED <<size, found>>

(* free() of a pointer by some thread that is not in malloc(). *)
free_block(t, i) ==
  /\ at[t] = "outside"
  /\ free(i)
  /\ given' = {g \in given : g.ptr # blocks[i].addr + HDR}
  /\ UNCHANGED <<at, size, found>>

ThreadsInit ==
  /\ Init
  /\ at = [t \in Threads |-> "outside"]
  /\ size = [t \in Threads |-> 0]
  /\ found = [t \in Threads |-> NULL]
  /\ given = {}

ThreadsNext ==
  \E t \in Threads :
    \/ \E n \in Requests, algo \in Algorithms : malloc_search(t, n, algo)
    \/ malloc_take(t)
    \/ \E i \in Indices : free_block(t, i)

ThreadsSpec == ThreadsInit /\ [][ThreadsNext]_allvars

(* No byte is handed out twice.  The test that "Performs allocations       *)
(* across multiple threads in parallel" says "If this crashes or times     *)
(* out, your allocator is not thread safe!" (tests/10-Thread-Safety-1.sh,  *)
(* lines 4 and 9): two threads that find the same block are given the same *)
(* memory (allocator.c:216-254).                                           *)
ThreadsShareNothing ==
  \A g, h \in given :
    g.id # h.id => g.ptr + g.len <= h.ptr \/ h.ptr + h.len <= g.ptr
=============================================================================
