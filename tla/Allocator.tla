------------------------------ MODULE Allocator ------------------------------
(***************************************************************************)
(* The memory allocator of Project3/allocator.c, used by one thread.       *)
(*                                                                         *)
(* The chain of block headers that starts at g_head is the sequence        *)
(* blocks; a block's "next" is its successor in the sequence.  Addresses   *)
(* and sizes are numbers.  The kernel (mmap, munmap) is external: it maps  *)
(* any free page-aligned range, or fails.  Every call is atomic here.      *)
(***************************************************************************)
EXTENDS Integers, Sequences

CONSTANTS
  ALIGN,          \* requests are rounded up to a multiple of this (8)
  HDR,            \* sizeof(struct mem_block) (48)
  PAGE,           \* getpagesize()
  SizeMod,        \* size_t arithmetic is modulo this (2^64)
  IntMax,         \* INT_MAX
  Bases,          \* page-aligned addresses mmap may return
  AddrLimit,      \* mappings end at or below this address
  Requests,       \* the sizes the client asks for
  Members,        \* the nmemb arguments of calloc
  Algorithms,     \* values of ALLOCATOR_ALGORITHM
  MaxAllocations  \* bound on the allocation counter

NULL == 0

ASSUME SizesAssumption ==
  /\ ALIGN \in Nat \ {0}
  /\ HDR \in Nat \ {0}
  /\ PAGE \in Nat \ {0}
  /\ SizeMod \in Nat \ {0}
  /\ IntMax \in Nat
  /\ AddrLimit \in Nat
  /\ MaxAllocations \in Nat
ASSUME BasesAssumption    == Bases \subseteq Nat \ {0}
ASSUME RequestsAssumption == Requests \subseteq 0 .. SizeMod - 1
ASSUME MembersAssumption  == Members \subseteq 0 .. SizeMod - 1

VARIABLES
  blocks,         \* the chain of struct mem_block from g_head on
  g_allocations,  \* the allocation counter
  mapped,         \* the kernel's mappings: [start, len]
  op,             \* the function the client called last
  arg,            \* the pointer it passed, NULL if none
  asked,          \* the bytes it asked for, 0 if none
  ret,            \* the pointer the last call returned
  fault           \* the program was killed by a bad write

vars == <<blocks, g_allocations, mapped, op, arg, asked, ret, fault>>

Calls == {"none", "malloc", "calloc", "realloc", "free"}

(* struct mem_block and the address it is at. *)
Block == [addr : Nat, alloc_id : Nat, size : Nat, usage : Nat,
          region_start : Nat, region_size : Nat]

Region == [start : Nat, len : Nat]

(* The header at addr with its fields in the order malloc assigns them. *)
Header(addr, alloc_id, size, usage, region_start, region_size) ==
  [addr |-> addr, alloc_id |-> alloc_id, size |-> size, usage |-> usage,
   region_start |-> region_start, region_size |-> region_size]

TypeOK ==
  /\ blocks \in Seq(Block)
  /\ g_allocations \in Nat
  /\ mapped \in SUBSET Region
  /\ op \in Calls
  /\ arg \in Nat
  /\ asked \in Nat
  /\ ret \in Nat
  /\ fault \in BOOLEAN

Indices == 1 .. Len(blocks)

-----------------------------------------------------------------------------
(***************************************************************************)
(* size_t arithmetic.                                                      *)
(***************************************************************************)

(* The sum of two size_t values, and their product. *)
Wrap(x) == IF x < SizeMod THEN x ELSE x - SizeMod
Product(x, y) == (x * y) % SizeMod

(* Mutant of Aligned: rounds down. *)
Aligned_down(n) == n - (n % ALIGN)

Aligned(n) == IF n % ALIGN = 0 THEN n ELSE Wrap(n + (ALIGN - (n % ALIGN)))

RealSize(size) == Wrap(size + HDR)

(* As many whole pages as hold real_sz bytes. *)
RegionSize(real_sz) ==
  Wrap(IF real_sz % PAGE = 0 THEN real_sz ELSE real_sz + (PAGE - (real_sz % PAGE)))

(* What is left of a block. *)
Unused(b) == b.size - b.usage

SameRegion(b, c) == b.region_start = c.region_start

-----------------------------------------------------------------------------
(***************************************************************************)
(* reuse(): the index of the block to take space from, 0 for NULL.         *)
(***************************************************************************)

Lowest(S)  == CHOOSE i \in S : \A j \in S : i <= j
Highest(S) == CHOOSE i \in S : \A j \in S : i >= j

(* Mutant of first_fit: what is used of a block is not subtracted. *)
first_fit_whole(size) ==
  LET fits == {i \in Indices : blocks[i].size > RealSize(size)}
  IN  IF fits = {} THEN 0 ELSE Lowest(fits)

first_fit(size) ==
  LET fits == {i \in Indices : Unused(blocks[i]) > RealSize(size)}
  IN  IF fits = {} THEN 0 ELSE Lowest(fits)

(* The "<=" and ">=" of the two searches keep the last of equal blocks. *)
best_fit(size) ==
  LET fits == {i \in Indices : Unused(blocks[i]) >= RealSize(size)
                               /\ Unused(blocks[i]) <= IntMax}
      best == {i \in fits : \A j \in fits : Unused(blocks[i]) <= Unused(blocks[j])}
  IN  IF fits = {} THEN 0 ELSE Highest(best)

worst_fit(size) ==
  LET fits  == {i \in Indices : Unused(blocks[i]) >= RealSize(size)}
      worst == {i \in fits : \A j \in fits : Unused(blocks[i]) >= Unused(blocks[j])}
  IN  IF fits = {} THEN 0 ELSE Highest(worst)

(* Any other value of ALLOCATOR_ALGORITHM reuses nothing. *)
reuse(size, algo) ==
  IF algo = "first_fit" THEN first_fit(size)
  ELSE IF algo = "best_fit" THEN best_fit(size)
  ELSE IF algo = "worst_fit" THEN worst_fit(size)
  ELSE 0

-----------------------------------------------------------------------------
(***************************************************************************)
(* malloc().                                                               *)
(***************************************************************************)

(* The chain with block b linked in after index k. *)
LinkAfter(k, b) ==
  [i \in 1 .. Len(blocks) + 1 |->
     IF i <= k THEN blocks[i] ELSE IF i = k + 1 THEN b ELSE blocks[i - 1]]

(* Block b given to an allocation, or back, without a change of its place. *)
Reassigned(b, id, usage) ==
  Header(b.addr, id, b.size, usage, b.region_start, b.region_size)

(* A freed block is used again as a whole. *)
take_over(k, size) ==
  /\ blocks[k].usage = 0
  /\ blocks' = [blocks EXCEPT ![k] = Reassigned(@, g_allocations, RealSize(size))]
  /\ ret' = blocks[k].addr + HDR

(* Mutant of Trimmed: the size of the block is not reduced. *)
Trimmed_not(b) == b

(* Mutant of Rest: the operands of the subtraction are exchanged. *)
Rest_exchanged(b, size) ==
  Header(b.addr + b.usage, g_allocations, b.usage - b.size, RealSize(size),
         b.region_start, b.region_size)

(* Mutant of Rest: the new block inherits the old one's ID. *)
Rest_same_id(b, size) ==
  Header(b.addr + b.usage, b.alloc_id, b.size - b.usage, RealSize(size),
         b.region_start, b.region_size)

(* The part of block b that is in use, and the block made of the rest. *)
Trimmed(b) == Header(b.addr, b.alloc_id, b.usage, b.usage, b.region_start, b.region_size)
Rest(b, size) ==
  Header(b.addr + b.usage, g_allocations, b.size - b.usage, RealSize(size),
         b.region_start, b.region_size)

(* The unused end of a block in use becomes a block of its own. *)
split(k, size) ==
  /\ blocks[k].usage # 0
  /\ blocks' = [LinkAfter(k, Rest(blocks[k], size)) EXCEPT ![k] = Trimmed(blocks[k])]
  /\ ret' = blocks[k].addr + blocks[k].usage + HDR

(* mmap(): the kernel maps a free range it chooses. *)
mmap(base, len) ==
  /\ len > 0
  /\ base + len <= AddrLimit
  /\ \A m \in mapped : m.start + m.len <= base \/ base + len <= m.start

(* Mutant of map_region: real_sz bytes are mapped, not whole pages. *)
map_region_short(base, size) ==
  LET region_sz == RegionSize(RealSize(size))
  IN  /\ mmap(base, region_sz)
      /\ mapped' = mapped \cup {[start |-> base, len |-> RealSize(size)]}
      /\ blocks' = LinkAfter(Len(blocks),
                     Header(base, g_allocations, region_sz, RealSize(size), base, region_sz))
      /\ ret' = base + HDR

(* A new region with one block, appended to the chain. *)
map_region(base, size) ==
  LET region_sz == RegionSize(RealSize(size))
  IN  /\ mmap(base, region_sz)
      /\ mapped' = mapped \cup {[start |-> base, len |-> region_sz]}
      /\ blocks' = LinkAfter(Len(blocks),
                     Header(base, g_allocations, region_sz, RealSize(size), base, region_sz))
      /\ ret' = base + HDR

(* The body of malloc(n), which calloc and realloc call too.  mmap may     *)
(* fail for reasons of its own.                                            *)
allocate(n, algo) ==
  LET size == Aligned(n)
      k    == reuse(size, algo)
  IN  \/ /\ g_allocations < MaxAllocations
         /\ g_allocations' = g_allocations + 1
         /\ \/ /\ k # 0
               /\ take_over(k, size) \/ split(k, size)
               /\ UNCHANGED mapped
            \/ /\ k = 0
               /\ \E base \in Bases : map_region(base, size)
      \/ /\ k = 0
         /\ ret' = NULL
         /\ UNCHANGED <<blocks, g_allocations, mapped>>

(* The client calls f with pointer p and a size of n bytes. *)
Called(f, p, n) == op' = f /\ arg' = p /\ asked' = n

malloc(n, algo) ==
  /\ ~ fault
  /\ allocate(n, algo)
  /\ Called("malloc", NULL, n)
  /\ UNCHANGED fault

(* The client wants nmemb * size bytes, malloc() is asked for that product *)
(* as size_t holds it.  memset() of a NULL result kills the program.       *)
calloc(nmemb, size, algo) ==
  /\ ~ fault
  /\ allocate(Product(nmemb, size), algo)
  /\ Called("calloc", NULL, nmemb * size)
  /\ fault' = (ret' = NULL /\ Product(nmemb, size) > 0)

-----------------------------------------------------------------------------
(***************************************************************************)
(* free() and realloc().                                                   *)
(***************************************************************************)

(* Mutant of Released: the region's first block is marked instead of the   *)
(* one in front of the pointer.                                            *)
Released_head(i) ==
  LET h == CHOOSE k \in Indices : blocks[k].addr = blocks[i].region_start
  IN  [blocks EXCEPT ![h] = Reassigned(@, @.alloc_id, 0)]

(* The chain after "blk->usage = 0". *)
Released(i) == [blocks EXCEPT ![i] = Reassigned(@, @.alloc_id, 0)]

(* The index of the block at blk->region_start. *)
RegionHead(i) == CHOOSE h \in Indices : blocks[h].addr = blocks[i].region_start

(* Where the walk from the region's start ends when it finds nothing in    *)
(* use: at the first block of another region or past the end of the chain. *)
RegionEnd(i) ==
  CHOOSE e \in RegionHead(i) .. Len(blocks) + 1 :
    /\ \A j \in RegionHead(i) .. e - 1 : SameRegion(blocks[j], blocks[i])
    /\ e <= Len(blocks) => ~ SameRegion(blocks[e], blocks[i])

RegionBlocks(i) == RegionHead(i) .. RegionEnd(i) - 1

(* The chain without the region's blocks. *)
Unlinked(i) ==
  LET m == RegionEnd(i) - RegionHead(i)
  IN  [k \in 1 .. Len(blocks) - m |->
         IF k < RegionHead(i) THEN blocks[k] ELSE blocks[k + m]]

(* Mutant of free: a region stays mapped when its last block is freed. *)
free_lazy(i) ==
  /\ ~ fault
  /\ blocks[i].usage # 0
  /\ blocks' = Released(i)
  /\ Called("free", blocks[i].addr + HDR, 0) /\ ret' = NULL
  /\ UNCHANGED <<g_allocations, mapped, fault>>

(* free() of the pointer to block i: the region is unlinked and unmapped   *)
(* when the walk finds nothing in use.  A failing munmap is only reported. *)
free(i) ==
  /\ ~ fault
  /\ blocks[i].usage # 0
  /\ \/ /\ \E k \in RegionBlocks(i) : Released(i)[k].usage # 0
        /\ blocks' = Released(i)
        /\ UNCHANGED mapped
     \/ /\ \A k \in RegionBlocks(i) : Released(i)[k].usage = 0
        /\ blocks' = Unlinked(i)
        /\ \/ mapped' = mapped \ {[start |-> blocks[i].region_start,
                                   len   |-> blocks[i].region_size]}
           \/ UNCHANGED mapped
  /\ Called("free", blocks[i].addr + HDR, 0) /\ ret' = NULL
  /\ UNCHANGED <<g_allocations, fault>>

(* free() of a NULL pointer. *)
free_null ==
  /\ ~ fault
  /\ Called("free", NULL, 0) /\ ret' = NULL
  /\ UNCHANGED <<blocks, g_allocations, mapped, fault>>

(* realloc() of a NULL pointer calls malloc(), whose own rounding of the   *)
(* size is then without effect.                                            *)
realloc_null(n, algo) ==
  /\ ~ fault
  /\ allocate(n, algo)
  /\ Called("realloc", NULL, n)
  /\ UNCHANGED fault

(* realloc() of a pointer to block i is free() for size 0; for any other   *)
(* size nothing is done and NULL returned.                                 *)
realloc(i, n) ==
  \/ Aligned(n) = 0 /\ free(i)
  \/ /\ ~ fault
     /\ blocks[i].usage # 0
     /\ Aligned(n) # 0
     /\ Called("realloc", blocks[i].addr + HDR, n) /\ ret' = NULL
     /\ UNCHANGED <<blocks, g_allocations, mapped, fault>>

Init ==
  /\ blocks = << >>
  /\ g_allocations = 0
  /\ mapped = {}
  /\ op = "none" /\ arg = NULL /\ asked = 0 /\ ret = NULL
  /\ fault = FALSE

Next ==
  \/ \E n \in Requests, algo \in Algorithms :
       malloc(n, algo) \/ realloc_null(n, algo)
  \/ \E nmemb \in Members, n \in Requests, algo \in Algorithms : calloc(nmemb, n, algo)
  \/ \E i \in Indices : free(i)
  \/ free_null
  \/ \E i \in Indices, n \in Requests : realloc(i, n)

Spec == Init /\ [][Next]_vars

-----------------------------------------------------------------------------
(***************************************************************************)
(* Properties.                                                             *)
(***************************************************************************)

(* No size_t addition overflows for a request of n bytes. *)
Fits(n) == n + ALIGN + HDR + PAGE <= SizeMod

(* Requests, and products of calloc's arguments, that do not overflow. *)
RequestsFit ==
  \A n \in Requests : Fits(n) /\ \A nmemb \in Members : Fits(nmemb * n)

End(b)     == b.addr + b.size
InUse(b)   == b.usage # 0

(* Splitting, reuse and unlinking lose no byte of a mapping and hand none  *)
(* out twice: in chain order the blocks of a region start where the        *)
(* mapping starts, follow each other without gap or overlap and end where  *)
(* it ends (allocator.c:233-248, 347-355).                                 *)
RegionsTiled ==
  \A i \in Indices :
    LET b == blocks[i]
        first == i = 1 \/ ~ SameRegion(blocks[i - 1], b)
        last  == i = Len(blocks) \/ ~ SameRegion(blocks[i + 1], b)
    IN  /\ first => b.addr = b.region_start
        /\ IF last THEN End(b) = b.region_start + b.region_size
                   ELSE End(b) = blocks[i + 1].addr

(* print_memory() and write_memory() start a [REGION] line where the       *)
(* region changes from one block to the next.                              *)
RegionLines ==
  {i \in Indices : i = 1 \/ ~ SameRegion(blocks[i - 1], blocks[i])}

(* Every mapping in the chain is printed once and the whole of it is what  *)
(* the kernel mapped; every block lies in a mapping (allocator.c:84, 116). *)
RegionsPrintedOnce ==
  /\ \A i, j \in RegionLines : SameRegion(blocks[i], blocks[j]) => i = j
  /\ \A i \in Indices :
       [start |-> blocks[i].region_start, len |-> blocks[i].region_size] \in mapped

(* A block holds its header and what it is used for; a block in use is     *)
(* never mistaken for a free one, although usage 0 is the only mark        *)
(* (allocator.c:47, 221, 338).                                             *)
BlocksFit ==
  \A i \in Indices :
    /\ blocks[i].usage <= blocks[i].size
    /\ InUse(blocks[i]) => blocks[i].usage >= HDR

(* Memory goes back to the kernel as soon as its last block is freed: no   *)
(* region in the chain is without a block in use (allocator.c:336-362).    *)
NoIdleRegion ==
  \A i \in Indices : \E j \in Indices :
    SameRegion(blocks[i], blocks[j]) /\ InUse(blocks[j])

(* "Each allocation is given a unique ID number" (allocator.c:40), also    *)
(* when blocks are reused and split.                                       *)
UniqueIds ==
  \A i, j \in Indices : blocks[i].alloc_id = blocks[j].alloc_id => i = j

(* The chunks the client holds: the payloads of the blocks in use. *)
Chunks ==
  {[ptr |-> blocks[i].addr + HDR, len |-> blocks[i].usage - HDR] :
     i \in {k \in Indices : InUse(blocks[k])}}

(* The allocator keeps the promises of Heap: whatever is allocated, freed, *)
(* split, reused and unmapped, chunks in use are large enough, never       *)
(* overlap, and disappear only when the client passes their pointer to     *)
(* free(); nothing but a refused calloc() kills the program                *)
(* (allocator.c:209-405).                                                  *)
H == INSTANCE Heap WITH allocated <- Chunks, dead <- fault
ImplementsHeap == H!HeapSpec

=============================================================================
