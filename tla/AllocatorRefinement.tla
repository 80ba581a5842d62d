------------------------- MODULE AllocatorRefinement -------------------------
(***************************************************************************)
(* Allocator implements Heap: proof that every step on the chain of block  *)
(* headers is a step of the abstract heap, or changes nothing there.       *)
(***************************************************************************)
EXTENDS AllocatorProofs

(* The client's view of a block. *)
ChunkOf(b) == [ptr |-> b.addr + HDR, len |-> b.usage - HDR]

(* Blocks b and c are the same to the client. *)
SameChunk(b, c) == b.addr = c.addr /\ b.usage = c.usage

LEMMA ChunksAre ==
  Chunks = {ChunkOf(blocks[i]) : i \in {k \in Indices : InUse(blocks[k])}}
BY DEF Chunks, ChunkOf

LEMMA ChunksAreNext ==
  Chunks' = {ChunkOf(blocks'[i]) : i \in {k \in Indices' : InUse(blocks'[k])}}
BY DEF Chunks, ChunkOf, InUse

LEMMA SameChunkOf ==
  ASSUME NEW b, NEW c, SameChunk(b, c)
  PROVE  ChunkOf(b) = ChunkOf(c)
BY DEF SameChunk, ChunkOf

(* Blocks that do not overlap give chunks that do not overlap. *)
LEMMA ChunksApart ==
  ASSUME NEW b \in Block, NEW c \in Block,
         End(b) <= c.addr \/ End(c) <= b.addr,
         b.usage <= b.size, c.usage <= c.size,
         b.usage >= HDR, c.usage >= HDR
  PROVE  H!Apart(ChunkOf(b), ChunkOf(c))
<1>1. /\ b.addr \in Nat /\ b.size \in Nat /\ b.usage \in Nat
      /\ c.addr \in Nat /\ c.size \in Nat /\ c.usage \in Nat
  BY DEF Block
<1>2. HDR \in Nat /\ HDR > 0
  BY SizesAssumption
<1> QED
  BY <1>1, <1>2 DEF H!Apart, ChunkOf, End

(* A call that asks for memory, and what it does to a program that lives:  *)
(* only a calloc() that gets none kills it.                                *)
RequestCall ==
  /\ H!Requested
  /\ fault = FALSE
  /\ fault' = (op' = "calloc" /\ ret' = NULL /\ asked' > 0)

(* Block x is handed out; the client's other chunks stay. *)
LEMMA GrantStep ==
  ASSUME IInv, IInv', RequestCall, NEW x \in Indices', InUse(blocks'[x]),
         blocks'[x].usage - HDR >= asked',
         ret' = blocks'[x].addr + HDR,
         \A j \in Indices : InUse(blocks[j]) =>
            \E y \in Indices' : y # x /\ SameChunk(blocks'[y], blocks[j]),
         \A y \in Indices' : y # x /\ InUse(blocks'[y]) =>
            \E j \in Indices : SameChunk(blocks'[y], blocks[j])
  PROVE  H!Grant
<1> DEFINE c == ChunkOf(blocks'[x])
<1>0. HDR \in Nat /\ HDR > 0
  BY SizesAssumption
<1>1. /\ blocks' \in Seq(Block) /\ Indices' = 1 .. Len(blocks')
      /\ \A y \in Indices' : blocks'[y] \in Block
  BY DEF IInv, TypeOK, Indices
<1>2. \A y \in Indices' : blocks'[y].addr \in Nat /\ blocks'[y].usage \in Nat
  BY <1>1 DEF Block
<1>3. \A y \in Indices' : /\ blocks'[y].usage <= blocks'[y].size
                          /\ blocks'[y].usage # 0 => blocks'[y].usage >= HDR
  BY DEF IInv, BlocksFit, InUse
<1>4. \A y, z \in Indices' : y # z => \/ End(blocks'[y]) <= blocks'[z].addr
                                      \/ End(blocks'[z]) <= blocks'[y].addr
  BY DEF IInv, BlocksDisjoint, End
<1>5. c \in Chunks'
  BY ChunksAreNext
<1>6. c \in H!Chunk
  <2>1. blocks'[x].addr + HDR \in Int /\ blocks'[x].usage - HDR \in Nat
    <3>1. blocks'[x].addr \in Nat /\ blocks'[x].usage \in Nat
      BY <1>2
    <3>2. blocks'[x].usage # 0
      BY DEF InUse
    <3>3. blocks'[x].usage >= HDR
      BY <1>3, <3>2
    <3> QED
      BY <1>0, <3>1, <3>3
  <2> QED
    BY <2>1 DEF H!Chunk, ChunkOf
<1>7. c.ptr # NULL /\ c.len >= asked' /\ ret' = c.ptr
  <2>1. blocks'[x].addr + HDR # 0
    BY <1>0, <1>2
  <2> QED
    BY <2>1 DEF ChunkOf, NULL
<1>8. ASSUME NEW d \in Chunks
      PROVE  H!Apart(c, d) /\ d \in Chunks'
  <2>1. PICK j \in Indices : InUse(blocks[j]) /\ d = ChunkOf(blocks[j])
    BY ChunksAre
  <2>2. PICK y \in Indices' : y # x /\ SameChunk(blocks'[y], blocks[j])
    BY <2>1
  <2>3. InUse(blocks'[y]) /\ d = ChunkOf(blocks'[y])
    BY <2>1, <2>2, SameChunkOf DEF InUse, SameChunk
  <2>4. H!Apart(c, d)
    <3>0. blocks'[x].usage # 0 /\ blocks'[y].usage # 0
      BY <2>3 DEF InUse
    <3>1. /\ blocks'[x] \in Block /\ blocks'[y] \in Block
      BY <1>1
    <3>3. /\ blocks'[x].usage <= blocks'[x].size /\ blocks'[x].usage >= HDR
          /\ blocks'[y].usage <= blocks'[y].size /\ blocks'[y].usage >= HDR
      BY <1>3, <3>0
    <3>4. End(blocks'[x]) <= blocks'[y].addr \/ End(blocks'[y]) <= blocks'[x].addr
      BY <1>4, <2>2
    <3>2. H!Apart(ChunkOf(blocks'[x]), ChunkOf(blocks'[y]))
      BY <3>1, <3>3, <3>4, ChunksApart
    <3> QED
      BY <2>3, <3>2
  <2>5. d \in Chunks'
    BY <2>3, ChunksAreNext
  <2> QED
    BY <2>4, <2>5
<1>9. ASSUME NEW d \in Chunks', d # c
      PROVE  d \in Chunks
  <2>1. PICK y \in Indices' : InUse(blocks'[y]) /\ d = ChunkOf(blocks'[y])
    BY ChunksAreNext
  <2>2. y # x
    BY <1>9, <2>1
  <2>3. PICK j \in Indices : SameChunk(blocks'[y], blocks[j])
    BY <2>1, <2>2
  <2>4. InUse(blocks[j]) /\ d = ChunkOf(blocks[j])
    BY <2>1, <2>3, SameChunkOf DEF InUse, SameChunk
  <2> QED
    BY <2>4, ChunksAre
<1>10. Chunks' = Chunks \cup {c}
  BY <1>5, <1>8, <1>9
<1>11. H!Requested /\ fault' = fault
  <2>1. ret' # NULL
    BY <1>7
  <2> QED
    BY <2>1, Zenon DEF RequestCall
<1> HIDE DEF c
<1> QED
  BY <1>5, <1>6, <1>7, <1>8, <1>10, <1>11, Zenon DEF H!Grant

(* Block i is taken back; the client's other chunks stay. *)
LEMMA ReleaseStep ==
  ASSUME IInv, NEW i \in Indices, InUse(blocks[i]),
         op' = "free", arg' = blocks[i].addr + HDR, ret' = NULL, UNCHANGED fault,
         \A j \in Indices : j # i /\ InUse(blocks[j]) =>
            \E y \in Indices' : SameChunk(blocks'[y], blocks[j]),
         \A y \in Indices' : InUse(blocks'[y]) =>
            \E j \in Indices : j # i /\ SameChunk(blocks'[y], blocks[j])
  PROVE  H!Release
<1> DEFINE c == ChunkOf(blocks[i])
<1>1. TypeOK /\ \A j \in Indices : blocks[j] \in Block
  BY BlockFields DEF IInv
<1>2. c \in Chunks
  BY ChunksAre
<1>3. \A j \in Indices : j # i /\ InUse(blocks[j]) => ChunkOf(blocks[j]) # c
  <2> SUFFICES ASSUME NEW j \in Indices, j # i, InUse(blocks[j])
               PROVE  ChunkOf(blocks[j]) # c
    OBVIOUS
  <2>1. H!Apart(ChunkOf(blocks[j]), c)
    BY <1>1, ChunksApart DEF IInv, BlocksDisjoint, BlocksFit
  <2> QED
    BY <2>1 DEF H!Apart
<1>4. ASSUME NEW d \in Chunks, d # c
      PROVE  d \in Chunks'
  <2>1. PICK j \in Indices : InUse(blocks[j]) /\ d = ChunkOf(blocks[j])
    BY ChunksAre
  <2>2. PICK y \in Indices' : SameChunk(blocks'[y], blocks[j])
    BY <1>4, <2>1
  <2>3. InUse(blocks'[y]) /\ d = ChunkOf(blocks'[y])
    BY <2>1, <2>2, SameChunkOf DEF InUse, SameChunk
  <2> QED
    BY <2>3, ChunksAreNext
<1>5. ASSUME NEW d \in Chunks'
      PROVE  d \in Chunks /\ d # c
  <2>1. PICK y \in Indices' : InUse(blocks'[y]) /\ d = ChunkOf(blocks'[y])
    BY ChunksAreNext
  <2>2. PICK j \in Indices : j # i /\ SameChunk(blocks'[y], blocks[j])
    BY <2>1
  <2>3. InUse(blocks[j]) /\ d = ChunkOf(blocks[j])
    BY <2>1, <2>2, SameChunkOf DEF InUse, SameChunk
  <2> QED
    BY <1>3, <2>2, <2>3, ChunksAre
<1>6. Chunks' = Chunks \ {c}
  BY <1>4, <1>5
<1>7. arg' = c.ptr
  BY DEF ChunkOf
<1> HIDE DEF c
<1> QED
  BY <1>2, <1>6, <1>7, Zenon DEF H!Release

-----------------------------------------------------------------------------
(***************************************************************************)
(* One lemma for each way malloc() finds its memory.                       *)
(***************************************************************************)

LEMMA TakeOverGrants ==
  ASSUME IInv, IInv', RequestCall, NEW k \in Indices, NEW size,
         RealSize(size) \in Nat, RealSize(size) >= HDR,
         RealSize(size) - HDR >= asked',
         take_over(k, size)
  PROVE  H!Grant
<1> DEFINE new == Reassigned(blocks[k], g_allocations, RealSize(size))
<1>1. blocks \in Seq(Block) /\ Len(blocks) \in Nat /\ HDR > 0 /\ HDR \in Nat
  BY SizesAssumption DEF IInv, TypeOK
<1>2. /\ blocks' = [blocks EXCEPT ![k] = new]
      /\ blocks[k].usage = 0 /\ ret' = blocks[k].addr + HDR
  BY DEF take_over
<1>3. /\ new.addr = blocks[k].addr /\ new.usage = RealSize(size)
  BY DEF Reassigned, Header
<1> HIDE DEF new
<1>4. /\ Indices' = Indices /\ blocks'[k] = new
      /\ \A i \in Indices : i # k => blocks'[i] = blocks[i]
  BY <1>1, <1>2 DEF Indices
<1>5. \A j \in Indices : InUse(blocks[j]) =>
         \E y \in Indices' : y # k /\ SameChunk(blocks'[y], blocks[j])
  BY <1>2, <1>4 DEF InUse, SameChunk
<1>6. \A y \in Indices' : y # k /\ InUse(blocks'[y]) =>
         \E j \in Indices : SameChunk(blocks'[y], blocks[j])
  BY <1>4 DEF SameChunk
<1>7. /\ k \in Indices' /\ InUse(blocks'[k]) /\ blocks'[k].usage - HDR >= asked'
      /\ ret' = blocks'[k].addr + HDR
  <2>1. RealSize(size) # 0
    BY <1>1
  <2> QED
    BY <1>2, <1>3, <1>4, <2>1 DEF InUse
<1> QED
  BY <1>5, <1>6, <1>7, GrantStep

LEMMA SplitGrants ==
  ASSUME IInv, IInv', RequestCall, NEW k \in Indices, NEW size,
         RealSize(size) \in Nat, RealSize(size) >= HDR,
         Unused(blocks[k]) >= RealSize(size),
         RealSize(size) - HDR >= asked',
         split(k, size)
  PROVE  H!Grant
<1> DEFINE b == blocks[k]
           n == Len(blocks)
           x == k + 1
<1>1. n \in Nat /\ Indices = 1 .. n /\ k \in 1 .. n /\ HDR > 0 /\ HDR \in Nat
  BY SizesAssumption DEF IInv, TypeOK, Indices
<1>2. /\ Indices' = 1 .. n + 1
      /\ \A i \in 1 .. k - 1 : blocks'[i] = blocks[i]
      /\ blocks'[k] = Trimmed(b)
      /\ blocks'[x] = Rest(b, size)
      /\ \A i \in k + 2 .. n + 1 : blocks'[i] = blocks[i - 1]
  BY SplitShape
<1>3. /\ blocks'[k].addr = b.addr /\ blocks'[k].usage = b.usage
      /\ blocks'[x].addr = b.addr + b.usage /\ blocks'[x].usage = RealSize(size)
      /\ ret' = b.addr + b.usage + HDR
  BY <1>2 DEF Trimmed, Rest, Header, split
<1>4. k \in Indices' /\ x \in Indices' /\ k # x
  BY <1>1, <1>2
<1>5. ASSUME NEW j \in Indices
      PROVE  \E y \in Indices' : y # x /\ SameChunk(blocks'[y], blocks[j])
  <2>1. CASE j < k
    <3>1. j \in 1 .. k - 1 /\ j \in Indices' /\ j # x
      BY <1>1, <1>2, <2>1
    <3>2. blocks'[j] = blocks[j]
      BY <1>2, <3>1
    <3> QED
      BY <3>1, <3>2 DEF SameChunk
  <2>2. CASE j = k
    BY <1>3, <1>4, <2>2 DEF SameChunk
  <2>3. CASE j > k
    <3>1. j + 1 \in k + 2 .. n + 1 /\ j + 1 \in Indices' /\ j + 1 # x /\ (j + 1) - 1 = j
      BY <1>1, <1>2, <2>3
    <3>2. blocks'[j + 1] = blocks[j]
      BY <1>2, <3>1
    <3> QED
      BY <3>1, <3>2 DEF SameChunk
  <2> QED
    BY <1>1, <2>1, <2>2, <2>3
<1>6. ASSUME NEW y \in Indices', y # x
      PROVE  \E j \in Indices : SameChunk(blocks'[y], blocks[j])
  <2>1. CASE y < k
    <3>1. y \in 1 .. k - 1 /\ y \in Indices
      BY <1>1, <1>2, <2>1
    <3>2. blocks'[y] = blocks[y]
      BY <1>2, <3>1
    <3> QED
      BY <3>1, <3>2 DEF SameChunk
  <2>2. CASE y = k
    BY <1>1, <1>3, <2>2 DEF SameChunk
  <2>3. CASE y > k
    <3>1. y \in k + 2 .. n + 1 /\ y - 1 \in Indices
      BY <1>1, <1>2, <1>6, <2>3
    <3>2. blocks'[y] = blocks[y - 1]
      BY <1>2, <3>1
    <3> QED
      BY <3>1, <3>2 DEF SameChunk
  <2> QED
    BY <1>1, <1>2, <2>1, <2>2, <2>3
<1>7. /\ InUse(blocks'[x]) /\ blocks'[x].usage - HDR >= asked'
      /\ ret' = blocks'[x].addr + HDR
  <2>1. RealSize(size) # 0
    BY <1>1
  <2> QED
    BY <1>3, <2>1 DEF InUse
<1> HIDE DEF x
<1> QED
  BY <1>4, <1>5, <1>6, <1>7, GrantStep

LEMMA MapRegionGrants ==
  ASSUME IInv, IInv', RequestCall, NEW base \in Bases, NEW size,
         RealSize(size) \in Nat, RealSize(size) >= HDR,
         RegionSize(RealSize(size)) \in Nat,
         RealSize(size) - HDR >= asked',
         map_region(base, size)
  PROVE  H!Grant
<1> DEFINE n == Len(blocks)
           s == RegionSize(RealSize(size))
           new == Header(base, g_allocations, s, RealSize(size), base, s)
           x == n + 1
<1>1. /\ blocks \in Seq(Block) /\ n \in Nat /\ Indices = 1 .. n /\ g_allocations \in Nat
      /\ HDR > 0 /\ HDR \in Nat /\ base \in Nat
  BY SizesAssumption, BasesAssumption DEF IInv, TypeOK, Indices
<1>2. blocks' = LinkAfter(n, new) /\ ret' = base + HDR
  BY DEF map_region
<1>3. new \in Block /\ new.addr = base /\ new.usage = RealSize(size)
  <2> HIDE DEF s
  <2>1. s \in Nat
    BY DEF s
  <2> QED
    BY <1>1, <2>1 DEF Header, Block
<1> HIDE DEF new
<1>4. /\ Indices' = 1 .. n + 1
      /\ \A i \in Indices : blocks'[i] = blocks[i]
      /\ blocks'[x] = new
  <2>1. n \in 0 .. n /\ n + 1 \in Nat
    BY <1>1
  <2>2. /\ blocks' \in [1 .. n + 1 -> Block]
        /\ \A i \in 1 .. n : blocks'[i] = blocks[i]
        /\ blocks'[x] = new
    BY <1>1, <1>2, <1>3, <2>1, LinkAfterFacts
  <2>3. Len(blocks') = n + 1
    BY <2>1, <2>2, FunctionIsSequence
  <2> QED
    BY <1>1, <2>2, <2>3 DEF Indices
<1>5. /\ x \in Indices'
      /\ \A j \in Indices : j \in Indices' /\ j # x
      /\ \A y \in Indices' : y # x => y \in Indices
  BY <1>1, <1>4
<1>6. /\ InUse(blocks'[x]) /\ blocks'[x].usage - HDR >= asked'
      /\ ret' = blocks'[x].addr + HDR
  <2>1. RealSize(size) # 0
    BY <1>1
  <2> QED
    BY <1>2, <1>3, <1>4, <2>1 DEF InUse
<1> HIDE DEF x
<1>7. \A j \in Indices : \E y \in Indices' : y # x /\ SameChunk(blocks'[y], blocks[j])
  BY <1>4, <1>5 DEF SameChunk
<1>8. \A y \in Indices' : y # x => \E j \in Indices : SameChunk(blocks'[y], blocks[j])
  BY <1>4, <1>5 DEF SameChunk
<1> QED
  BY <1>5, <1>6, <1>7, <1>8, GrantStep

LEMMA RefuseStep ==
  ASSUME RequestCall, ret' = NULL, UNCHANGED blocks
  PROVE  H!Refuse
<1>1. UNCHANGED Chunks
  BY DEF Chunks, Indices, InUse
<1>2. H!Requested /\ fault' = (op' = "calloc" /\ asked' > 0)
  BY Zenon DEF RequestCall
<1> QED
  BY <1>1, <1>2, Zenon DEF H!Refuse

LEMMA AllocateRefines ==
  ASSUME IInv, IInv', RequestCall, NEW n \in Nat, Fits(n), asked' = n,
         NEW algo, allocate(n, algo)
  PROVE  H!HeapNext
<1> DEFINE size == Aligned(n)
           k == reuse(size, algo)
<1>1. /\ RealSize(size) \in Nat /\ RealSize(size) >= HDR
      /\ RegionSize(RealSize(size)) \in Nat
      /\ RealSize(size) - HDR >= asked'
  <2>1. HDR \in Nat
    BY SizesAssumption
  <2>2. /\ size \in Nat /\ n <= size /\ RealSize(size) = size + HDR
        /\ RegionSize(RealSize(size)) \in Nat
    BY SizeFacts
  <2> HIDE DEF size
  <2> QED
    BY <2>1, <2>2
<1> HIDE DEF size
<1>0. ~ fault
  BY Zenon DEF RequestCall
<1>2. CASE k # 0 /\ (take_over(k, size) \/ split(k, size))
  <2>1. k \in Indices /\ Unused(blocks[k]) >= RealSize(size)
    BY <1>1, <1>2, ReuseFits
  <2> HIDE DEF k
  <2> QED
    BY <1>0, <1>1, <1>2, <2>1, TakeOverGrants, SplitGrants DEF H!HeapNext
<1>3. CASE \E base \in Bases : map_region(base, size)
  BY <1>0, <1>1, <1>3, MapRegionGrants DEF H!HeapNext
<1>4. CASE ret' = NULL /\ UNCHANGED blocks
  BY <1>0, <1>4, RefuseStep DEF H!HeapNext
<1> QED
  BY <1>2, <1>3, <1>4 DEF allocate, size, k

-----------------------------------------------------------------------------
(***************************************************************************)
(* free() takes back one chunk, also when it unmaps a whole region.        *)
(***************************************************************************)

LEMMA FreeReleases ==
  ASSUME IInv, NEW i \in Indices, free(i)
  PROVE  H!Release
<1>1. /\ InUse(blocks[i]) /\ ret' = NULL /\ UNCHANGED fault
      /\ op' = "free" /\ arg' = blocks[i].addr + HDR
      /\ blocks \in Seq(Block) /\ Indices = 1 .. Len(blocks)
  BY DEF free, Called, InUse, IInv, TypeOK, Indices
<1> DEFINE new == Reassigned(blocks[i], blocks[i].alloc_id, 0)
<1>2. Released(i) = [blocks EXCEPT ![i] = new]
  BY DEF Released
<1>3. new.usage = 0
  BY DEF Reassigned, Header
<1> HIDE DEF new
<1>4. /\ Released(i)[i].usage = 0
      /\ \A j \in Indices : j # i => Released(i)[j] = blocks[j]
  BY <1>1, <1>2, <1>3
<1>5. CASE blocks' = Released(i)
  <2>1. Indices' = Indices
    BY <1>1, <1>2, <1>5 DEF Indices
  <2>2. \A j \in Indices : j # i => SameChunk(blocks'[j], blocks[j])
    BY <1>4, <1>5 DEF SameChunk
  <2>3. ~ InUse(blocks'[i])
    BY <1>4, <1>5 DEF InUse
  <2> QED
    BY <1>1, <2>1, <2>2, <2>3, ReleaseStep
<1>6. CASE /\ blocks' = Unlinked(i)
           /\ \A k \in RegionBlocks(i) : Released(i)[k].usage = 0
  <2>1. \A j \in Indices : j # i /\ InUse(blocks[j]) =>
          blocks[j].region_start # blocks[i].region_start
    <3> SUFFICES ASSUME NEW j \in Indices, j # i, InUse(blocks[j]),
                        blocks[j].region_start = blocks[i].region_start
                 PROVE  FALSE
      OBVIOUS
    <3>1. j \in RegionBlocks(i)
      BY WalkVisitsRegion DEF SameRegion
    <3> QED
      BY <1>4, <1>6, <3>1 DEF InUse
  <2>2. \A k \in Indices' : /\ Kept(i, k) \in Indices
                            /\ blocks'[k] = blocks[Kept(i, k)]
                            /\ Kept(i, k) # i
    BY <1>6, UnlinkShape
  <2>3. \A j \in Indices : blocks[j].region_start # blocks[i].region_start =>
          \E k \in Indices' : Kept(i, k) = j
    BY <1>6, UnlinkShape
  <2>4. \A j \in Indices : j # i /\ InUse(blocks[j]) =>
          \E y \in Indices' : SameChunk(blocks'[y], blocks[j])
    BY <2>1, <2>2, <2>3 DEF SameChunk
  <2>5. \A y \in Indices' : InUse(blocks'[y]) =>
          \E j \in Indices : j # i /\ SameChunk(blocks'[y], blocks[j])
    BY <2>2 DEF SameChunk
  <2> QED
    BY <1>1, <2>4, <2>5, ReleaseStep
<1> QED
  BY <1>5, <1>6 DEF free

LEMMA StepRefines ==
  ASSUME RequestsFit, IInv, IInv', [Next]_vars
  PROVE  [H!HeapNext]_(H!heapVars)
<1>1. CASE UNCHANGED vars
  <2>1. UNCHANGED Chunks
    BY <1>1 DEF vars, Chunks, Indices, InUse
  <2> QED
    BY <1>1, <2>1 DEF vars, H!heapVars
<1>2. ASSUME NEW n \in Requests, NEW algo \in Algorithms,
             malloc(n, algo) \/ realloc_null(n, algo)
      PROVE  H!HeapNext
  <2>1. n \in Nat /\ Fits(n)
    BY RequestFacts
  <2>2. /\ allocate(n, algo) /\ op' \in {"malloc", "realloc"}
        /\ arg' = NULL /\ asked' = n
    BY <1>2 DEF malloc, realloc_null, Called
  <2>3. ~ fault /\ fault' = fault
    BY <1>2, Zenon DEF malloc, realloc_null
  <2>4. RequestCall
    <3>1. H!Requested /\ op' # "calloc"
      BY <2>2 DEF H!Requested
    <3>2. fault \in BOOLEAN
      BY DEF IInv, TypeOK
    <3> QED
      BY <2>3, <3>1, <3>2, Zenon DEF RequestCall
  <2> QED
    BY <2>1, <2>2, <2>4, AllocateRefines
<1>3. ASSUME NEW nmemb \in Members, NEW n \in Requests, NEW algo \in Algorithms,
             calloc(nmemb, n, algo)
      PROVE  H!HeapNext
  <2> DEFINE p == nmemb * n
  <2>1. p \in Nat /\ Fits(p) /\ Product(nmemb, n) = p
    BY ProductFacts
  <2> HIDE DEF p
  <2>2. allocate(p, algo) /\ op' = "calloc" /\ arg' = NULL /\ asked' = p
    BY <1>3, <2>1 DEF calloc, Called, p
  <2>3. ~ fault /\ fault' = (ret' = NULL /\ p > 0)
    BY <1>3, <2>1, Zenon DEF calloc
  <2>4. RequestCall
    <3>1. H!Requested
      BY <2>2 DEF H!Requested
    <3>2. fault \in BOOLEAN
      BY DEF IInv, TypeOK
    <3>3. fault' = (op' = "calloc" /\ ret' = NULL /\ asked' > 0)
      BY <2>2, <2>3, Zenon
    <3> QED
      BY <2>3, <3>1, <3>2, <3>3, Zenon DEF RequestCall
  <2> QED
    BY <2>1, <2>2, <2>4, AllocateRefines
<1>4. ASSUME NEW i \in Indices, free(i)
      PROVE  H!HeapNext
  BY <1>4, FreeReleases DEF H!HeapNext, free
<1>5. ASSUME NEW i \in Indices, NEW n \in Requests, realloc(i, n)
      PROVE  H!HeapNext
  <2>1. CASE free(i)
    BY <1>4, <2>1
  <2>2. CASE ~ free(i)
    <3>1. /\ ~ fault /\ UNCHANGED <<blocks, fault>>
          /\ blocks[i].usage # 0 /\ Aligned(n) # 0
          /\ op' = "realloc" /\ arg' = blocks[i].addr + HDR /\ asked' = n /\ ret' = NULL
      BY <1>5, <2>2 DEF realloc, Called
    <3>2. UNCHANGED Chunks
      BY <3>1 DEF Chunks, Indices, InUse
    <3>3. ChunkOf(blocks[i]) \in Chunks /\ arg' = ChunkOf(blocks[i]).ptr
      BY <3>1, ChunksAre DEF ChunkOf, InUse
    <3>4. n > 0
      <4>1. 0 % ALIGN = 0
        BY SizesAssumption, NoRemainder
      <4>2. Aligned(0) = 0
        BY <4>1 DEF Aligned
      <4> QED
        BY <3>1, <4>2, RequestFacts
    <3> QED
      BY <3>1, <3>2, <3>3, <3>4 DEF H!Resize, H!HeapNext
  <2> QED
    BY <2>1, <2>2
<1>6. CASE free_null
  <2>1. UNCHANGED Chunks
    BY <1>6 DEF free_null, Chunks, Indices, InUse
  <2> QED
    BY <1>6, <2>1 DEF free_null, Called, H!ReleaseNothing, H!HeapNext
<1> QED
  BY <1>1, <1>2, <1>3, <1>4, <1>5, <1>6 DEF Next

(* The allocator keeps the promises of Heap for every instance: whatever   *)
(* is allocated, freed, split, reused and unmapped, a pointer it hands out *)
(* owns at least the bytes asked for, no two pointers in use share a byte, *)
(* free() takes back the chunk its argument names and nothing else does,   *)
(* and only a refused calloc() kills the program, as long as neither a     *)
(* size nor a product nmemb * size overflows (allocator.c:209-405).        *)
THEOREM RefinesHeap ==
  ASSUME RequestsFit
  PROVE  Spec => ImplementsHeap
<1>1. Init => H!HeapInit
  BY DEF Init, H!HeapInit, Chunks, Indices
<1>2. IInv /\ IInv' /\ [Next]_vars => [H!HeapNext]_(H!heapVars)
  BY StepRefines
<1> QED
  BY <1>1, <1>2, ChainInvariant, PTL DEF Spec, ImplementsHeap, H!HeapSpec
=============================================================================
