--------------------------- MODULE AllocatorProofs ---------------------------
(***************************************************************************)
(* Proofs about Allocator, for every page, header and alignment size and   *)
(* every number of calls, as long as no size_t addition overflows.         *)
(***************************************************************************)
EXTENDS Allocator, NaturalsInduction, WellFoundedInduction, TLAPS

(* A nonempty set of naturals has a least element. *)
LEMMA LeastNatural ==
  ASSUME NEW T \in SUBSET Nat, T # {}
  PROVE  \E x \in T : \A y \in T : x <= y
<1>1. PICK x \in T : \A y \in T : ~ (<<y, x>> \in OpToRel(<, Nat))
  BY NatLessThanWellFounded, WFMin, T \subseteq Nat
<1>2. ASSUME NEW y \in T PROVE x <= y
  <2>1. x \in Nat /\ y \in Nat
    OBVIOUS
  <2>2. ~ (y < x)
    BY <1>1, <2>1 DEF OpToRel
  <2> QED
    BY <2>1, <2>2
<1> QED
  BY <1>2

-----------------------------------------------------------------------------
(***************************************************************************)
(* Sizes.                                                                  *)
(***************************************************************************)

LEMMA RoundUp ==
  ASSUME NEW n \in Nat, NEW a \in Nat \ {0}
  PROVE  n % a \in 0 .. a - 1
OBVIOUS

(* Rounding up loses nothing and costs less than one unit. *)
LEMMA SizeFacts ==
  ASSUME NEW n \in Nat, Fits(n)
  PROVE  /\ Aligned(n) \in Nat
         /\ n <= Aligned(n)
         /\ RealSize(Aligned(n)) = Aligned(n) + HDR
         /\ RegionSize(RealSize(Aligned(n))) \in Nat
         /\ RegionSize(RealSize(Aligned(n))) >= RealSize(Aligned(n))
<1>1. n \in Nat /\ n + ALIGN + HDR + PAGE <= SizeMod
  BY DEF Fits
<1>2. n % ALIGN \in 0 .. ALIGN - 1
  BY <1>1, SizesAssumption, RoundUp
<1>3. Aligned(n) \in Nat /\ n <= Aligned(n) /\ Aligned(n) <= n + ALIGN
  BY <1>1, <1>2, SizesAssumption DEF Aligned, Wrap
<1>4. RealSize(Aligned(n)) = Aligned(n) + HDR
  BY <1>1, <1>3, SizesAssumption DEF RealSize, Wrap
<1> DEFINE r == RealSize(Aligned(n))
<1>5. r \in Nat /\ r <= n + ALIGN + HDR
  BY <1>1, <1>3, <1>4, SizesAssumption
<1>6. r % PAGE \in 0 .. PAGE - 1
  BY <1>5, SizesAssumption, RoundUp
<1>7. RegionSize(r) \in Nat /\ RegionSize(r) >= r
  <2> HIDE DEF r
  <2> QED
    BY <1>1, <1>5, <1>6, SizesAssumption DEF RegionSize, Wrap
<1> QED
  BY <1>3, <1>4, <1>7

(* What malloc() is asked for by each of its callers. *)
LEMMA RequestFacts ==
  ASSUME RequestsFit, NEW n \in Requests
  PROVE  n \in Nat /\ Fits(n)
BY RequestsAssumption DEF RequestsFit

LEMMA NoRemainder ==
  ASSUME NEW n \in Nat, NEW a \in Nat \ {0}, n < a
  PROVE  n % a = n
OBVIOUS

LEMMA ProductFacts ==
  ASSUME RequestsFit, NEW nmemb \in Members, NEW n \in Requests
  PROVE  /\ nmemb * n \in Nat
         /\ Fits(nmemb * n)
         /\ Product(nmemb, n) = nmemb * n
<1>1. nmemb \in Nat /\ n \in Nat
  BY MembersAssumption, RequestsAssumption
<1> DEFINE p == nmemb * n
<1>2. p \in Nat
  BY <1>1
<1>3. Fits(p)
  BY DEF RequestsFit
<1>4. p % SizeMod = p
  <2> HIDE DEF p
  <2>1. p < SizeMod
    BY <1>2, <1>3, SizesAssumption DEF Fits
  <2> QED
    BY <1>2, <2>1, NoRemainder, SizesAssumption
<1> QED
  BY <1>2, <1>3, <1>4 DEF Product

-----------------------------------------------------------------------------
(***************************************************************************)
(* The inductive invariant.                                                *)
(***************************************************************************)

(* Every block lies in the mapping its header names. *)
InRegion ==
  \A i \in Indices :
    /\ 0 < blocks[i].region_start
    /\ blocks[i].region_start <= blocks[i].addr
    /\ 0 < blocks[i].size
    /\ End(blocks[i]) <= blocks[i].region_start + blocks[i].region_size
    /\ [start |-> blocks[i].region_start, len |-> blocks[i].region_size] \in mapped

BlocksDisjoint ==
  \A i, j \in Indices :
    i # j => End(blocks[i]) <= blocks[j].addr \/ End(blocks[j]) <= blocks[i].addr

(* The blocks of a region are next to each other in the chain. *)
RegionsContiguous ==
  \A i, j, k \in Indices :
    i < j /\ j < k /\ SameRegion(blocks[i], blocks[k]) => SameRegion(blocks[i], blocks[j])

MappingsDisjoint ==
  \A m, n \in mapped :
    /\ 0 < m.len
    /\ m.start + m.len <= AddrLimit
    /\ m = n \/ m.start + m.len <= n.start \/ n.start + n.len <= m.start

IdsIssued == \A i \in Indices : blocks[i].alloc_id < g_allocations

IInv ==
  /\ TypeOK
  /\ InRegion
  /\ BlocksDisjoint
  /\ RegionsContiguous
  /\ RegionsTiled
  /\ MappingsDisjoint
  /\ BlocksFit
  /\ NoIdleRegion
  /\ UniqueIds
  /\ IdsIssued

LEMMA BlockFields ==
  ASSUME TypeOK, NEW i \in Indices
  PROVE  /\ blocks[i] \in Block
         /\ blocks[i].addr \in Nat
         /\ blocks[i].alloc_id \in Nat
         /\ blocks[i].size \in Nat
         /\ blocks[i].usage \in Nat
         /\ blocks[i].region_start \in Nat
         /\ blocks[i].region_size \in Nat
<1>1. blocks[i] \in Block
  BY DEF TypeOK, Indices
<1> QED
  BY <1>1 DEF Block

(* What is left of any block is bounded by the address space. *)
LEMMA UnusedBounded ==
  ASSUME IInv, NEW i \in Indices
  PROVE  Unused(blocks[i]) \in 0 .. AddrLimit
<1> DEFINE m == [start |-> blocks[i].region_start, len |-> blocks[i].region_size]
<1>1. m \in mapped /\ m.start + m.len <= AddrLimit
  BY DEF IInv, InRegion, MappingsDisjoint
<1>2. /\ blocks[i].region_start + blocks[i].region_size <= AddrLimit
      /\ blocks[i].region_start <= blocks[i].addr
      /\ blocks[i].addr + blocks[i].size <= blocks[i].region_start + blocks[i].region_size
      /\ blocks[i].usage <= blocks[i].size
  BY <1>1 DEF IInv, InRegion, BlocksFit, End
<1> QED
  BY <1>2, BlockFields, SizesAssumption DEF Unused, IInv

-----------------------------------------------------------------------------
(***************************************************************************)
(* reuse() returns a block with room for the request.                      *)
(***************************************************************************)

LEMMA GreatestNatural ==
  ASSUME NEW b \in Nat, NEW T \in SUBSET (0 .. b), T # {}
  PROVE  \E x \in T : \A y \in T : y <= x
<1> DEFINE D == {b - t : t \in T}
<1>1. D \in SUBSET Nat /\ D # {}
  <2>1. \A t \in T : b - t \in Nat
    OBVIOUS
  <2> QED
    BY <2>1
<1>2. PICK d \in D : \A e \in D : d <= e
  BY <1>1, LeastNatural
<1>3. PICK x \in T : d = b - x
  OBVIOUS
<1>4. ASSUME NEW y \in T PROVE y <= x
  <2>1. b - y \in D /\ x \in 0 .. b /\ y \in 0 .. b
    OBVIOUS
  <2>2. b - x <= b - y
    BY <1>2, <1>3, <2>1
  <2> QED
    BY <2>1, <2>2
<1> QED
  BY <1>4

LEMMA LowestInSet ==
  ASSUME TypeOK, NEW S \in SUBSET Indices, S # {}
  PROVE  Lowest(S) \in S
<1>1. S \in SUBSET Nat
  BY DEF Indices
<1> QED
  BY <1>1, LeastNatural DEF Lowest

LEMMA HighestInSet ==
  ASSUME TypeOK, NEW S \in SUBSET Indices, S # {}
  PROVE  Highest(S) \in S
<1>1. Len(blocks) \in Nat /\ S \in SUBSET (0 .. Len(blocks))
  BY DEF Indices, TypeOK
<1>2. \E x \in S : \A y \in S : y <= x
  BY <1>1, GreatestNatural
<1>3. \E x \in S : \A y \in S : x >= y
  BY <1>1, <1>2
<1> QED
  BY <1>3 DEF Highest

LEMMA ReuseFits ==
  ASSUME IInv, NEW size, NEW algo, reuse(size, algo) # 0, RealSize(size) \in Nat
  PROVE  /\ reuse(size, algo) \in Indices
         /\ Unused(blocks[reuse(size, algo)]) >= RealSize(size)
<1> DEFINE fits == {i \in Indices : Unused(blocks[i]) >= RealSize(size)}
<1>1. TypeOK
  BY DEF IInv
<1>2. \A i \in Indices : Unused(blocks[i]) \in 0 .. AddrLimit /\ Unused(blocks[i]) \in Nat
  BY UnusedBounded
<1>3. first_fit(size) # 0 => first_fit(size) \in fits
  <2> DEFINE S == {i \in Indices : Unused(blocks[i]) > RealSize(size)}
  <2>1. S # {} => Lowest(S) \in S
    BY <1>1, LowestInSet
  <2>2. S \subseteq fits
    BY <1>2
  <2> QED
    BY <2>1, <2>2 DEF first_fit
<1>4. best_fit(size) # 0 => best_fit(size) \in fits
  <2> DEFINE S == {i \in Indices : Unused(blocks[i]) >= RealSize(size)
                                    /\ Unused(blocks[i]) <= IntMax}
             best == {i \in S : \A j \in S : Unused(blocks[i]) <= Unused(blocks[j])}
             U == {Unused(blocks[i]) : i \in S}
  <2> SUFFICES ASSUME S # {} PROVE Highest(best) \in fits
    BY DEF best_fit
  <2>1. U \in SUBSET Nat /\ U # {}
    BY <1>2
  <2>2. PICK u \in U : \A v \in U : u <= v
    BY <2>1, LeastNatural
  <2>3. best # {}
    BY <2>2
  <2>4. best \in SUBSET Indices
    OBVIOUS
  <2> QED
    BY <1>1, <2>3, <2>4, HighestInSet
<1>5. worst_fit(size) # 0 => worst_fit(size) \in fits
  <2> DEFINE worst == {i \in fits : \A j \in fits : Unused(blocks[i]) >= Unused(blocks[j])}
             U == {Unused(blocks[i]) : i \in fits}
  <2> SUFFICES ASSUME fits # {} PROVE Highest(worst) \in fits
    BY DEF worst_fit
  <2>1. U \in SUBSET (0 .. AddrLimit) /\ U # {} /\ AddrLimit \in Nat
    BY <1>2, SizesAssumption
  <2>2. PICK u \in U : \A v \in U : v <= u
    BY <2>1, GreatestNatural
  <2>3. worst # {}
    BY <1>2, <2>2
  <2>4. worst \in SUBSET Indices
    OBVIOUS
  <2> QED
    BY <1>1, <2>3, <2>4, HighestInSet
<1> QED
  BY <1>3, <1>4, <1>5 DEF reuse

-----------------------------------------------------------------------------
(***************************************************************************)
(* Steps that leave the layout of the regions alone.                       *)
(***************************************************************************)

SameLayout ==
  /\ Indices' = Indices
  /\ Len(blocks') = Len(blocks)
  /\ mapped' = mapped
  /\ \A i \in Indices :
       /\ blocks'[i].addr = blocks[i].addr
       /\ blocks'[i].size = blocks[i].size
       /\ blocks'[i].region_start = blocks[i].region_start
       /\ blocks'[i].region_size = blocks[i].region_size

LEMMA LayoutKept ==
  ASSUME IInv, SameLayout
  PROVE  /\ InRegion'
         /\ BlocksDisjoint'
         /\ RegionsContiguous'
         /\ RegionsTiled'
         /\ MappingsDisjoint'
<1> USE DEF IInv, SameLayout, End, SameRegion
<1>1. InRegion'
  BY DEF InRegion
<1>2. BlocksDisjoint'
  BY DEF BlocksDisjoint
<1>3. RegionsContiguous'
  BY DEF RegionsContiguous
<1>4. RegionsTiled'
  <2> SUFFICES ASSUME NEW i \in Indices
               PROVE  /\ i = 1 \/ ~ SameRegion(blocks[i - 1], blocks[i])
                           => blocks[i].addr = blocks[i].region_start
                      /\ IF i = Len(blocks) \/ ~ SameRegion(blocks[i + 1], blocks[i])
                           THEN End(blocks[i]) = blocks[i].region_start + blocks[i].region_size
                           ELSE End(blocks[i]) = blocks[i + 1].addr
    <3>1. \A i \in Indices : (i # 1 => i - 1 \in Indices)
                           /\ (i # Len(blocks) => i + 1 \in Indices)
      BY DEF Indices, TypeOK
    <3> QED
      BY <3>1 DEF RegionsTiled
  <2> QED
    BY DEF RegionsTiled
<1>5. MappingsDisjoint'
  BY DEF MappingsDisjoint
<1> QED
  BY <1>1, <1>2, <1>3, <1>4, <1>5

(* A freed block taken over as a whole. *)
LEMMA TakeOverPreserves ==
  ASSUME IInv, NEW k \in Indices, NEW size,
         RealSize(size) \in Nat, RealSize(size) >= HDR,
         Unused(blocks[k]) >= RealSize(size),
         take_over(k, size),
         g_allocations' = g_allocations + 1,
         UNCHANGED mapped,
         fault' \in BOOLEAN, asked' \in Nat, arg' \in Nat, op' \in Calls
  PROVE  IInv'
<1> DEFINE r == RealSize(size)
<1>0. HDR \in Nat /\ HDR > 0
  BY SizesAssumption
<1>1. /\ blocks' = [blocks EXCEPT ![k] = Reassigned(blocks[k], g_allocations, r)]
      /\ ret' = blocks[k].addr + HDR
      /\ blocks[k].usage = 0
  BY DEF take_over
<1>2. /\ TypeOK /\ blocks \in Seq(Block) /\ blocks[k] \in Block /\ g_allocations \in Nat
      /\ Len(blocks) \in Nat
  BY BlockFields DEF IInv, TypeOK
<1> DEFINE new == Reassigned(blocks[k], g_allocations, r)
<1>3. new \in Block
  BY <1>2, BlockFields DEF Block, Reassigned, Header
<1>4. blocks' = [blocks EXCEPT ![k] = new]
  BY <1>1
<1>5. blocks' \in Seq(Block) /\ Len(blocks') = Len(blocks)
  BY <1>2, <1>3, <1>4 DEF Indices
<1>6. Indices' = Indices
  BY <1>5 DEF Indices
<1>7. \A i \in Indices : i # k => blocks'[i] = blocks[i]
  BY <1>2, <1>4 DEF Indices
<1>8. /\ blocks'[k].addr = blocks[k].addr
      /\ blocks'[k].size = blocks[k].size
      /\ blocks'[k].region_start = blocks[k].region_start
      /\ blocks'[k].region_size = blocks[k].region_size
      /\ blocks'[k].alloc_id = g_allocations
      /\ blocks'[k].usage = r
  <2>1. blocks'[k] = new
    BY <1>2, <1>4 DEF Indices
  <2> QED
    BY <2>1 DEF Reassigned, Header
<1>9. SameLayout
  BY <1>5, <1>6, <1>7, <1>8 DEF SameLayout
<1>10. TypeOK'
  <2>1. ret' \in Nat
    BY <1>0, <1>1, <1>2, BlockFields
  <2> QED
    BY <1>2, <1>5, <2>1 DEF TypeOK
<1>11. BlocksFit'
  <2>1. r <= blocks[k].size
    BY <1>1, <1>2, BlockFields DEF Unused
  <2> QED
    BY <1>6, <1>7, <1>8, <2>1 DEF BlocksFit, InUse, IInv
<1>12. NoIdleRegion'
  <2>1. r # 0
    BY <1>0
  <2>2. \A j \in Indices : InUse(blocks[j]) => InUse(blocks'[j])
    BY <1>1, <1>7 DEF InUse
  <2> QED
    BY <1>6, <1>9, <2>2 DEF NoIdleRegion, SameRegion, SameLayout, IInv
<1>13. UniqueIds' /\ IdsIssued'
  <2>1. \A i \in Indices : blocks[i].alloc_id \in Nat
    BY <1>2, BlockFields
  <2> QED
    BY <1>2, <1>6, <1>7, <1>8, <2>1 DEF UniqueIds, IdsIssued, IInv
<1> QED
  BY <1>9, <1>10, <1>11, <1>12, <1>13, LayoutKept DEF IInv

(* free() of a block whose region stays in use. *)
LEMMA ReleasePreserves ==
  ASSUME IInv, NEW i \in Indices, NEW j \in Indices,
         blocks' = Released(i),
         j # i, SameRegion(blocks[j], blocks[i]), InUse(blocks[j]),
         ret' = NULL, asked' \in Nat, arg' \in Nat, op' \in Calls,
         UNCHANGED <<mapped, g_allocations, fault>>
  PROVE  IInv'
<1>2. /\ TypeOK /\ blocks \in Seq(Block) /\ blocks[i] \in Block
      /\ Len(blocks) \in Nat
  BY BlockFields DEF IInv, TypeOK
<1> DEFINE new == Reassigned(blocks[i], blocks[i].alloc_id, 0)
<1>3. new \in Block
  BY <1>2, BlockFields DEF Block, Reassigned, Header
<1>4. blocks' = [blocks EXCEPT ![i] = new]
  BY DEF Released
<1>5. blocks' \in Seq(Block) /\ Len(blocks') = Len(blocks)
  BY <1>2, <1>3, <1>4 DEF Indices
<1>6. Indices' = Indices
  BY <1>5 DEF Indices
<1>7. \A k \in Indices : k # i => blocks'[k] = blocks[k]
  BY <1>2, <1>4 DEF Indices
<1>8. /\ blocks'[i].addr = blocks[i].addr
      /\ blocks'[i].size = blocks[i].size
      /\ blocks'[i].region_start = blocks[i].region_start
      /\ blocks'[i].region_size = blocks[i].region_size
      /\ blocks'[i].alloc_id = blocks[i].alloc_id
      /\ blocks'[i].usage = 0
  <2>1. blocks'[i] = new
    BY <1>2, <1>4 DEF Indices
  <2> QED
    BY <2>1 DEF Reassigned, Header
<1>9. SameLayout
  BY <1>5, <1>6, <1>7, <1>8 DEF SameLayout
<1>10. TypeOK'
  BY <1>5 DEF TypeOK, IInv, NULL
<1>11. BlocksFit'
  BY <1>2, <1>6, <1>7, <1>8, BlockFields DEF BlocksFit, InUse, IInv
<1>12. NoIdleRegion'
  <2> SUFFICES ASSUME NEW x \in Indices
               PROVE  \E y \in Indices : SameRegion(blocks'[x], blocks'[y]) /\ InUse(blocks'[y])
    BY <1>6 DEF NoIdleRegion
  <2>1. PICK y \in Indices : SameRegion(blocks[x], blocks[y]) /\ InUse(blocks[y])
    BY DEF NoIdleRegion, IInv
  <2>2. CASE y # i
    BY <1>7, <1>9, <2>1, <2>2 DEF SameRegion, SameLayout
  <2>3. CASE y = i
    BY <1>7, <1>9, <2>1, <2>3 DEF SameRegion, SameLayout
  <2> QED
    BY <2>2, <2>3
<1>13. UniqueIds' /\ IdsIssued'
  BY <1>6, <1>7, <1>8 DEF UniqueIds, IdsIssued, IInv
<1> QED
  BY <1>9, <1>10, <1>11, <1>12, <1>13, LayoutKept DEF IInv

-----------------------------------------------------------------------------
(***************************************************************************)
(* Splitting a block.                                                      *)
(***************************************************************************)

LEMMA FunctionIsSequence ==
  ASSUME NEW n \in Nat, NEW f \in [1 .. n -> Block]
  PROVE  f \in Seq(Block) /\ Len(f) = n
OBVIOUS

LEMMA LinkAfterFacts ==
  ASSUME blocks \in Seq(Block), NEW k \in 0 .. Len(blocks), NEW b \in Block
  PROVE  /\ LinkAfter(k, b) \in [1 .. Len(blocks) + 1 -> Block]
         /\ \A i \in 1 .. k : LinkAfter(k, b)[i] = blocks[i]
         /\ LinkAfter(k, b)[k + 1] = b
         /\ \A i \in k + 2 .. Len(blocks) + 1 : LinkAfter(k, b)[i] = blocks[i - 1]
<1>1. Len(blocks) \in Nat /\ \A i \in 1 .. Len(blocks) : blocks[i] \in Block
  OBVIOUS
<1>2. ASSUME NEW i \in 1 .. Len(blocks) + 1
      PROVE  LinkAfter(k, b)[i] = IF i <= k THEN blocks[i] ELSE IF i = k + 1 THEN b ELSE blocks[i - 1]
  BY DEF LinkAfter
<1>3. \A i \in 1 .. Len(blocks) + 1 :
        (IF i <= k THEN blocks[i] ELSE IF i = k + 1 THEN b ELSE blocks[i - 1]) \in Block
  BY <1>1
<1>4. LinkAfter(k, b) \in [1 .. Len(blocks) + 1 -> Block]
  BY <1>3 DEF LinkAfter
<1> QED
  BY <1>1, <1>2, <1>4

(* The chain after a split. *)
LEMMA SplitShape ==
  ASSUME IInv, NEW k \in Indices, NEW size,
         RealSize(size) \in Nat,
         Unused(blocks[k]) >= RealSize(size),
         split(k, size)
  PROVE  /\ blocks' \in Seq(Block) /\ Len(blocks') = Len(blocks) + 1
         /\ Indices' = 1 .. Len(blocks) + 1
         /\ \A i \in 1 .. k - 1 : blocks'[i] = blocks[i]
         /\ blocks'[k] = Trimmed(blocks[k])
         /\ blocks'[k + 1] = Rest(blocks[k], size)
         /\ \A i \in k + 2 .. Len(blocks) + 1 : blocks'[i] = blocks[i - 1]
<1> DEFINE r == RealSize(size)
           b == blocks[k]
           n == Len(blocks)
<1>1. /\ TypeOK /\ blocks \in Seq(Block) /\ n \in Nat /\ k \in 1 .. n
      /\ g_allocations \in Nat
  BY DEF IInv, TypeOK, Indices
<1>2. /\ b.addr \in Nat /\ b.size \in Nat /\ b.usage \in Nat /\ b.alloc_id \in Nat
      /\ b.region_start \in Nat /\ b.region_size \in Nat
      /\ 0 < b.usage /\ b.usage + r <= b.size
  BY <1>1, BlockFields DEF split, Unused
<1>3. Trimmed(b) \in Block /\ Rest(b, size) \in Block
  <2>1. b.addr + b.usage \in Nat /\ b.size - b.usage \in Nat /\ r \in Nat
    BY <1>2
  <2>2. Trimmed(b) \in Block
    BY <1>2 DEF Trimmed, Header, Block
  <2>3. Rest(b, size) \in Block
    BY <1>1, <1>2, <2>1 DEF Rest, Header, Block
  <2> QED
    BY <2>2, <2>3
<1>4. blocks' = [LinkAfter(k, Rest(b, size)) EXCEPT ![k] = Trimmed(b)]
  BY DEF split
<1> DEFINE L == LinkAfter(k, Rest(b, size))
<1>5. /\ L \in [1 .. n + 1 -> Block]
      /\ \A i \in 1 .. k : L[i] = blocks[i]
      /\ L[k + 1] = Rest(b, size)
      /\ \A i \in k + 2 .. n + 1 : L[i] = blocks[i - 1]
  BY <1>1, <1>3, LinkAfterFacts
<1>6. blocks' \in Seq(Block) /\ Len(blocks') = n + 1 /\ Indices' = 1 .. n + 1
  <2> HIDE DEF L
  <2>1. blocks' \in [1 .. n + 1 -> Block]
    BY <1>3, <1>4, <1>5 DEF L
  <2>2. n + 1 \in Nat
    BY <1>1
  <2>3. blocks' \in Seq(Block) /\ Len(blocks') = n + 1
    BY <2>1, <2>2, FunctionIsSequence
  <2> QED
    BY <2>3 DEF Indices
<1>7. /\ \A i \in 1 .. k - 1 : blocks'[i] = blocks[i]
      /\ blocks'[k] = Trimmed(b)
      /\ blocks'[k + 1] = Rest(b, size)
      /\ \A i \in k + 2 .. n + 1 : blocks'[i] = blocks[i - 1]
  <2> HIDE DEF L
  <2> QED
    BY <1>1, <1>4, <1>5 DEF L
<1> QED
  BY <1>6, <1>7

LEMMA SplitPreserves ==
  ASSUME IInv, NEW k \in Indices, NEW size,
         RealSize(size) \in Nat, RealSize(size) >= HDR,
         Unused(blocks[k]) >= RealSize(size),
         split(k, size),
         g_allocations' = g_allocations + 1,
         UNCHANGED mapped,
         fault' \in BOOLEAN, asked' \in Nat, arg' \in Nat, op' \in Calls
  PROVE  IInv'
<1> DEFINE r == RealSize(size)
           b == blocks[k]
           n == Len(blocks)
           old(i) == IF i <= k THEN i ELSE i - 1
<1>0. HDR \in Nat /\ HDR > 0
  BY SizesAssumption
<1>1. /\ TypeOK /\ blocks \in Seq(Block) /\ n \in Nat /\ k \in 1 .. n
      /\ g_allocations \in Nat
  BY DEF IInv, TypeOK, Indices
<1>2. /\ b.addr \in Nat /\ b.size \in Nat /\ b.usage \in Nat /\ b.alloc_id \in Nat
      /\ b.region_start \in Nat /\ b.region_size \in Nat
      /\ 0 < b.usage /\ b.usage + r <= b.size
  BY <1>1, BlockFields DEF split, Unused
<1>6. blocks' \in Seq(Block) /\ Len(blocks') = n + 1 /\ Indices' = 1 .. n + 1
  BY SplitShape
<1>7. /\ \A i \in 1 .. k - 1 : blocks'[i] = blocks[i]
      /\ blocks'[k] = Trimmed(b)
      /\ blocks'[k + 1] = Rest(b, size)
      /\ \A i \in k + 2 .. n + 1 : blocks'[i] = blocks[i - 1]
  BY SplitShape
<1>8. /\ blocks'[k].addr = b.addr /\ blocks'[k].size = b.usage
      /\ blocks'[k].usage = b.usage /\ blocks'[k].alloc_id = b.alloc_id
      /\ blocks'[k].region_start = b.region_start
      /\ blocks'[k].region_size = b.region_size
  BY <1>7 DEF Trimmed, Header
<1>9. /\ blocks'[k + 1].addr = b.addr + b.usage
      /\ blocks'[k + 1].size = b.size - b.usage
      /\ blocks'[k + 1].usage = r /\ blocks'[k + 1].alloc_id = g_allocations
      /\ blocks'[k + 1].region_start = b.region_start
      /\ blocks'[k + 1].region_size = b.region_size
  BY <1>7 DEF Rest, Header
<1>10. \A i \in Indices' :
         /\ old(i) \in Indices
         /\ blocks'[i].region_start = blocks[old(i)].region_start
         /\ blocks'[i].region_size = blocks[old(i)].region_size
         /\ i \notin {k, k + 1} => blocks'[i] = blocks[old(i)] /\ old(i) # k
  BY <1>1, <1>6, <1>7, <1>8, <1>9 DEF Indices
<1>11. \A i \in Indices' :
         /\ blocks[old(i)].addr \in Nat /\ blocks[old(i)].size \in Nat
         /\ blocks[old(i)].usage \in Nat /\ blocks[old(i)].alloc_id \in Nat
         /\ blocks[old(i)].region_start \in Nat /\ blocks[old(i)].region_size \in Nat
  BY <1>1, <1>10, BlockFields
<1>12. \A i \in Indices' :
         /\ blocks[old(i)].addr <= blocks'[i].addr
         /\ blocks'[i].addr \in Nat /\ blocks'[i].size \in Nat
         /\ 0 < blocks[old(i)].size => 0 < blocks'[i].size
         /\ blocks'[i].addr + blocks'[i].size <= blocks[old(i)].addr + blocks[old(i)].size
  <2> SUFFICES ASSUME NEW i \in Indices'
               PROVE  /\ blocks[old(i)].addr <= blocks'[i].addr
                      /\ blocks'[i].addr \in Nat /\ blocks'[i].size \in Nat
                      /\ 0 < blocks[old(i)].size => 0 < blocks'[i].size
                      /\ blocks'[i].addr + blocks'[i].size <= blocks[old(i)].addr + blocks[old(i)].size
    OBVIOUS
  <2>1. CASE i = k
    <3>1. old(i) = k
      BY <1>1, <2>1
    <3>2. /\ blocks[old(i)].addr = b.addr /\ blocks[old(i)].size = b.size
          /\ blocks'[i].addr = b.addr /\ blocks'[i].size = b.usage
      BY <1>8, <2>1, <3>1
    <3> HIDE DEF old, b
    <3> QED
      BY <1>0, <1>2, <3>2
  <2>2. CASE i = k + 1
    <3>1. old(i) = k
      BY <1>1, <2>2
    <3>2. blocks[old(i)] = b
      BY <3>1
    <3> HIDE DEF old, b
    <3> QED
      BY <1>0, <1>2, <1>9, <2>2, <3>2
  <2>3. CASE i \notin {k, k + 1}
    BY <1>10, <1>11, <2>3
  <2> QED
    BY <2>1, <2>2, <2>3
<1> HIDE DEF old
<1>13. InRegion'
  <2> SUFFICES ASSUME NEW i \in Indices'
               PROVE  /\ 0 < blocks'[i].region_start
                      /\ blocks'[i].region_start <= blocks'[i].addr
                      /\ 0 < blocks'[i].size
                      /\ blocks'[i].addr + blocks'[i].size
                           <= blocks'[i].region_start + blocks'[i].region_size
                      /\ [start |-> blocks'[i].region_start, len |-> blocks'[i].region_size] \in mapped
    BY DEF InRegion, End
  <2>1. /\ 0 < blocks[old(i)].region_start
        /\ blocks[old(i)].region_start <= blocks[old(i)].addr
        /\ 0 < blocks[old(i)].size
        /\ blocks[old(i)].addr + blocks[old(i)].size
             <= blocks[old(i)].region_start + blocks[old(i)].region_size
        /\ [start |-> blocks[old(i)].region_start, len |-> blocks[old(i)].region_size] \in mapped
    BY <1>10 DEF IInv, InRegion, End
  <2> QED
    BY <1>10, <1>11, <1>12, <2>1
<1>14. BlocksDisjoint'
  <2> SUFFICES ASSUME NEW i \in Indices', NEW j \in Indices', i # j
               PROVE  \/ blocks'[i].addr + blocks'[i].size <= blocks'[j].addr
                      \/ blocks'[j].addr + blocks'[j].size <= blocks'[i].addr
    BY DEF BlocksDisjoint, End
  <2>1. CASE old(i) # old(j)
    <3>1. \/ blocks[old(i)].addr + blocks[old(i)].size <= blocks[old(j)].addr
          \/ blocks[old(j)].addr + blocks[old(j)].size <= blocks[old(i)].addr
      BY <1>10, <2>1 DEF IInv, BlocksDisjoint, End
    <3> QED
      BY <1>11, <1>12, <3>1
  <2>2. CASE old(i) = old(j)
    <3>1. (i = k /\ j = k + 1) \/ (i = k + 1 /\ j = k)
      BY <1>1, <1>6, <2>2 DEF old
    <3>2. blocks'[k].addr + blocks'[k].size <= blocks'[k + 1].addr
      BY <1>2, <1>8, <1>9
    <3> QED
      BY <3>1, <3>2
  <2> QED
    BY <2>1, <2>2
<1>15. RegionsContiguous'
  <2> SUFFICES ASSUME NEW x \in Indices', NEW y \in Indices', NEW z \in Indices',
                      x < y, y < z, blocks'[x].region_start = blocks'[z].region_start
               PROVE  blocks'[x].region_start = blocks'[y].region_start
    BY DEF RegionsContiguous, SameRegion
  <2>1. old(x) <= old(y) /\ old(y) <= old(z)
    BY <1>1, <1>6 DEF old
  <2>2. /\ old(x) \in Indices /\ old(y) \in Indices /\ old(z) \in Indices
        /\ blocks[old(x)].region_start = blocks[old(z)].region_start
    BY <1>10
  <2>3. blocks[old(x)].region_start = blocks[old(y)].region_start
    <3>1. CASE old(x) = old(y) \/ old(y) = old(z)
      BY <2>2, <3>1
    <3>2. CASE old(x) < old(y) /\ old(y) < old(z)
      BY <2>2, <3>2 DEF IInv, RegionsContiguous, SameRegion
    <3> QED
      BY <1>1, <2>1, <2>2, <3>1, <3>2 DEF Indices
  <2> QED
    BY <1>10, <2>3
<1>16. RegionsTiled'
  <2>0. \A i \in Indices :
          /\ (i = 1 \/ blocks[i - 1].region_start # blocks[i].region_start)
               => blocks[i].addr = blocks[i].region_start
          /\ IF i = n \/ blocks[i + 1].region_start # blocks[i].region_start
               THEN blocks[i].addr + blocks[i].size = blocks[i].region_start + blocks[i].region_size
               ELSE blocks[i].addr + blocks[i].size = blocks[i + 1].addr
    BY DEF IInv, RegionsTiled, SameRegion, End
  <2> SUFFICES ASSUME NEW i \in 1 .. n + 1
               PROVE  /\ (i = 1 \/ blocks'[i - 1].region_start # blocks'[i].region_start)
                           => blocks'[i].addr = blocks'[i].region_start
                      /\ IF i = n + 1 \/ blocks'[i + 1].region_start # blocks'[i].region_start
                           THEN blocks'[i].addr + blocks'[i].size
                                  = blocks'[i].region_start + blocks'[i].region_size
                           ELSE blocks'[i].addr + blocks'[i].size = blocks'[i + 1].addr
    BY <1>6 DEF RegionsTiled, SameRegion, End
  <2> DEFINE Starts(j) == j = 1 \/ blocks[j - 1].region_start # blocks[j].region_start
             Ends(j) == j = n \/ blocks[j + 1].region_start # blocks[j].region_start
  <2>1. CASE i < k
    <3>1. i \in Indices /\ blocks'[i] = blocks[i] /\ i # n /\ i # n + 1
      BY <1>1, <1>7, <2>1 DEF Indices
    <3>2. i # 1 => blocks'[i - 1] = blocks[i - 1]
      BY <1>1, <1>7, <2>1
    <3>3. /\ blocks'[i + 1].region_start = blocks[i + 1].region_start
          /\ blocks'[i + 1].addr = blocks[i + 1].addr
      <4>1. CASE i + 1 = k
        BY <1>8, <4>1
      <4>2. CASE i + 1 < k
        BY <1>1, <1>7, <2>1, <4>2
      <4> QED
        BY <1>1, <2>1, <4>1, <4>2
    <3> QED
      BY <2>0, <3>1, <3>2, <3>3
  <2>2. CASE i = k
    <3>1. i # 1 => blocks'[i - 1] = blocks[i - 1]
      BY <1>1, <1>7, <2>2
    <3>2. i # n + 1 /\ blocks'[i + 1].region_start = blocks'[i].region_start
      BY <1>1, <1>8, <1>9, <2>2
    <3>3. blocks'[i].addr + blocks'[i].size = blocks'[i + 1].addr
      BY <1>8, <1>9, <2>2
    <3>4. Starts(k) => b.addr = b.region_start
      BY <2>0
    <3> QED
      BY <1>8, <2>2, <3>1, <3>2, <3>3, <3>4
  <2>3. CASE i = k + 1
    <3>1. i - 1 = k /\ i # 1
      BY <1>1, <2>3
    <3>2. blocks'[i - 1].region_start = blocks'[i].region_start
      BY <1>8, <1>9, <2>3, <3>1
    <3>3. blocks'[i].addr + blocks'[i].size = b.addr + b.size
      <4>1. blocks'[i].addr = b.addr + b.usage /\ blocks'[i].size = b.size - b.usage
        BY <1>9, <2>3
      <4> HIDE DEF b
      <4> QED
        BY <1>2, <4>1
    <3>4. i # n + 1 => k # n /\ blocks'[i + 1] = blocks[k + 1]
      <4> SUFFICES ASSUME i # n + 1 PROVE k # n /\ blocks'[i + 1] = blocks[k + 1]
        OBVIOUS
      <4>1. k # n /\ i + 1 \in k + 2 .. n + 1 /\ (i + 1) - 1 = k + 1
        BY <1>1, <2>3
      <4> QED
        BY <1>7, <4>1
    <3>5. i = n + 1 => k = n
      BY <1>1, <2>3
    <3>6. IF Ends(k) THEN b.addr + b.size = b.region_start + b.region_size
                     ELSE b.addr + b.size = blocks[k + 1].addr
      BY <2>0
    <3> QED
      BY <1>9, <2>3, <3>1, <3>2, <3>3, <3>4, <3>5, <3>6
  <2>4. CASE i > k + 1
    <3> DEFINE j == i - 1
    <3>1. j \in Indices /\ j # 1 /\ blocks'[i] = blocks[j]
      BY <1>1, <1>7, <2>4 DEF Indices
    <3>2. blocks'[i - 1].region_start = blocks[j - 1].region_start
      <4>1. CASE j = k + 1
        BY <1>1, <1>9, <4>1
      <4>2. CASE j > k + 1
        <5>1. j \in k + 2 .. n + 1
          BY <1>1, <4>2
        <5> QED
          BY <1>7, <5>1
      <4> QED
        BY <1>1, <2>4, <4>1, <4>2
    <3>3. i # n + 1 => j # n /\ blocks'[i + 1] = blocks[j + 1]
      <4> SUFFICES ASSUME i # n + 1 PROVE j # n /\ blocks'[i + 1] = blocks[j + 1]
        OBVIOUS
      <4>1. j # n /\ i + 1 \in k + 2 .. n + 1 /\ (i + 1) - 1 = j + 1
        BY <1>1, <2>4
      <4>2. blocks'[i + 1] = blocks[(i + 1) - 1]
        BY <1>7, <4>1
      <4> QED
        BY <4>1, <4>2
    <3>4. i = n + 1 => j = n
      BY <1>1, <2>4
    <3>5. i # 1
      BY <1>1, <2>4
    <3> HIDE DEF j
    <3>6. /\ Starts(j) => blocks[j].addr = blocks[j].region_start
          /\ IF Ends(j) THEN blocks[j].addr + blocks[j].size
                               = blocks[j].region_start + blocks[j].region_size
                        ELSE blocks[j].addr + blocks[j].size = blocks[j + 1].addr
      BY <2>0, <3>1
    <3> QED
      BY <3>1, <3>2, <3>3, <3>4, <3>5, <3>6
  <2> QED
    BY <1>1, <2>1, <2>2, <2>3, <2>4
<1>17. MappingsDisjoint'
  BY DEF MappingsDisjoint, IInv
<1>18. TypeOK'
  <2>1. ret' \in Nat
    BY <1>0, <1>2 DEF split
  <2> QED
    BY <1>1, <1>6, <2>1 DEF TypeOK
<1>19. BlocksFit'
  <2> SUFFICES ASSUME NEW i \in Indices'
               PROVE  blocks'[i].usage <= blocks'[i].size /\ (blocks'[i].usage # 0 => blocks'[i].usage >= HDR)
    BY DEF BlocksFit, InUse
  <2>1. \A j \in Indices : blocks[j].usage <= blocks[j].size /\ (blocks[j].usage # 0 => blocks[j].usage >= HDR)
    BY DEF IInv, BlocksFit, InUse
  <2>2. CASE i = k
    BY <1>2, <1>8, <2>1, <2>2
  <2>3. CASE i = k + 1
    BY <1>2, <1>9, <2>3
  <2>4. CASE i \notin {k, k + 1}
    BY <1>10, <2>1, <2>4
  <2> QED
    BY <2>2, <2>3, <2>4
<1>20. NoIdleRegion'
  <2> SUFFICES ASSUME NEW i \in Indices'
               PROVE  \E j \in Indices' : blocks'[i].region_start = blocks'[j].region_start
                                        /\ blocks'[j].usage # 0
    BY DEF NoIdleRegion, SameRegion, InUse
  <2>1. PICK j \in Indices : blocks[old(i)].region_start = blocks[j].region_start
                            /\ blocks[j].usage # 0
    BY <1>10 DEF IInv, NoIdleRegion, SameRegion, InUse
  <2>2. CASE j < k
    <3>1. j \in Indices' /\ j \in 1 .. k - 1
      BY <1>1, <1>6, <2>2 DEF Indices
    <3>2. blocks'[j] = blocks[j]
      BY <1>7, <3>1
    <3> QED
      BY <1>10, <2>1, <3>1, <3>2
  <2>3. CASE j = k
    <3>1. k \in Indices'
      BY <1>1, <1>6
    <3> QED
      BY <1>8, <1>10, <2>1, <2>3, <3>1
  <2>4. CASE j > k
    <3>1. j + 1 \in Indices' /\ blocks'[j + 1] = blocks[j]
      <4>1. j + 1 \in k + 2 .. n + 1 /\ (j + 1) - 1 = j
        BY <1>1, <2>4 DEF Indices
      <4> QED
        BY <1>1, <1>6, <1>7, <4>1
    <3> QED
      BY <1>10, <2>1, <3>1
  <2> QED
    BY <1>1, <2>2, <2>3, <2>4 DEF Indices
<1>21. \A i \in Indices' : IF i = k + 1 THEN blocks'[i].alloc_id = g_allocations
                            ELSE blocks'[i].alloc_id = blocks[old(i)].alloc_id
  <2> SUFFICES ASSUME NEW i \in Indices'
               PROVE  IF i = k + 1 THEN blocks'[i].alloc_id = g_allocations
                      ELSE blocks'[i].alloc_id = blocks[old(i)].alloc_id
    OBVIOUS
  <2>1. CASE i = k + 1
    BY <1>9, <2>1
  <2>2. CASE i = k
    <3>1. old(i) = k /\ k # k + 1
      BY <1>1, <2>2 DEF old
    <3> QED
      BY <1>8, <2>2, <3>1
  <2>3. CASE i \notin {k, k + 1}
    BY <1>10, <2>3
  <2> QED
    BY <2>1, <2>2, <2>3
<1>22. \A i \in Indices : blocks[i].alloc_id \in Nat /\ blocks[i].alloc_id < g_allocations
  BY <1>1, BlockFields DEF IInv, IdsIssued
<1>23. IdsIssued'
  <2> SUFFICES ASSUME NEW i \in Indices' PROVE blocks'[i].alloc_id < g_allocations + 1
    BY DEF IdsIssued
  <2>1. old(i) \in Indices
    BY <1>10
  <2>2. blocks[old(i)].alloc_id \in Nat /\ blocks[old(i)].alloc_id < g_allocations
    BY <1>22, <2>1
  <2>3. blocks'[i].alloc_id = g_allocations \/ blocks'[i].alloc_id = blocks[old(i)].alloc_id
    BY <1>21
  <2> QED
    BY <1>1, <2>2, <2>3
<1>24. UniqueIds'
  <2> SUFFICES ASSUME NEW i \in Indices', NEW j \in Indices',
                      blocks'[i].alloc_id = blocks'[j].alloc_id
               PROVE  i = j
    BY DEF UniqueIds
  <2>1. (i = k + 1) <=> (j = k + 1)
    <3>1. \A x \in Indices' : x # k + 1 => blocks'[x].alloc_id # g_allocations
      <4> SUFFICES ASSUME NEW x \in Indices', x # k + 1
                   PROVE  blocks'[x].alloc_id # g_allocations
        OBVIOUS
      <4>1. old(x) \in Indices /\ blocks'[x].alloc_id = blocks[old(x)].alloc_id
        BY <1>10, <1>21
      <4>2. blocks[old(x)].alloc_id \in Nat /\ blocks[old(x)].alloc_id < g_allocations
        BY <1>22, <4>1
      <4> QED
        BY <1>1, <4>1, <4>2
    <3> QED
      BY <1>21, <3>1
  <2>2. CASE i # k + 1
    <3>1. old(i) = old(j)
      BY <1>10, <1>21, <2>1, <2>2 DEF IInv, UniqueIds
    <3> QED
      BY <1>1, <1>6, <2>1, <2>2, <3>1 DEF old
  <2> QED
    BY <2>1, <2>2
<1> QED
  BY <1>13, <1>14, <1>15, <1>16, <1>17, <1>18, <1>19, <1>20, <1>23, <1>24 DEF IInv

-----------------------------------------------------------------------------
(***************************************************************************)
(* Mapping a new region.                                                   *)
(***************************************************************************)

LEMMA MapRegionPreserves ==
  ASSUME IInv, NEW base \in Bases, NEW size,
         RealSize(size) \in Nat, RealSize(size) >= HDR,
         RegionSize(RealSize(size)) \in Nat,
         RegionSize(RealSize(size)) >= RealSize(size),
         map_region(base, size),
         g_allocations' = g_allocations + 1,
         fault' \in BOOLEAN, asked' \in Nat, arg' \in Nat, op' \in Calls
  PROVE  IInv'
<1> DEFINE r == RealSize(size)
           s == RegionSize(r)
           n == Len(blocks)
           new == Header(base, g_allocations, s, r, base, s)
           reg == [start |-> base, len |-> s]
<1>0. /\ HDR \in Nat /\ HDR > 0 /\ base \in Nat /\ base > 0
      /\ r \in Nat /\ r >= HDR /\ s \in Nat /\ s >= r
  BY SizesAssumption, BasesAssumption
<1>1. /\ TypeOK /\ blocks \in Seq(Block) /\ n \in Nat /\ g_allocations \in Nat
      /\ Indices = 1 .. n
  BY DEF IInv, TypeOK, Indices
<1>2. /\ s > 0 /\ base + s <= AddrLimit
      /\ \A m \in mapped : m.start + m.len <= base \/ base + s <= m.start
      /\ mapped' = mapped \cup {reg}
      /\ blocks' = LinkAfter(n, new)
      /\ ret' = base + HDR
  BY DEF map_region, mmap
<1>3. /\ new \in Block /\ new.addr = base /\ new.alloc_id = g_allocations /\ new.size = s
      /\ new.usage = r /\ new.region_start = base /\ new.region_size = s
  <2> HIDE DEF r, s
  <2> QED
    BY <1>0, <1>1 DEF Header, Block
<1>4. reg \in Region /\ reg.start = base /\ reg.len = s
  <2> HIDE DEF s
  <2> QED
    BY <1>0 DEF Region
<1> HIDE DEF r, s, new, reg
<1>5. /\ blocks' \in Seq(Block) /\ Len(blocks') = n + 1 /\ Indices' = 1 .. n + 1
      /\ \A i \in Indices : blocks'[i] = blocks[i]
      /\ blocks'[n + 1] = new
  <2>1. n \in 0 .. n
    BY <1>1
  <2>2. /\ blocks' \in [1 .. n + 1 -> Block]
        /\ \A i \in 1 .. n : blocks'[i] = blocks[i]
        /\ blocks'[n + 1] = new
    BY <1>1, <1>2, <1>3, <2>1, LinkAfterFacts
  <2>3. n + 1 \in Nat
    BY <1>1
  <2>4. blocks' \in Seq(Block) /\ Len(blocks') = n + 1
    BY <2>2, <2>3, FunctionIsSequence
  <2> QED
    BY <1>1, <2>2, <2>4 DEF Indices
<1>6. \A i \in Indices' : i \in Indices \/ i = n + 1
  BY <1>1, <1>5
<1>7. \A i \in Indices : i \in Indices' /\ i # n + 1
  BY <1>1, <1>5
<1>8. \A i \in Indices :
        /\ blocks[i].addr \in Nat /\ blocks[i].size \in Nat
        /\ blocks[i].usage \in Nat /\ blocks[i].alloc_id \in Nat
        /\ blocks[i].region_start \in Nat /\ blocks[i].region_size \in Nat
  BY <1>1, BlockFields
<1>9. \A i \in Indices :
        /\ 0 < blocks[i].region_start
        /\ blocks[i].region_start <= blocks[i].addr
        /\ 0 < blocks[i].size
        /\ blocks[i].addr + blocks[i].size <= blocks[i].region_start + blocks[i].region_size
        /\ [start |-> blocks[i].region_start, len |-> blocks[i].region_size] \in mapped
  BY DEF IInv, InRegion, End
<1>10. \A i \in Indices :
         /\ \/ blocks[i].region_start + blocks[i].region_size <= base
            \/ base + s <= blocks[i].region_start
         /\ blocks[i].region_start # base
  <2> SUFFICES ASSUME NEW i \in Indices
               PROVE  /\ \/ blocks[i].region_start + blocks[i].region_size <= base
                         \/ base + s <= blocks[i].region_start
                      /\ blocks[i].region_start # base
    OBVIOUS
  <2> DEFINE m == [start |-> blocks[i].region_start, len |-> blocks[i].region_size]
  <2>1. m.start + m.len <= base \/ base + s <= m.start
    BY <1>2, <1>9
  <2>2. \/ blocks[i].region_start + blocks[i].region_size <= base
        \/ base + s <= blocks[i].region_start
    BY <2>1
  <2>3. blocks[i].region_size > 0
    <3>1. /\ blocks[i].addr \in Nat /\ blocks[i].size \in Nat
          /\ blocks[i].region_start \in Nat /\ blocks[i].region_size \in Nat
      BY <1>8
    <3>2. /\ blocks[i].region_start <= blocks[i].addr
          /\ 0 < blocks[i].size
          /\ blocks[i].addr + blocks[i].size <= blocks[i].region_start + blocks[i].region_size
      BY <1>9
    <3> QED
      BY <3>1, <3>2
  <2> QED
    BY <1>0, <1>2, <1>8, <2>2, <2>3
<1>11. InRegion'
  <2> SUFFICES ASSUME NEW i \in Indices'
               PROVE  /\ 0 < blocks'[i].region_start
                      /\ blocks'[i].region_start <= blocks'[i].addr
                      /\ 0 < blocks'[i].size
                      /\ blocks'[i].addr + blocks'[i].size
                           <= blocks'[i].region_start + blocks'[i].region_size
                      /\ [start |-> blocks'[i].region_start, len |-> blocks'[i].region_size] \in mapped'
    BY DEF InRegion, End
  <2>1. CASE i \in Indices
    BY <1>2, <1>5, <1>9, <2>1
  <2>2. CASE i = n + 1
    BY <1>0, <1>2, <1>3, <1>5, <2>2 DEF reg
  <2> QED
    BY <1>6, <2>1, <2>2
<1>12. BlocksDisjoint'
  <2>1. \A i \in Indices : blocks[i].addr + blocks[i].size <= new.addr
                           \/ new.addr + new.size <= blocks[i].addr
    <3> SUFFICES ASSUME NEW i \in Indices
                 PROVE  blocks[i].addr + blocks[i].size <= base \/ base + s <= blocks[i].addr
      BY <1>3
    <3>1. /\ blocks[i].addr \in Nat /\ blocks[i].size \in Nat
          /\ blocks[i].region_start \in Nat /\ blocks[i].region_size \in Nat
      BY <1>8
    <3>2. /\ blocks[i].region_start <= blocks[i].addr
          /\ blocks[i].addr + blocks[i].size <= blocks[i].region_start + blocks[i].region_size
      BY <1>9
    <3>3. \/ blocks[i].region_start + blocks[i].region_size <= base
          \/ base + s <= blocks[i].region_start
      BY <1>10
    <3> QED
      BY <1>0, <3>1, <3>2, <3>3
  <2> SUFFICES ASSUME NEW i \in Indices', NEW j \in Indices', i # j
               PROVE  \/ blocks'[i].addr + blocks'[i].size <= blocks'[j].addr
                      \/ blocks'[j].addr + blocks'[j].size <= blocks'[i].addr
    BY DEF BlocksDisjoint, End
  <2>2. CASE i \in Indices /\ j \in Indices
    BY <1>5, <2>2 DEF IInv, BlocksDisjoint, End
  <2>3. CASE i \in Indices /\ j = n + 1
    BY <1>5, <2>1, <2>3
  <2>4. CASE i = n + 1 /\ j \in Indices
    BY <1>5, <2>1, <2>4
  <2> QED
    BY <1>6, <2>2, <2>3, <2>4
<1>13. RegionsContiguous'
  <2> SUFFICES ASSUME NEW x \in Indices', NEW y \in Indices', NEW z \in Indices',
                      x < y, y < z, blocks'[x].region_start = blocks'[z].region_start
               PROVE  blocks'[x].region_start = blocks'[y].region_start
    BY DEF RegionsContiguous, SameRegion
  <2>1. x \in Indices /\ y \in Indices
    BY <1>1, <1>5
  <2>2. z \in Indices
    BY <1>3, <1>5, <1>6, <1>10, <2>1
  <2> QED
    BY <1>5, <2>1, <2>2 DEF IInv, RegionsContiguous, SameRegion
<1>14. RegionsTiled'
  <2>0. \A i \in Indices :
          /\ (i = 1 \/ blocks[i - 1].region_start # blocks[i].region_start)
               => blocks[i].addr = blocks[i].region_start
          /\ IF i = n \/ blocks[i + 1].region_start # blocks[i].region_start
               THEN blocks[i].addr + blocks[i].size = blocks[i].region_start + blocks[i].region_size
               ELSE blocks[i].addr + blocks[i].size = blocks[i + 1].addr
    BY DEF IInv, RegionsTiled, SameRegion, End
  <2> SUFFICES ASSUME NEW i \in 1 .. n + 1
               PROVE  /\ (i = 1 \/ blocks'[i - 1].region_start # blocks'[i].region_start)
                           => blocks'[i].addr = blocks'[i].region_start
                      /\ IF i = n + 1 \/ blocks'[i + 1].region_start # blocks'[i].region_start
                           THEN blocks'[i].addr + blocks'[i].size
                                  = blocks'[i].region_start + blocks'[i].region_size
                           ELSE blocks'[i].addr + blocks'[i].size = blocks'[i + 1].addr
    BY <1>5 DEF RegionsTiled, SameRegion, End
  <2>1. CASE i = n + 1
    BY <1>3, <1>5, <2>1
  <2>2. CASE i = n
    <3>1. n \in Indices /\ blocks'[n] = blocks[n] /\ n # n + 1
      BY <1>1, <1>5, <2>2
    <3>2. blocks'[n + 1].region_start # blocks'[n].region_start
      BY <1>3, <1>5, <1>10, <3>1
    <3>3. n # 1 => blocks'[n - 1] = blocks[n - 1]
      <4>0. n \in Nat /\ n >= 1 /\ Indices = 1 .. n
        BY <1>1, <3>1
      <4>1. n # 1 => n - 1 \in Indices
        <5> HIDE DEF n
        <5> QED
          BY <4>0
      <4> QED
        BY <1>5, <4>1
    <3>4. /\ (n = 1 \/ blocks[n - 1].region_start # blocks[n].region_start)
               => blocks[n].addr = blocks[n].region_start
          /\ blocks[n].addr + blocks[n].size = blocks[n].region_start + blocks[n].region_size
      BY <2>0, <3>1
    <3> QED
      BY <2>2, <3>1, <3>2, <3>3, <3>4
  <2>3. CASE i < n
    <3>1. i \in Indices /\ i + 1 \in Indices /\ i # n /\ i # n + 1
      BY <1>1, <2>3
    <3>2. i # 1 => i - 1 \in Indices
      BY <1>1, <2>3
    <3> QED
      BY <1>5, <2>0, <3>1, <3>2
  <2> QED
    BY <1>1, <2>1, <2>2, <2>3
<1>15. MappingsDisjoint'
  <2>1. \A m \in mapped : m.start \in Nat /\ m.len \in Nat
    BY <1>1 DEF TypeOK, Region
  <2> SUFFICES ASSUME NEW m \in mapped', NEW q \in mapped'
               PROVE  /\ 0 < m.len
                      /\ m.start + m.len <= AddrLimit
                      /\ m = q \/ m.start + m.len <= q.start \/ q.start + q.len <= m.start
    BY DEF MappingsDisjoint
  <2>2. CASE m \in mapped /\ q \in mapped
    BY <2>2 DEF IInv, MappingsDisjoint
  <2>3. CASE m \in mapped /\ q = reg
    BY <1>2, <1>4, <2>3 DEF IInv, MappingsDisjoint
  <2>4. CASE m = reg
    BY <1>2, <1>4, <2>4
  <2> QED
    BY <1>2, <2>2, <2>3, <2>4
<1>16. TypeOK'
  <2>1. ret' \in Nat /\ g_allocations' \in Nat
    BY <1>0, <1>1, <1>2
  <2>2. mapped' \in SUBSET Region
    BY <1>1, <1>2, <1>4 DEF TypeOK
  <2> QED
    BY <1>5, <2>1, <2>2 DEF TypeOK
<1>17. BlocksFit'
  <2>1. \A i \in Indices' : blocks'[i].usage <= blocks'[i].size
                           /\ (blocks'[i].usage # 0 => blocks'[i].usage >= HDR)
    BY <1>0, <1>3, <1>5, <1>6 DEF IInv, BlocksFit, InUse
  <2> QED
    BY <2>1 DEF BlocksFit, InUse
<1>18. NoIdleRegion'
  <2> SUFFICES ASSUME NEW i \in Indices'
               PROVE  \E j \in Indices' : blocks'[i].region_start = blocks'[j].region_start
                                        /\ blocks'[j].usage # 0
    BY DEF NoIdleRegion, SameRegion, InUse
  <2>1. CASE i = n + 1
    BY <1>0, <1>3, <1>5, <2>1
  <2>2. CASE i \in Indices
    <3>1. PICK j \in Indices : blocks[i].region_start = blocks[j].region_start
                              /\ blocks[j].usage # 0
      BY <2>2 DEF IInv, NoIdleRegion, SameRegion, InUse
    <3> QED
      BY <1>5, <1>7, <2>2, <3>1
  <2> QED
    BY <1>6, <2>1, <2>2
<1>19. \A i \in Indices : blocks[i].alloc_id < g_allocations /\ blocks[i].alloc_id # g_allocations
  BY <1>1, <1>8 DEF IInv, IdsIssued
<1>20. UniqueIds'
  <2> SUFFICES ASSUME NEW i \in Indices', NEW j \in Indices',
                      blocks'[i].alloc_id = blocks'[j].alloc_id
               PROVE  i = j
    BY DEF UniqueIds
  <2>1. CASE i \in Indices /\ j \in Indices
    BY <1>5, <2>1 DEF IInv, UniqueIds
  <2>2. CASE i = n + 1 \/ j = n + 1
    BY <1>3, <1>5, <1>6, <1>19, <2>2
  <2> QED
    BY <1>6, <2>1, <2>2
<1>21. IdsIssued'
  <2>1. ASSUME NEW i \in Indices'
        PROVE  blocks'[i].alloc_id < g_allocations + 1
    <3>1. CASE i = n + 1
      BY <1>1, <1>3, <1>5, <3>1
    <3>2. CASE i \in Indices
      <4>1. blocks'[i].alloc_id < g_allocations /\ blocks'[i].alloc_id \in Nat
        BY <1>5, <1>8, <1>19, <3>2
      <4> QED
        BY <1>1, <4>1
    <3> QED
      BY <1>6, <3>1, <3>2
  <2> QED
    BY <2>1 DEF IdsIssued
<1> QED
  BY <1>11, <1>12, <1>13, <1>14, <1>15, <1>16, <1>17, <1>18, <1>20, <1>21 DEF IInv

-----------------------------------------------------------------------------
(***************************************************************************)
(* free(): the walk over a region.                                         *)
(***************************************************************************)

(* The walk from the region's start to the first block of another region   *)
(* visits exactly the blocks of the region.                                *)
LEMMA WalkVisitsRegion ==
  ASSUME IInv, NEW i \in Indices
  PROVE  /\ RegionHead(i) \in Indices
         /\ RegionEnd(i) \in RegionHead(i) + 1 .. Len(blocks) + 1
         /\ \A j \in Indices : SameRegion(blocks[j], blocks[i]) <=> j \in RegionBlocks(i)
<1> DEFINE n == Len(blocks)
           Same(j) == blocks[j].region_start = blocks[i].region_start
           S == {j \in Indices : Same(j)}
<1>1. TypeOK /\ n \in Nat /\ Indices = 1 .. n
  BY DEF IInv, TypeOK, Indices
<1>2. PICK a \in S : \A j \in S : a <= j
  <2>1. S \in SUBSET Nat /\ i \in S
    BY <1>1
  <2> QED
    BY <2>1, LeastNatural
<1>3. a \in Indices /\ a \in 1 .. n /\ Same(a)
  BY <1>1, <1>2
<1>4. blocks[a].addr = blocks[a].region_start
  <2>1. a = 1 \/ a - 1 \notin S
    BY <1>1, <1>2, <1>3
  <2>2. a = 1 \/ a - 1 \in Indices
    BY <1>1, <1>3
  <2>3. a = 1 \/ blocks[a - 1].region_start # blocks[a].region_start
    BY <1>3, <2>1, <2>2
  <2> QED
    BY <1>3, <2>3 DEF IInv, RegionsTiled, SameRegion
<1>5. \A x \in Indices : blocks[x].addr = blocks[i].region_start => x = a
  <2> SUFFICES ASSUME NEW x \in Indices, blocks[x].addr = blocks[i].region_start, x # a
               PROVE  FALSE
    OBVIOUS
  <2>1. /\ blocks[x].addr \in Nat /\ blocks[x].size \in Nat
        /\ blocks[a].addr \in Nat /\ blocks[a].size \in Nat
    BY <1>1, <1>3, BlockFields
  <2>2. 0 < blocks[x].size /\ 0 < blocks[a].size
    BY <1>3 DEF IInv, InRegion
  <2>3. \/ blocks[x].addr + blocks[x].size <= blocks[a].addr
        \/ blocks[a].addr + blocks[a].size <= blocks[x].addr
    BY <1>3 DEF IInv, BlocksDisjoint, End
  <2>4. blocks[x].addr = blocks[a].addr
    BY <1>3, <1>4
  <2> QED
    BY <2>1, <2>2, <2>3, <2>4
<1>6. RegionHead(i) = a
  <2>1. \E x \in Indices : blocks[x].addr = blocks[i].region_start
    BY <1>3, <1>4
  <2>2. RegionHead(i) \in Indices /\ blocks[RegionHead(i)].addr = blocks[i].region_start
    BY <2>1 DEF RegionHead
  <2> QED
    BY <1>5, <2>2
<1> DEFINE T == {j \in a .. n + 1 : j = n + 1 \/ ~ Same(j)}
           P(x) == /\ \A j \in a .. x - 1 : SameRegion(blocks[j], blocks[i])
                   /\ x <= n => ~ SameRegion(blocks[x], blocks[i])
           e == RegionEnd(i)
<1>7. e \in a .. n + 1 /\ P(e)
  <2>1. T \in SUBSET Nat /\ n + 1 \in T
    BY <1>1, <1>3
  <2>2. PICK x \in T : \A y \in T : x <= y
    BY <2>1, LeastNatural
  <2>3. x \in a .. n + 1
    OBVIOUS
  <2>4. ASSUME NEW j \in a .. x - 1 PROVE SameRegion(blocks[j], blocks[i])
    <3>1. j \in a .. n + 1 /\ ~ (x <= j) /\ j # n + 1
      BY <1>1, <1>3, <2>3
    <3> QED
      BY <2>2, <3>1 DEF SameRegion
  <2>5. x <= n => ~ SameRegion(blocks[x], blocks[i])
    BY <1>1, <1>3, <2>2, <2>3 DEF SameRegion
  <2>6. \E y \in a .. n + 1 : P(y)
    BY <2>3, <2>4, <2>5
  <2> QED
    BY <1>6, <2>6 DEF RegionEnd
<1> HIDE DEF e
<1>8. e # a
  <2>1. a <= n
    BY <1>1, <1>3
  <2> QED
    BY <1>3, <1>7, <2>1 DEF SameRegion
<1>9. e \in a + 1 .. n + 1
  BY <1>1, <1>3, <1>7, <1>8
<1>10. ASSUME NEW j \in Indices PROVE Same(j) <=> j \in a .. e - 1
  <2>1. CASE j < a
    <3>1. ~ (a <= j)
      BY <1>1, <1>3, <2>1
    <3> QED
      BY <1>1, <1>2, <1>3, <1>9, <2>1, <3>1
  <2>2. CASE j \in a .. e - 1
    BY <1>7, <2>2 DEF SameRegion
  <2>3. CASE j >= e
    <3>1. e <= n /\ e \in Indices /\ a < e /\ j \notin a .. e - 1
      BY <1>1, <1>3, <1>9, <2>3
    <3>2. ~ Same(e)
      BY <1>7, <3>1 DEF SameRegion
    <3>3. CASE j = e
      BY <3>1, <3>2, <3>3
    <3>4. CASE e < j
      <4>1. ASSUME Same(j) PROVE FALSE
        <5>1. blocks[a].region_start = blocks[j].region_start
          BY <1>3, <4>1
        <5>2. blocks[a].region_start = blocks[e].region_start
          BY <1>3, <3>1, <3>4, <5>1 DEF IInv, RegionsContiguous, SameRegion
        <5> QED
          BY <1>3, <3>2, <5>2
      <4> QED
        BY <3>1, <4>1
    <3> QED
      BY <1>1, <1>9, <2>3, <3>3, <3>4
  <2> QED
    BY <1>1, <1>3, <1>9, <2>1, <2>2, <2>3
<1> QED
  BY <1>3, <1>6, <1>9, <1>10 DEF RegionBlocks, SameRegion, e

(* Where block k of the chain was before the region of block i left it. *)
Kept(i, k) ==
  IF k < RegionHead(i) THEN k ELSE k + (RegionEnd(i) - RegionHead(i))

(* The chain after the region of block i left it. *)
LEMMA UnlinkShape ==
  ASSUME IInv, NEW i \in Indices, blocks' = Unlinked(i)
  PROVE  /\ blocks' \in Seq(Block)
         /\ Len(blocks') = Len(blocks) - (RegionEnd(i) - RegionHead(i))
         /\ \A k \in Indices' : /\ Kept(i, k) \in Indices
                                /\ blocks'[k] = blocks[Kept(i, k)]
                                /\ blocks[Kept(i, k)].region_start # blocks[i].region_start
         /\ \A x, y \in Indices' : x < y => Kept(i, x) < Kept(i, y)
         /\ \A x, y \in Indices' : Kept(i, x) = Kept(i, y) => x = y
         /\ \A j \in Indices : blocks[j].region_start # blocks[i].region_start
                                 => \E k \in Indices' : Kept(i, k) = j
<1> DEFINE n == Len(blocks)
           h == RegionHead(i)
           e == RegionEnd(i)
           m == e - h
           old(k) == IF k < h THEN k ELSE k + m
           start(k) == blocks[k].region_start
<1>1. TypeOK /\ n \in Nat /\ Indices = 1 .. n /\ blocks \in Seq(Block)
  BY DEF IInv, TypeOK, Indices
<1>2. /\ h \in 1 .. n /\ e \in h + 1 .. n + 1
      /\ \A j \in Indices : start(j) = start(i) <=> j \in h .. e - 1
  BY <1>1, WalkVisitsRegion DEF RegionBlocks, SameRegion
<1>3. blocks' = [k \in 1 .. n - m |-> IF k < h THEN blocks[k] ELSE blocks[k + m]]
  BY DEF Unlinked
<1> HIDE DEF h, e, n
<1>4. /\ h \in Nat /\ e \in Nat /\ n \in Nat /\ m \in Nat /\ n - m \in Nat
      /\ 1 <= h /\ h < e /\ e <= n + 1 /\ e = h + m
  BY <1>1, <1>2
<1> HIDE DEF m
<1>5. \A k \in 1 .. n - m : old(k) \in Indices /\ ~ (old(k) \in h .. e - 1)
  BY <1>1, <1>4
<1>6. blocks' \in [1 .. n - m -> Block]
  <2>1. \A k \in 1 .. n - m : (IF k < h THEN blocks[k] ELSE blocks[k + m]) \in Block
    <3> SUFFICES ASSUME NEW k \in 1 .. n - m
                 PROVE  (IF k < h THEN blocks[k] ELSE blocks[k + m]) \in Block
      OBVIOUS
    <3>1. old(k) \in Indices
      BY <1>5
    <3>2. blocks[old(k)] \in Block
      BY <1>1, <3>1, BlockFields
    <3> QED
      BY <3>2
  <2> QED
    BY <1>3, <2>1
<1>7. blocks' \in Seq(Block) /\ Len(blocks') = n - m /\ Indices' = 1 .. n - m
  <2>1. blocks' \in Seq(Block) /\ Len(blocks') = n - m
    BY <1>4, <1>6, FunctionIsSequence
  <2> QED
    BY <2>1 DEF Indices
<1>8. \A k \in Indices' : /\ old(k) \in Indices
                          /\ blocks'[k] = blocks[old(k)]
                          /\ start(old(k)) # start(i)
  <2>1. \A k \in 1 .. n - m : blocks'[k] = blocks[old(k)]
    BY <1>3
  <2> QED
    BY <1>2, <1>5, <1>7, <2>1
<1>9. \A x, y \in Indices' : x < y => old(x) < old(y)
  BY <1>4, <1>7
<1>10. \A x, y \in Indices' : old(x) = old(y) => x = y
  BY <1>4, <1>7
<1>11. \A j \in Indices : start(j) # start(i) => \E k \in Indices' : old(k) = j
  <2> SUFFICES ASSUME NEW j \in Indices, start(j) # start(i)
               PROVE  \E k \in Indices' : old(k) = j
    OBVIOUS
  <2>1. j < h \/ j >= e
    BY <1>1, <1>2, <1>4
  <2>2. CASE j < h
    <3>1. j \in Indices' /\ old(j) = j
      BY <1>1, <1>4, <1>7, <2>2
    <3> QED
      BY <3>1
  <2>3. CASE j >= e
    <3>1. j - m \in Indices' /\ old(j - m) = j
      BY <1>1, <1>4, <1>7, <2>3
    <3> QED
      BY <3>1
  <2> QED
    BY <2>1, <2>2, <2>3
<1> QED
  BY <1>7, <1>8, <1>9, <1>10, <1>11 DEF Kept, old, h, e, m, n

(* free() of the last block of a region that is in use. *)
LEMMA UnlinkPreserves ==
  ASSUME IInv, NEW i \in Indices,
         blocks' = Unlinked(i),
         \/ mapped' = mapped \ {[start |-> blocks[i].region_start,
                                 len   |-> blocks[i].region_size]}
         \/ mapped' = mapped,
         ret' = NULL, asked' \in Nat, arg' \in Nat, op' \in Calls,
         UNCHANGED <<g_allocations, fault>>
  PROVE  IInv'
<1> DEFINE n == Len(blocks)
           h == RegionHead(i)
           e == RegionEnd(i)
           m == e - h
           old(k) == IF k < h THEN k ELSE k + m
           start(k) == blocks[k].region_start
<1>1. TypeOK /\ n \in Nat /\ Indices = 1 .. n /\ blocks \in Seq(Block)
  BY DEF IInv, TypeOK, Indices
<1>2. /\ h \in 1 .. n /\ e \in h + 1 .. n + 1
      /\ \A j \in Indices : start(j) = start(i) <=> j \in h .. e - 1
  BY <1>1, WalkVisitsRegion DEF RegionBlocks, SameRegion
<1>7. blocks' \in Seq(Block) /\ Len(blocks') = n - m /\ Indices' = 1 .. n - m
  BY UnlinkShape DEF Indices
<1>8. \A k \in Indices' : /\ old(k) \in Indices
                          /\ blocks'[k] = blocks[old(k)]
                          /\ start(old(k)) # start(i)
  BY UnlinkShape DEF Kept
<1>9. \A x, y \in Indices' : x < y => old(x) < old(y)
  BY UnlinkShape DEF Kept
<1>10. \A x, y \in Indices' : old(x) = old(y) => x = y
  BY UnlinkShape DEF Kept
<1>11. \A j \in Indices : start(j) # start(i) => \E k \in Indices' : old(k) = j
  BY UnlinkShape DEF Kept
<1> HIDE DEF h, e, n
<1>4. /\ h \in Nat /\ e \in Nat /\ n \in Nat /\ m \in Nat /\ n - m \in Nat
      /\ 1 <= h /\ h < e /\ e <= n + 1 /\ e = h + m
  BY <1>1, <1>2
<1> HIDE DEF m
<1> HIDE DEF old
<1>12. mapped' \subseteq mapped
  OBVIOUS
<1>13. InRegion'
  <2> SUFFICES ASSUME NEW k \in Indices'
               PROVE  /\ 0 < blocks'[k].region_start
                      /\ blocks'[k].region_start <= blocks'[k].addr
                      /\ 0 < blocks'[k].size
                      /\ End(blocks'[k]) <= blocks'[k].region_start + blocks'[k].region_size
                      /\ [start |-> blocks'[k].region_start, len |-> blocks'[k].region_size] \in mapped'
    BY DEF InRegion, End
  <2> DEFINE c == blocks[old(k)]
             reg == [start |-> c.region_start, len |-> c.region_size]
  <2>1. blocks'[k] = c /\ c.region_start # start(i)
    BY <1>8
  <2>2. /\ 0 < c.region_start /\ c.region_start <= c.addr /\ 0 < c.size
        /\ End(c) <= c.region_start + c.region_size
        /\ reg \in mapped
    BY <1>8 DEF IInv, InRegion
  <2>3. reg # [start |-> blocks[i].region_start, len |-> blocks[i].region_size]
    <3>1. reg.start # [start |-> blocks[i].region_start, len |-> blocks[i].region_size].start
      BY <2>1
    <3> QED
      BY <3>1
  <2>4. reg \in mapped'
    BY <2>2, <2>3
  <2> QED
    BY <2>1, <2>2, <2>4
<1>14. BlocksDisjoint'
  <2> SUFFICES ASSUME NEW x \in Indices', NEW y \in Indices', x # y
               PROVE  \/ End(blocks'[x]) <= blocks'[y].addr
                      \/ End(blocks'[y]) <= blocks'[x].addr
    BY DEF BlocksDisjoint, End
  <2>1. old(x) # old(y)
    BY <1>10
  <2>2. \/ End(blocks[old(x)]) <= blocks[old(y)].addr
        \/ End(blocks[old(y)]) <= blocks[old(x)].addr
    BY <1>8, <2>1 DEF IInv, BlocksDisjoint
  <2> QED
    BY <1>8, <2>2
<1>15. RegionsContiguous'
  <2> SUFFICES ASSUME NEW x \in Indices', NEW y \in Indices', NEW z \in Indices',
                      x < y, y < z, blocks'[x].region_start = blocks'[z].region_start
               PROVE  blocks'[x].region_start = blocks'[y].region_start
    BY DEF RegionsContiguous, SameRegion
  <2>1. old(x) < old(y) /\ old(y) < old(z)
    BY <1>9
  <2>2. start(old(x)) = start(old(z))
    BY <1>8
  <2>3. start(old(x)) = start(old(y))
    BY <1>8, <2>1, <2>2 DEF IInv, RegionsContiguous, SameRegion
  <2> QED
    BY <1>8, <2>3
<1>16. RegionsTiled'
  <2>0. \A j \in Indices :
          /\ (j = 1 \/ start(j - 1) # start(j)) => blocks[j].addr = start(j)
          /\ IF j = n \/ start(j + 1) # start(j)
               THEN End(blocks[j]) = start(j) + blocks[j].region_size
               ELSE End(blocks[j]) = blocks[j + 1].addr
    BY DEF IInv, RegionsTiled, SameRegion, n
  <2> SUFFICES ASSUME NEW k \in 1 .. n - m
               PROVE  /\ (k = 1 \/ blocks'[k - 1].region_start # blocks'[k].region_start)
                           => blocks'[k].addr = blocks'[k].region_start
                      /\ IF k = n - m \/ blocks'[k + 1].region_start # blocks'[k].region_start
                           THEN End(blocks'[k]) = blocks'[k].region_start + blocks'[k].region_size
                           ELSE End(blocks'[k]) = blocks'[k + 1].addr
    BY <1>7 DEF RegionsTiled, SameRegion, End
  <2> DEFINE j == old(k)
  <2>1. k \in Indices' /\ j \in Indices /\ blocks'[k] = blocks[j] /\ start(j) # start(i)
    BY <1>7, <1>8
  <2>2. k # 1 => k - 1 \in Indices'
    BY <1>4, <1>7
  <2>3. k # n - m => k + 1 \in Indices'
    BY <1>4, <1>7
  <2>4. CASE k < h
    <3>1. j = k
      BY <2>4 DEF old
    <3>2. k # 1 => blocks'[k - 1] = blocks[k - 1]
      <4>1. k # 1 => old(k - 1) = k - 1
        BY <1>4, <2>4 DEF old
      <4> QED
        BY <1>8, <2>2, <4>1
    <3>3. CASE k + 1 < h
      <4>1. k # n /\ k # n - m
        BY <1>4, <3>3
      <4>2. old(k + 1) = k + 1
        BY <3>3 DEF old
      <4>3. blocks'[k + 1] = blocks[k + 1]
        BY <1>8, <2>3, <4>1, <4>2
      <4> QED
        BY <2>0, <2>1, <3>1, <3>2, <4>1, <4>3
    <3>4. CASE k + 1 = h
      <4>1. k # n /\ h \in Indices /\ start(h) = start(i)
        BY <1>1, <1>2, <1>4, <3>4
      <4>2. End(blocks[k]) = start(k) + blocks[k].region_size
        BY <2>0, <2>1, <3>1, <3>4, <4>1
      <4>3. k # n - m => blocks'[k + 1].region_start # start(k)
        <5> SUFFICES ASSUME k # n - m, blocks'[k + 1].region_start = start(k)
                     PROVE  FALSE
          OBVIOUS
        <5>1. old(k + 1) = e
          BY <1>4, <3>4 DEF old
        <5>2. e \in Indices /\ start(e) = start(k)
          BY <1>8, <2>3, <5>1
        <5>3. k < h /\ h < e
          BY <1>4, <2>4
        <5>4. start(k) = start(h)
          BY <2>1, <3>1, <4>1, <5>2, <5>3 DEF IInv, RegionsContiguous, SameRegion
        <5> QED
          BY <2>1, <3>1, <4>1, <5>4
      <4> QED
        BY <2>0, <2>1, <3>1, <3>2, <4>2, <4>3
    <3> QED
      BY <1>4, <2>4, <3>3, <3>4
  <2>5. CASE k >= h
    <3>1. j = k + m /\ j >= e /\ j # 1 /\ (k = n - m <=> j = n)
      BY <1>4, <2>5 DEF old
    <3>2. k # n - m => blocks'[k + 1] = blocks[j + 1]
      <4>1. old(k + 1) = j + 1
        BY <1>4, <2>5, <3>1 DEF old
      <4> QED
        BY <1>8, <2>3, <4>1
    <3>3. CASE k = h
      <4>1. j - 1 \in Indices /\ j - 1 \in h .. e - 1
        BY <1>1, <1>4, <3>1, <3>3
      <4>2. start(j - 1) = start(i)
        BY <1>2, <4>1
      <4>3. blocks[j].addr = start(j)
        BY <2>0, <2>1, <4>2
      <4> HIDE DEF j
      <4> QED
        BY <2>0, <2>1, <3>1, <3>2, <4>3
    <3>4. CASE k > h
      <4>1. k # 1 /\ old(k - 1) = j - 1
        BY <1>4, <3>1, <3>4 DEF old
      <4>2. blocks'[k - 1] = blocks[j - 1]
        BY <1>8, <2>2, <4>1
      <4> HIDE DEF j
      <4> QED
        BY <2>0, <2>1, <3>1, <3>2, <4>1, <4>2
    <3> QED
      BY <1>4, <2>5, <3>3, <3>4
  <2> QED
    BY <1>4, <2>4, <2>5
<1>17. MappingsDisjoint'
  BY <1>12 DEF MappingsDisjoint, IInv
<1>18. TypeOK'
  BY <1>1, <1>7, <1>12 DEF TypeOK, NULL
<1>19. BlocksFit'
  BY <1>8 DEF BlocksFit, InUse, IInv
<1>20. NoIdleRegion'
  <2> SUFFICES ASSUME NEW k \in Indices'
               PROVE  \E l \in Indices' : blocks'[k].region_start = blocks'[l].region_start
                                        /\ blocks'[l].usage # 0
    BY DEF NoIdleRegion, SameRegion, InUse
  <2>1. PICK j \in Indices : start(old(k)) = start(j) /\ blocks[j].usage # 0
    BY <1>8 DEF IInv, NoIdleRegion, SameRegion, InUse
  <2>2. PICK l \in Indices' : old(l) = j
    BY <1>8, <1>11, <2>1
  <2> QED
    BY <1>8, <2>1, <2>2
<1>21. UniqueIds'
  BY <1>8, <1>10 DEF UniqueIds, IInv
<1>22. IdsIssued'
  BY <1>8 DEF IdsIssued, IInv
<1> QED
  BY <1>13, <1>14, <1>15, <1>16, <1>17, <1>18, <1>19, <1>20, <1>21, <1>22 DEF IInv

-----------------------------------------------------------------------------
(***************************************************************************)
(* The theorems.                                                           *)
(***************************************************************************)

(* A step of the client's view only. *)
LEMMA UnchangedPreserves ==
  ASSUME IInv, UNCHANGED <<blocks, g_allocations, mapped>>,
         asked' \in Nat, arg' \in Nat, op' \in Calls, ret' \in Nat, fault' \in BOOLEAN
  PROVE  IInv'
<1>1. UNCHANGED Indices
  BY DEF Indices
<1>2. SameLayout
  BY <1>1 DEF SameLayout
<1>3. TypeOK'
  BY DEF TypeOK, IInv
<1>4. BlocksFit' /\ NoIdleRegion' /\ UniqueIds' /\ IdsIssued'
  BY <1>1 DEF BlocksFit, NoIdleRegion, UniqueIds, IdsIssued, IInv
<1> QED
  BY <1>2, <1>3, <1>4, LayoutKept DEF IInv

LEMMA AllocatePreserves ==
  ASSUME IInv, NEW n \in Nat, Fits(n), NEW algo, allocate(n, algo),
         asked' \in Nat, arg' \in Nat, op' \in Calls, fault' \in BOOLEAN
  PROVE  IInv'
<1> DEFINE size == Aligned(n)
           k == reuse(size, algo)
<1>1. /\ RealSize(size) \in Nat /\ RealSize(size) >= HDR
      /\ RegionSize(RealSize(size)) \in Nat
      /\ RegionSize(RealSize(size)) >= RealSize(size)
  BY SizeFacts, SizesAssumption
<1> HIDE DEF size
<1>3. CASE g_allocations' = g_allocations + 1 /\ k # 0 /\ UNCHANGED mapped
           /\ (take_over(k, size) \/ split(k, size))
  <2>1. k \in Indices /\ Unused(blocks[k]) >= RealSize(size)
    BY <1>1, <1>3, ReuseFits
  <2> HIDE DEF k
  <2> QED
    BY <1>1, <1>3, <2>1, TakeOverPreserves, SplitPreserves
<1>4. CASE g_allocations' = g_allocations + 1 /\ \E base \in Bases : map_region(base, size)
  BY <1>1, <1>4, MapRegionPreserves
<1>5. CASE ret' = NULL /\ UNCHANGED <<blocks, g_allocations, mapped>>
  BY <1>5, UnchangedPreserves DEF NULL
<1> QED
  BY <1>3, <1>4, <1>5 DEF allocate, size, k

LEMMA FreePreserves ==
  ASSUME IInv, NEW i \in Indices, free(i)
  PROVE  IInv'
<1>1. /\ ret' = NULL /\ UNCHANGED <<g_allocations, fault>>
      /\ asked' \in Nat /\ arg' \in Nat /\ op' \in Calls
  <2>1. blocks[i].addr + HDR \in Nat
    BY SizesAssumption, BlockFields DEF IInv, Block
  <2> QED
    BY <2>1 DEF free, Called, Calls
<1>2. CASE \E k \in RegionBlocks(i) :
             Released(i)[k].usage # 0 /\ blocks' = Released(i) /\ UNCHANGED mapped
  <2>1. PICK k \in RegionBlocks(i) :
               Released(i)[k].usage # 0 /\ blocks' = Released(i) /\ UNCHANGED mapped
    BY <1>2
  <2>2. k \in Indices /\ SameRegion(blocks[k], blocks[i])
    <3>1. RegionHead(i) \in 1 .. Len(blocks) /\ RegionEnd(i) \in RegionHead(i) + 1 .. Len(blocks) + 1
      BY WalkVisitsRegion DEF Indices
    <3>2. k \in Indices
      BY <3>1 DEF RegionBlocks, Indices, IInv, TypeOK
    <3> QED
      BY <3>2, WalkVisitsRegion
  <2>3. k # i /\ InUse(blocks[k])
    <3>1. Released(i)[i].usage = 0
      BY DEF Released, Reassigned, Header, IInv, TypeOK, Indices
    <3>2. k # i
      BY <2>1, <3>1
    <3>3. Released(i)[k] = blocks[k]
      BY <2>2, <3>2 DEF Released, IInv, TypeOK, Indices
    <3> QED
      BY <2>1, <3>2, <3>3 DEF InUse
  <2> QED
    BY <1>1, <2>1, <2>2, <2>3, ReleasePreserves
<1>3. CASE /\ blocks' = Unlinked(i)
           /\ \/ mapped' = mapped \ {[start |-> blocks[i].region_start,
                                      len   |-> blocks[i].region_size]}
              \/ UNCHANGED mapped
  BY <1>1, <1>3, UnlinkPreserves
<1> QED
  BY <1>2, <1>3 DEF free

LEMMA StepPreserves ==
  ASSUME RequestsFit, IInv, [Next]_vars
  PROVE  IInv'
<1>1. CASE UNCHANGED vars
  BY <1>1, UnchangedPreserves DEF vars, IInv, TypeOK
<1>2. NULL \in Nat
  BY DEF NULL
<1>3. ASSUME NEW n \in Requests, NEW algo \in Algorithms,
             malloc(n, algo) \/ realloc_null(n, algo)
      PROVE  IInv'
  <2>1. n \in Nat /\ Fits(n)
    BY RequestFacts
  <2>2. allocate(n, algo) /\ fault' = fault /\ op' \in Calls /\ arg' = NULL /\ asked' = n
    BY <1>3 DEF malloc, realloc_null, Called, Calls
  <2>3. fault' \in BOOLEAN
    BY <2>2 DEF IInv, TypeOK
  <2> QED
    BY <1>2, <2>1, <2>2, <2>3, AllocatePreserves
<1>4. ASSUME NEW nmemb \in Members, NEW n \in Requests, NEW algo \in Algorithms,
             calloc(nmemb, n, algo)
      PROVE  IInv'
  <2>1. nmemb * n \in Nat /\ Fits(nmemb * n) /\ Product(nmemb, n) = nmemb * n
    BY ProductFacts
  <2>2. /\ allocate(nmemb * n, algo)
        /\ op' \in Calls /\ arg' = NULL /\ asked' = nmemb * n
    BY <1>4, <2>1 DEF calloc, Called, Calls
  <2>3. fault' \in BOOLEAN
    BY <1>4 DEF calloc
  <2> QED
    BY <1>2, <2>1, <2>2, <2>3, AllocatePreserves
<1>5. ASSUME NEW i \in Indices, NEW n \in Requests, realloc(i, n)
      PROVE  IInv'
  <2>1. CASE free(i)
    BY <2>1, FreePreserves
  <2>2. CASE ~ free(i)
    <3>1. n \in Nat /\ blocks[i].addr + HDR \in Nat
      BY RequestFacts, SizesAssumption, BlockFields DEF IInv, Block
    <3>2. /\ UNCHANGED <<blocks, g_allocations, mapped, fault>>
          /\ asked' = n /\ arg' = blocks[i].addr + HDR /\ op' \in Calls /\ ret' = NULL
      BY <1>5, <2>2 DEF realloc, Called, Calls
    <3>3. fault' \in BOOLEAN
      BY <3>2 DEF IInv, TypeOK
    <3> QED
      BY <1>2, <3>1, <3>2, <3>3, UnchangedPreserves
  <2> QED
    BY <2>1, <2>2
<1>6. CASE free_null
  <2>1. /\ UNCHANGED <<blocks, g_allocations, mapped, fault>>
        /\ asked' = 0 /\ arg' = NULL /\ op' \in Calls /\ ret' = NULL
    BY <1>6 DEF free_null, Called, Calls
  <2>2. fault' \in BOOLEAN
    BY <2>1 DEF IInv, TypeOK
  <2> QED
    BY <1>2, <2>1, <2>2, UnchangedPreserves
<1> QED
  BY <1>1, <1>3, <1>4, <1>5, <1>6, FreePreserves DEF Next

(* The chain of block headers and the kernel's mappings stay consistent    *)
(* through any sequence of malloc, calloc, realloc and free, whatever the  *)
(* page, header and alignment sizes, the addresses mmap chooses and the    *)
(* algorithm of each call.                                                 *)
THEOREM ChainInvariant ==
  ASSUME RequestsFit
  PROVE  Spec => []IInv
<1>1. Init => IInv
  <2> SUFFICES ASSUME Init PROVE IInv
    OBVIOUS
  <2>1. TypeOK
    <3>1. blocks \in Seq(Block) /\ mapped \in SUBSET Region
      BY DEF Init
    <3>2. /\ g_allocations \in Nat /\ asked \in Nat /\ ret \in Nat
          /\ arg \in Nat /\ op \in Calls
      BY DEF Init, NULL, Calls
    <3>3. fault \in BOOLEAN
      BY DEF Init
    <3> QED
      BY <3>1, <3>2, <3>3 DEF TypeOK
  <2>2. Indices = {} /\ mapped = {}
    BY DEF Init, Indices
  <2> QED
    BY <2>1, <2>2 DEF IInv, InRegion, BlocksDisjoint, RegionsContiguous, RegionsTiled,
       MappingsDisjoint, BlocksFit, NoIdleRegion, UniqueIds, IdsIssued
<1>2. IInv /\ [Next]_vars => IInv'
  BY StepPreserves
<1> QED
  BY <1>1, <1>2, PTL DEF Spec

(* Every variable keeps its type. *)
THEOREM TypeCorrect ==
  ASSUME RequestsFit
  PROVE  Spec => []TypeOK
<1>1. IInv => TypeOK
  BY DEF IInv
<1> QED
  BY <1>1, ChainInvariant, PTL

(* Splitting, reuse and unlinking lose no byte of a mapping and hand none  *)
(* out twice (allocator.c:233-248, 347-355).                               *)
THEOREM RegionsTiledHolds ==
  ASSUME RequestsFit
  PROVE  Spec => []RegionsTiled
<1>1. IInv => RegionsTiled
  BY DEF IInv
<1> QED
  BY <1>1, ChainInvariant, PTL

(* A block holds its header and what it is used for; a block in use is     *)
(* never mistaken for a free one (allocator.c:47, 221, 338).               *)
THEOREM BlocksFitHolds ==
  ASSUME RequestsFit
  PROVE  Spec => []BlocksFit
<1>1. IInv => BlocksFit
  BY DEF IInv
<1> QED
  BY <1>1, ChainInvariant, PTL

(* free() gives a region back as soon as nothing in it is used             *)
(* (allocator.c:336-362).                                                  *)
THEOREM NoIdleRegionHolds ==
  ASSUME RequestsFit
  PROVE  Spec => []NoIdleRegion
<1>1. IInv => NoIdleRegion
  BY DEF IInv
<1> QED
  BY <1>1, ChainInvariant, PTL

(* "Each allocation is given a unique ID number" (allocator.c:40).         *)
THEOREM UniqueIdsHolds ==
  ASSUME RequestsFit
  PROVE  Spec => []UniqueIds
<1>1. IInv => UniqueIds
  BY DEF IInv
<1> QED
  BY <1>1, ChainInvariant, PTL

(* print_memory() shows every region once (allocator.c:84, 116). *)
THEOREM RegionsPrintedOnceHolds ==
  ASSUME RequestsFit
  PROVE  Spec => []RegionsPrintedOnce
<1>1. IInv => RegionsPrintedOnce
  <2> SUFFICES ASSUME IInv PROVE RegionsPrintedOnce
    OBVIOUS
  <2>1. \A i \in Indices :
          [start |-> blocks[i].region_start, len |-> blocks[i].region_size] \in mapped
    BY DEF IInv, InRegion
  <2>2. ASSUME NEW i \in RegionLines, NEW j \in RegionLines,
               SameRegion(blocks[i], blocks[j]), i < j
        PROVE  FALSE
    <3>1. /\ i \in Indices /\ j \in Indices /\ i \in Nat /\ j \in Nat /\ j # 1
          /\ j - 1 \in Indices /\ i <= j - 1 /\ j - 1 < j
          /\ ~ SameRegion(blocks[j - 1], blocks[j])
      BY <2>2 DEF RegionLines, Indices, IInv, TypeOK
    <3>2. i # j - 1
      BY <2>2, <3>1
    <3>3. i < j - 1
      BY <3>1, <3>2
    <3>4. SameRegion(blocks[i], blocks[j - 1])
      BY <2>2, <3>1, <3>3 DEF IInv, RegionsContiguous
    <3> QED
      BY <2>2, <3>1, <3>4 DEF SameRegion
  <2>3. \A i, j \in RegionLines : SameRegion(blocks[i], blocks[j]) => i = j
    <3> SUFFICES ASSUME NEW i \in RegionLines, NEW j \in RegionLines,
                        SameRegion(blocks[i], blocks[j]), i # j
                 PROVE  FALSE
      OBVIOUS
    <3>1. SameRegion(blocks[j], blocks[i]) /\ (i < j \/ j < i)
      BY DEF SameRegion, RegionLines, Indices
    <3> QED
      BY <2>2, <3>1
  <2> QED
    BY <2>1, <2>3 DEF RegionsPrintedOnce
<1> QED
  BY <1>1, ChainInvariant, PTL
=============================================================================
