---- MODULE GcHeap_proofs ----
(***************************************************************************)
(* Proofs about GcHeap, for any number of areas, blocks and sizes: the     *)
(* allocation tables say exactly which chunks are allocated, the sweep     *)
(* reaches every block in use, and a search that starts at the remembered  *)
(* place misses no room.                                                   *)
(***************************************************************************)
EXTENDS GcHeap, WellFoundedInduction, TLAPS

(* No run of n_blocks free blocks in area a.                               *)
NoRoom(a) ==
    \A s \in Blk : s + n_blocks <= NBlocks =>
        \E b \in s .. s + n_blocks - 1 : atb[a][b] # "FREE"

(* gc_alloc in progress.                                                   *)
CallInv ==
    /\ pc \in {"search", "collect", "full"} => n_blocks > 0
    /\ pc = "move" => old # <<>>

(* The chunk that gc_realloc moves is allocated, unless the sweep has      *)
(* given its area back, for it was the only block there; when the same     *)
(* area is added again, the new chunk is put in its place.                 *)
OldInv ==
    /\ pc = "run" => old = <<>>
    /\ old # <<>> =>
         \/ old \in Chunks
         \/ collected /\ old[1] \notin Linked /\ old[2] = 0
         \/ /\ collected /\ added /\ old[1] \in Linked
            /\ \/ pc = "full"
               \/ /\ pc = "search" /\ old[2] = 0 /\ n_blocks <= NBlocks
                  /\ free_index[old[1]] = 0
                  /\ \A b \in Blk : atb[old[1]][b] = "FREE"
                  /\ \A a \in Linked \ {old[1]} : NoRoom(a)

(* The inductive invariant.                                                *)
HeapInv == HeapConsistent /\ SearchComplete /\ CallInv /\ OldInv
-----------------------------------------------------------------------------
(* Numbers.                                                                *)

LEMMA MulMonotonic ==
    ASSUME NEW i \in Nat, NEW j \in Nat, i <= j, NEW k \in Nat
    PROVE  i * k <= j * k
<1> DEFINE d == j - i
<1>1. d \in Nat /\ j = i + d
    OBVIOUS
<1>2. d * k \in Nat /\ (i + d) * k = i * k + d * k /\ i * k \in Nat
    BY <1>1
<1> HIDE DEF d
<1> QED
    BY <1>1, <1>2

LEMMA DivMul ==
    ASSUME NEW x \in Nat, NEW k \in Nat \ {0}
    PROVE  x \div k \in Nat /\ (x \div k) * k <= x /\ x < (x \div k + 1) * k
OBVIOUS

LEMMA DivBound ==
    ASSUME NEW x \in Nat, NEW k \in Nat \ {0}, NEW n \in Nat, x <= n * k
    PROVE  x \div k \in 0 .. n
<1> DEFINE q == x \div k
<1>1. q \in Nat /\ q * k <= x
    BY DivMul
<1>2. SUFFICES ASSUME q >= n + 1 PROVE FALSE
    BY <1>1
<1>3. (n + 1) * k <= q * k
    BY <1>1, <1>2, MulMonotonic
<1>4. (n + 1) * k = n * k + k /\ n * k \in Nat
    OBVIOUS
<1>5. q * k \in Nat
    BY <1>1
<1> HIDE DEF q
<1> QED
    BY <1>1, <1>3, <1>4, <1>5

LEMMA NBlocksType == NBlocks \in Nat \ {0} /\ Blk = 0 .. NBlocks - 1
<1>1. Atbs * BlocksPerAtb \in Nat
    BY AtbsAssumption, BlocksPerAtbAssumption
<1>2. 1 * BlocksPerAtb <= Atbs * BlocksPerAtb
    BY AtbsAssumption, BlocksPerAtbAssumption, MulMonotonic
<1> QED
    BY <1>1, <1>2, BlocksPerAtbAssumption DEF NBlocks, Blk

(* Table bytes: of a block, and the one a filled area is marked with.      *)
LEMMA AtbOfBlock ==
    ASSUME NEW x \in 0 .. NBlocks
    PROVE  /\ x \div BlocksPerAtb \in 0 .. Atbs
           /\ (x \div BlocksPerAtb) * BlocksPerAtb <= x
<1>1. x \in Nat /\ BlocksPerAtb \in Nat \ {0} /\ Atbs \in Nat /\ x <= Atbs * BlocksPerAtb
    BY AtbsAssumption, BlocksPerAtbAssumption, NBlocksType DEF NBlocks
<1> QED
    BY <1>1, DivBound, DivMul

LEMMA FilledAtb == (Atbs + 1) \div BlocksPerAtb \in 0 .. Atbs
<1>1. Atbs \in Nat \ {0} /\ BlocksPerAtb \in Nat \ {0, 1}
    BY AtbsAssumption, BlocksPerAtbAssumption
<1>2. Atbs * 2 <= Atbs * BlocksPerAtb
    <2>1. 2 * Atbs <= BlocksPerAtb * Atbs
        BY <1>1, MulMonotonic
    <2> QED
        BY <1>1, <2>1
<1>3. Atbs + 1 <= Atbs * BlocksPerAtb
    <2>1. Atbs * BlocksPerAtb \in Nat
        BY <1>1
    <2> QED
        BY <1>1, <1>2, <2>1
<1> QED
    BY <1>1, <1>3, DivBound

(* The least and the greatest of a set of numbers.                         *)
LEMMA LowestOf ==
    ASSUME NEW S \in SUBSET Nat, S # {}
    PROVE  Lowest(S) \in S /\ \A y \in S : Lowest(S) <= y
<1> DEFINE R == OpToRel(<, Nat)
<1>1. IsWellFoundedOn(R, Nat)
    BY NatLessThanWellFounded
<1>2. R = {ss \in Nat \X Nat : ss[1] < ss[2]}
    BY DEF OpToRel
<1> HIDE DEF R
<1>3. PICK x \in S : \A y \in S : ~ (<<y, x>> \in R)
    BY <1>1, WFMin
<1>4. \E z \in S : \A y \in S : z <= y
    <2>1. \A y \in S : <<y, x>> \in R <=> y < x
        BY <1>2
    <2>2. \A y \in S : x <= y
        <3>1. SUFFICES ASSUME NEW y \in S PROVE x <= y
            OBVIOUS
        <3>2. ~ (y < x)
            BY <1>3, <2>1, Zenon
        <3> QED
            BY <3>2
    <2> QED
        BY <2>2
<1> QED
    BY <1>4, Zenon DEF Lowest

LEMMA HighestOf ==
    ASSUME NEW n \in Nat, NEW S \in SUBSET (0 .. n), S # {}
    PROVE  Highest(S) \in S /\ \A y \in S : y <= Highest(S)
<1> DEFINE T == {n - x : x \in S}
<1>1. T \in SUBSET Nat /\ T # {}
    <2>1. \A x \in S : n - x \in Nat
        OBVIOUS
    <2> QED
        BY <2>1, Zenon
<1>2. Lowest(T) \in T /\ \A y \in T : Lowest(T) <= y
    <2> HIDE DEF T
    <2> QED
        BY <1>1, LowestOf
<1>3. PICK x \in S : Lowest(T) = n - x
    BY <1>2
<1>4. \A y \in S : n - x <= n - y
    BY <1>2, <1>3
<1>5. \E z \in S : \A y \in S : y <= z
    <2>1. \A y \in S : y <= x
        BY <1>4
    <2> QED
        BY <2>1
<1> QED
    BY <1>5, Zenon DEF Highest

LEMMA LowestOfTwo ==
    ASSUME NEW x \in Nat, NEW y \in Nat
    PROVE  Lowest({x, y}) \in {x, y} /\ Lowest({x, y}) <= x /\ Lowest({x, y}) <= y
<1> DEFINE S == {x, y}
<1>1. S \in SUBSET Nat /\ S # {}
    OBVIOUS
<1>2. Lowest(S) \in S /\ \A z \in S : Lowest(S) <= z
    <2> HIDE DEF S
    <2> QED
        BY <1>1, LowestOf
<1> QED
    BY <1>2

LEMMA HighestOfTwo ==
    ASSUME NEW n \in Nat, NEW x \in 0 .. n, NEW y \in 0 .. n
    PROVE  Highest({x, y}) \in 0 .. n /\ Highest({x, y}) >= x /\ Highest({x, y}) >= y
<1> DEFINE S == {x, y}
<1>1. S \in SUBSET (0 .. n) /\ S # {}
    OBVIOUS
<1>2. Highest(S) \in S /\ \A z \in S : z <= Highest(S)
    <2> HIDE DEF S
    <2> QED
        BY <1>1, HighestOf
<1> QED
    BY <1>2
-----------------------------------------------------------------------------
(* One area: its table T and the sizes Z of the chunks at its blocks.      *)
KindOf(T, b) == IF b < NBlocks THEN T[b] ELSE "FREE"

AreaType(T, Z) ==
    T \in [Blk -> {"FREE", "HEAD", "TAIL"}] /\ Z \in [Blk -> 0 .. NBlocks]

AreaChunks(T, Z) ==
    \A b \in Blk : Z[b] > 0 =>
        /\ b + Z[b] <= NBlocks
        /\ T[b] = "HEAD"
        /\ \A x \in b + 1 .. b + Z[b] - 1 : T[x] = "TAIL"
        /\ KindOf(T, b + Z[b]) # "TAIL"

AreaBlocks(T, Z) ==
    \A b \in Blk :
        /\ T[b] = "HEAD" => Z[b] > 0
        /\ T[b] = "TAIL" => b > 0 /\ T[b - 1] # "FREE"

AreaOK(T, Z) == AreaType(T, Z) /\ AreaChunks(T, Z) /\ AreaBlocks(T, Z)

(* The walk over a chunk's tails ends behind its last block.               *)
LEMMA TailsEnd ==
    ASSUME NEW T, NEW Z, AreaOK(T, Z), NEW b \in Blk, Z[b] > 0
    PROVE  Lowest({e \in b + 1 .. NBlocks : KindOf(T, e) # "TAIL"}) = b + Z[b]
<1> DEFINE S == {e \in b + 1 .. NBlocks : KindOf(T, e) # "TAIL"}
<1>0. NBlocks \in Nat /\ b \in Nat /\ b < NBlocks /\ Z[b] \in Nat /\ b + Z[b] <= NBlocks
    BY NBlocksType DEF AreaOK, AreaType, AreaChunks
<1>1. b + Z[b] \in S
    BY <1>0 DEF AreaOK, AreaChunks
<1>2. \A e \in S : e >= b + Z[b]
    <2>1. SUFFICES ASSUME NEW e \in S, e < b + Z[b] PROVE FALSE
        BY <1>0
    <2>2. e \in b + 1 .. b + Z[b] - 1 /\ e < NBlocks
        BY <1>0, <2>1
    <2>3. T[e] = "TAIL"
        BY <2>2 DEF AreaOK, AreaChunks
    <2> QED
        BY <2>2, <2>3 DEF KindOf
<1>3. S \in SUBSET Nat /\ S # {}
    BY <1>0, <1>1
<1>4. Lowest(S) \in S /\ \A y \in S : Lowest(S) <= y
    <2> HIDE DEF S
    <2> QED
        BY <1>3, LowestOf
<1>5. Lowest(S) >= b + Z[b] /\ Lowest(S) <= b + Z[b] /\ Lowest(S) \in Nat
    <2> HIDE DEF S
    <2> QED
        BY <1>1, <1>2, <1>3, <1>4
<1> HIDE DEF S
<1>6. Lowest(S) = b + Z[b]
    BY <1>0, <1>5
<1> QED
    BY <1>6 DEF S

(* A block in the tails of a chunk is in no other chunk.                   *)
LEMMA ChunksApart ==
    ASSUME NEW T, NEW Z, AreaOK(T, Z),
           NEW b \in Blk, Z[b] > 0, NEW c \in Blk, Z[c] > 0, b # c,
           NEW x \in b .. b + Z[b] - 1
    PROVE  x \notin c .. c + Z[c] - 1
<1>0. Z[b] \in Nat /\ Z[c] \in Nat /\ b \in Nat /\ c \in Nat
    BY NBlocksType DEF AreaOK, AreaType
<1>1. SUFFICES ASSUME x \in c .. c + Z[c] - 1 PROVE FALSE
    OBVIOUS
<1>2. T[b] = "HEAD" /\ T[c] = "HEAD"
    BY DEF AreaOK, AreaChunks
<1>3. CASE c < b
    <2>1. b \in c + 1 .. c + Z[c] - 1
        BY <1>0, <1>1, <1>3
    <2>2. T[b] = "TAIL"
        BY <2>1 DEF AreaOK, AreaChunks
    <2> QED
        BY <1>2, <2>2
<1>4. CASE b < c
    <2>1. c \in b + 1 .. b + Z[b] - 1
        BY <1>0, <1>1, <1>4
    <2>2. T[c] = "TAIL"
        BY <2>1 DEF AreaOK, AreaChunks
    <2> QED
        BY <1>2, <2>2
<1> QED
    BY <1>0, <1>3, <1>4

(* The blocks of a chunk are in use.                                       *)
LEMMA ChunkInUse ==
    ASSUME NEW T, NEW Z, AreaOK(T, Z), NEW b \in Blk, Z[b] > 0,
           NEW x \in b .. b + Z[b] - 1
    PROVE  x \in Blk /\ T[x] = (IF x = b THEN "HEAD" ELSE "TAIL")
<1>0. NBlocks \in Nat /\ b \in Nat /\ Z[b] \in Nat /\ b + Z[b] <= NBlocks
    BY NBlocksType DEF AreaOK, AreaType, AreaChunks
<1>1. x \in Blk
    BY <1>0, NBlocksType
<1>2. CASE x = b
    BY <1>1, <1>2 DEF AreaOK, AreaChunks
<1>3. CASE x # b
    <2>1. x \in b + 1 .. b + Z[b] - 1
        BY <1>0, <1>3
    <2> QED
        BY <1>1, <1>3, <2>1 DEF AreaOK, AreaChunks
<1> QED
    BY <1>2, <1>3

(* No chunk continues behind a free block.                                 *)
LEMMA FreeEndsChunk ==
    ASSUME NEW T, NEW Z, AreaOK(T, Z), NEW x \in 1 .. NBlocks, T[x - 1] = "FREE"
    PROVE  KindOf(T, x) # "TAIL" /\ \A b \in Blk : Z[b] > 0 => b + Z[b] # x
<1>0. NBlocks \in Nat /\ x - 1 \in Blk /\ x \in Nat
    BY NBlocksType
<1>1. KindOf(T, x) # "TAIL"
    BY <1>0, NBlocksType DEF KindOf, AreaOK, AreaBlocks
<1>2. ASSUME NEW b \in Blk, Z[b] > 0, b + Z[b] = x PROVE FALSE
    <2>1. b \in Nat /\ Z[b] \in Nat
        BY NBlocksType DEF AreaOK, AreaType
    <2>2. x - 1 \in b .. b + Z[b] - 1
        BY <1>0, <1>2, <2>1
    <2> QED
        BY <1>2, <2>2, ChunkInUse
<1> QED
    BY <1>1, <1>2

(* gc_alloc: a chunk of n blocks in a free run.                            *)
LEMMA PlaceChunk ==
    ASSUME NEW T, NEW Z, AreaOK(T, Z),
           NEW s \in Blk, NEW n \in Nat \ {0}, s + n <= NBlocks,
           \A x \in s .. s + n - 1 : T[x] = "FREE",
           NEW U, NEW Y, AreaType(U, Y),
           \A x \in Blk : U[x] = IF x = s THEN "HEAD"
                                 ELSE IF s < x /\ x < s + n THEN "TAIL" ELSE T[x],
           \A x \in Blk : Y[x] = IF x = s THEN n ELSE Z[x]
    PROVE  AreaOK(U, Y)
<1>0. NBlocks \in Nat /\ s \in Nat /\ Blk \subseteq Nat /\ Blk = 0 .. NBlocks - 1
      /\ \A x \in Blk : x < NBlocks
    BY NBlocksType
<1>1. T \in [Blk -> {"FREE", "HEAD", "TAIL"}] /\ Z \in [Blk -> 0 .. NBlocks]
    BY DEF AreaOK, AreaType
<1>2. n \in 0 .. NBlocks
    BY <1>0
<1>4. \A x \in Blk : T[x] # "FREE" => x \notin s .. s + n - 1 /\ U[x] = T[x]
    BY <1>0
<1>5. \A x \in Blk : U[x] = "TAIL" => x \in s + 1 .. s + n - 1 \/ (T[x] = "TAIL" /\ x \notin s .. s + n - 1)
    BY <1>0
<1>6. \A x \in Blk : x \in s .. s + n - 1 => U[x] # "FREE"
    BY <1>0
<1>7. \A b \in Blk : Y[b] = IF b = s THEN n ELSE Z[b]
    BY <1>1
<1>8. U[s] = "HEAD" /\ \A x \in s + 1 .. s + n - 1 : U[x] = "TAIL"
    BY <1>0
<1> HIDE DEF AreaOK
<1>9. ASSUME NEW b \in Blk, Y[b] > 0
      PROVE  /\ b + Y[b] <= NBlocks
             /\ U[b] = "HEAD"
             /\ \A x \in b + 1 .. b + Y[b] - 1 : U[x] = "TAIL"
             /\ KindOf(U, b + Y[b]) # "TAIL"
    <2>1. CASE b = s
        <3>1. Y[b] = n
            BY <1>7, <2>1
        <3>2. T[s + n - 1] = "FREE" /\ s + n \in 1 .. NBlocks /\ (s + n) - 1 = s + n - 1
            BY <1>0
        <3>3. KindOf(T, s + n) # "TAIL"
            BY <3>2, FreeEndsChunk
        <3>4. KindOf(U, s + n) # "TAIL"
            BY <1>0, <1>5, <3>3 DEF KindOf
        <3> QED
            BY <1>8, <2>1, <3>1, <3>4
    <2>2. CASE b # s
        <3>1. Y[b] = Z[b] /\ Z[b] > 0 /\ Z[b] \in Nat /\ b \in Nat
            BY <1>0, <1>1, <1>7, <1>9, <2>2
        <3>2. b + Z[b] <= NBlocks /\ T[b] = "HEAD" /\ KindOf(T, b + Z[b]) # "TAIL"
              /\ \A x \in b + 1 .. b + Z[b] - 1 : T[x] = "TAIL"
            BY <3>1 DEF AreaOK, AreaChunks
        <3>3. U[b] = "HEAD"
            BY <1>4, <3>2
        <3>4. \A x \in b + 1 .. b + Z[b] - 1 : x \in Blk /\ U[x] = "TAIL"
            BY <1>0, <1>4, <3>1, <3>2
        <3>5. KindOf(U, b + Z[b]) # "TAIL"
            <4>1. SUFFICES ASSUME b + Z[b] < NBlocks, U[b + Z[b]] = "TAIL" PROVE FALSE
                BY DEF KindOf
            <4>2. b + Z[b] \in Blk
                BY <1>0, <3>1, <4>1
            <4>3. T[b + Z[b]] # "TAIL"
                BY <3>2, <4>1 DEF KindOf
            <4>4. b + Z[b] \in s + 1 .. s + n - 1
                BY <1>5, <4>1, <4>2, <4>3
            <4>5. (b + Z[b]) - 1 \in s .. s + n - 1 /\ b + Z[b] \in 1 .. NBlocks
                BY <1>0, <3>1, <4>1, <4>4
            <4>6. T[(b + Z[b]) - 1] = "FREE"
                BY <4>5
            <4> QED
                BY <3>1, <4>5, <4>6, FreeEndsChunk
        <3> QED
            BY <3>1, <3>2, <3>3, <3>4, <3>5
    <2> QED
        BY <2>1, <2>2
<1>10. AreaChunks(U, Y)
    BY <1>9 DEF AreaChunks
<1>11. ASSUME NEW b \in Blk
       PROVE  /\ U[b] = "HEAD" => Y[b] > 0
              /\ U[b] = "TAIL" => b > 0 /\ U[b - 1] # "FREE"
    <2>1. ASSUME U[b] = "HEAD" PROVE Y[b] > 0
        <3>1. b = s \/ T[b] = "HEAD"
            BY <2>1
        <3>2. T[b] = "HEAD" => Z[b] > 0
            BY DEF AreaOK, AreaBlocks
        <3> QED
            BY <1>7, <3>1, <3>2
    <2>2. ASSUME U[b] = "TAIL" PROVE b > 0 /\ U[b - 1] # "FREE"
        <3>1. CASE b \in s + 1 .. s + n - 1
            <4>1. b > 0 /\ b - 1 \in s .. s + n - 1 /\ b - 1 \in Blk
                BY <1>0, <3>1
            <4> QED
                BY <1>6, <4>1
        <3>2. CASE T[b] = "TAIL"
            <4>1. b > 0 /\ T[b - 1] # "FREE"
                BY <3>2 DEF AreaOK, AreaBlocks
            <4>2. b - 1 \in Blk
                BY <1>0, <4>1
            <4> QED
                BY <1>4, <4>1, <4>2
        <3> QED
            BY <1>5, <2>2, <3>1, <3>2
    <2> QED
        BY <2>1, <2>2
<1>12. AreaBlocks(U, Y)
    BY <1>11 DEF AreaBlocks
<1> QED
    BY <1>10, <1>12 DEF AreaOK

(* gc_free and gc_realloc to fewer blocks: the chunk at c keeps n of its   *)
(* blocks.                                                                 *)
LEMMA CutChunk ==
    ASSUME NEW T, NEW Z, AreaOK(T, Z),
           NEW c \in Blk, NEW n \in Nat, n < Z[c],
           NEW U, NEW Y, AreaType(U, Y),
           \A x \in Blk : U[x] = IF c + n <= x /\ x < c + Z[c] THEN "FREE" ELSE T[x],
           \A x \in Blk : Y[x] = IF x = c THEN n ELSE Z[x]
    PROVE  AreaOK(U, Y)
<1>0. NBlocks \in Nat /\ c \in Nat /\ Blk \subseteq Nat /\ Blk = 0 .. NBlocks - 1
    BY NBlocksType
<1>1. T \in [Blk -> {"FREE", "HEAD", "TAIL"}] /\ Z \in [Blk -> 0 .. NBlocks]
    BY DEF AreaOK, AreaType
<1>2. Z[c] \in Nat /\ Z[c] > 0 /\ Z[c] <= NBlocks /\ n \in 0 .. NBlocks
    BY <1>0, <1>1
<1>3. c + Z[c] <= NBlocks /\ KindOf(T, c + Z[c]) # "TAIL"
    BY <1>2 DEF AreaOK, AreaChunks
<1>5. \A x \in Blk : U[x] = IF x \in c + n .. c + Z[c] - 1 THEN "FREE" ELSE T[x]
    BY <1>0, <1>2
<1>6. \A b \in Blk : Y[b] = IF b = c THEN n ELSE Z[b]
    BY <1>1
<1> HIDE DEF AreaOK
<1>7. ASSUME NEW b \in Blk, Y[b] > 0
      PROVE  /\ b + Y[b] <= NBlocks
             /\ U[b] = "HEAD"
             /\ \A x \in b + 1 .. b + Y[b] - 1 : U[x] = "TAIL"
             /\ KindOf(U, b + Y[b]) # "TAIL"
    <2>0. Z[b] \in Nat /\ Z[b] > 0 /\ b \in Nat
        BY <1>0, <1>1, <1>2, <1>6, <1>7
    <2>1. b + Z[b] <= NBlocks /\ T[b] = "HEAD" /\ KindOf(T, b + Z[b]) # "TAIL"
          /\ \A x \in b + 1 .. b + Z[b] - 1 : T[x] = "TAIL"
        BY <2>0 DEF AreaOK, AreaChunks
    <2>2. CASE b = c
        <3>1. Y[b] = n /\ n > 0
            BY <1>6, <1>7, <2>2
        <3>2. U[b] = "HEAD"
            BY <1>0, <1>5, <2>1, <2>2, <3>1
        <3>3. \A x \in b + 1 .. b + n - 1 : x \in Blk /\ x \notin c + n .. c + Z[c] - 1
                                            /\ x \in b + 1 .. b + Z[b] - 1
            BY <1>0, <1>2, <1>3, <2>2
        <3>4. \A x \in b + 1 .. b + n - 1 : U[x] = "TAIL"
            BY <1>5, <2>1, <3>3
        <3>5. c + n \in Blk /\ c + n \in c + n .. c + Z[c] - 1
            BY <1>0, <1>2, <1>3
        <3>6. U[c + n] = "FREE"
            BY <1>5, <3>5
        <3>7. KindOf(U, b + n) # "TAIL"
            BY <2>2, <3>6 DEF KindOf
        <3>8. b + n <= NBlocks
            BY <1>0, <1>2, <1>3, <2>2
        <3> QED
            BY <3>1, <3>2, <3>4, <3>7, <3>8
    <2>3. CASE b # c
        <3>1. Y[b] = Z[b]
            BY <1>6, <2>3
        <3>2. \A x \in b .. b + Z[b] - 1 : x \notin c .. c + Z[c] - 1
            BY <1>2, <2>0, <2>3, ChunksApart
        <3>3. \A x \in b .. b + Z[b] - 1 : x \notin c + n .. c + Z[c] - 1 /\ x \in Blk
            BY <1>0, <1>2, <2>0, <2>1, <3>2
        <3>4. \A x \in b .. b + Z[b] - 1 : U[x] = T[x]
            BY <1>5, <3>3
        <3>5. b \in b .. b + Z[b] - 1 /\ \A x \in b + 1 .. b + Z[b] - 1 : x \in b .. b + Z[b] - 1
            BY <2>0
        <3>6. U[b] = "HEAD" /\ \A x \in b + 1 .. b + Z[b] - 1 : U[x] = "TAIL"
            BY <2>1, <3>4, <3>5
        <3>7. KindOf(U, b + Z[b]) # "TAIL"
            BY <1>0, <1>5, <2>0, <2>1 DEF KindOf
        <3> QED
            BY <2>1, <3>1, <3>6, <3>7
    <2> QED
        BY <2>2, <2>3
<1>8. AreaChunks(U, Y)
    BY <1>7 DEF AreaChunks
<1>9. ASSUME NEW b \in Blk
      PROVE  /\ U[b] = "HEAD" => Y[b] > 0
             /\ U[b] = "TAIL" => b > 0 /\ U[b - 1] # "FREE"
    <2>1. ASSUME U[b] = "HEAD" PROVE Y[b] > 0
        <3>1. T[b] = "HEAD" /\ b \notin c + n .. c + Z[c] - 1
            BY <1>5, <2>1
        <3>2. Z[b] > 0
            BY <3>1 DEF AreaOK, AreaBlocks
        <3>3. b = c => n > 0
            BY <1>0, <1>2, <3>1
        <3> QED
            BY <1>6, <3>2, <3>3
    <2>2. ASSUME U[b] = "TAIL" PROVE b > 0 /\ U[b - 1] # "FREE"
        <3>1. T[b] = "TAIL" /\ b \notin c + n .. c + Z[c] - 1
            BY <1>5, <2>2
        <3>2. b > 0 /\ T[b - 1] # "FREE"
            BY <3>1 DEF AreaOK, AreaBlocks
        <3>3. b # c + Z[c]
            BY <1>0, <1>3, <3>1 DEF KindOf
        <3>4. b - 1 \in Blk /\ b - 1 \notin c + n .. c + Z[c] - 1
            BY <1>0, <1>2, <3>1, <3>2, <3>3
        <3> QED
            BY <1>5, <3>2, <3>4
    <2> QED
        BY <2>1, <2>2
<1>10. AreaBlocks(U, Y)
    BY <1>9 DEF AreaBlocks
<1> QED
    BY <1>8, <1>10 DEF AreaOK

(* gc_realloc to more blocks: the chunk at c grows over free blocks.       *)
LEMMA ExtendChunk ==
    ASSUME NEW T, NEW Z, AreaOK(T, Z),
           NEW c \in Blk, Z[c] > 0, NEW n \in Nat, n > Z[c], c + n <= NBlocks,
           \A x \in c + Z[c] .. c + n - 1 : T[x] = "FREE",
           NEW U, NEW Y, AreaType(U, Y),
           \A x \in Blk : U[x] = IF c + Z[c] <= x /\ x < c + n THEN "TAIL" ELSE T[x],
           \A x \in Blk : Y[x] = IF x = c THEN n ELSE Z[x]
    PROVE  AreaOK(U, Y)
<1>0. NBlocks \in Nat /\ c \in Nat /\ Blk \subseteq Nat /\ Blk = 0 .. NBlocks - 1
    BY NBlocksType
<1>1. T \in [Blk -> {"FREE", "HEAD", "TAIL"}] /\ Z \in [Blk -> 0 .. NBlocks]
    BY DEF AreaOK, AreaType
<1>2. Z[c] \in Nat /\ Z[c] > 0 /\ Z[c] <= NBlocks /\ n \in 0 .. NBlocks
    BY <1>0, <1>1
<1>3. T[c] = "HEAD" /\ \A x \in c + 1 .. c + Z[c] - 1 : T[x] = "TAIL"
    BY DEF AreaOK, AreaChunks
<1>5. \A x \in Blk : U[x] = IF x \in c + Z[c] .. c + n - 1 THEN "TAIL" ELSE T[x]
    BY <1>0, <1>2
<1>6. \A b \in Blk : Y[b] = IF b = c THEN n ELSE Z[b]
    BY <1>1
<1>7. \A x \in Blk : T[x] # "FREE" => U[x] = T[x]
    BY <1>5
<1> HIDE DEF AreaOK
<1>8. ASSUME NEW b \in Blk, Y[b] > 0
      PROVE  /\ b + Y[b] <= NBlocks
             /\ U[b] = "HEAD"
             /\ \A x \in b + 1 .. b + Y[b] - 1 : U[x] = "TAIL"
             /\ KindOf(U, b + Y[b]) # "TAIL"
    <2>0. Z[b] \in Nat /\ Z[b] > 0 /\ b \in Nat
        BY <1>0, <1>1, <1>2, <1>6, <1>8
    <2>1. b + Z[b] <= NBlocks /\ T[b] = "HEAD" /\ KindOf(T, b + Z[b]) # "TAIL"
          /\ \A x \in b + 1 .. b + Z[b] - 1 : T[x] = "TAIL"
        BY <2>0 DEF AreaOK, AreaChunks
    <2>2. U[b] = "HEAD"
        BY <1>7, <2>1
    <2>3. CASE b = c
        <3>1. Y[b] = n
            BY <1>6, <2>3
        <3>2. ASSUME NEW x \in b + 1 .. b + n - 1 PROVE U[x] = "TAIL"
            <4>1. x \in Blk /\ (x \in c + Z[c] .. c + n - 1 \/ x \in b + 1 .. b + Z[b] - 1)
                BY <1>0, <1>2, <2>3
            <4>2. x \in b + 1 .. b + Z[b] - 1 => T[x] = "TAIL"
                BY <2>1
            <4> QED
                BY <1>5, <1>7, <4>1, <4>2
        <3>3. (c + n) - 1 \in c + Z[c] .. c + n - 1 /\ c + n \in 1 .. NBlocks
            BY <1>0, <1>2
        <3>4. KindOf(T, c + n) # "TAIL"
            BY <3>3, FreeEndsChunk
        <3>5. KindOf(U, c + n) # "TAIL"
            <4>1. c + n \notin c + Z[c] .. c + n - 1 /\ (c + n < NBlocks => c + n \in Blk)
                BY <1>0, <1>2
            <4> QED
                BY <1>5, <3>4, <4>1 DEF KindOf
        <3> QED
            BY <2>2, <2>3, <3>1, <3>2, <3>5
    <2>4. CASE b # c
        <3>1. Y[b] = Z[b]
            BY <1>6, <2>4
        <3>2. \A x \in b + 1 .. b + Z[b] - 1 : x \in Blk
            BY <1>0, <2>0, <2>1
        <3>3. \A x \in b + 1 .. b + Z[b] - 1 : U[x] = "TAIL"
            BY <1>7, <2>1, <3>2
        <3>4. KindOf(U, b + Z[b]) # "TAIL"
            <4>1. SUFFICES ASSUME b + Z[b] < NBlocks, U[b + Z[b]] = "TAIL" PROVE FALSE
                BY DEF KindOf
            <4>2. b + Z[b] \in Blk
                BY <1>0, <2>0, <4>1
            <4>3. T[b + Z[b]] # "TAIL"
                BY <2>1, <4>1 DEF KindOf
            <4>4. b + Z[b] \in c + Z[c] .. c + n - 1
                BY <1>5, <4>1, <4>2, <4>3
            <4>5. CASE b + Z[b] = c + Z[c]
                <5>1. PICK x \in b .. b + Z[b] - 1 : x \in c .. c + Z[c] - 1
                    <6>1. (b + Z[b]) - 1 \in b .. b + Z[b] - 1 /\ (b + Z[b]) - 1 \in c .. c + Z[c] - 1
                        BY <1>0, <1>2, <2>0, <4>5, SMTT(30)
                    <6> QED
                        BY <6>1
                <5> QED
                    BY <1>2, <2>0, <2>4, <5>1, ChunksApart
            <4>6. CASE b + Z[b] # c + Z[c]
                <5>1. \A i, y, j \in Int : y \in i .. j /\ y # i => y - 1 \in i .. j
                    OBVIOUS
                <5>2. c + Z[c] \in Int /\ b + Z[b] \in Int /\ c + n - 1 \in Int
                    BY <1>0, <1>2, <2>0
                <5>3. (b + Z[b]) - 1 \in c + Z[c] .. c + n - 1
                    BY <4>4, <4>6, <5>1, <5>2, Zenon
                <5>4. b + Z[b] \in 1 .. NBlocks
                    BY <1>0, <2>0, <4>1
                <5>5. T[(b + Z[b]) - 1] = "FREE"
                    BY <5>3
                <5> QED
                    BY <2>0, <5>4, <5>5, FreeEndsChunk
            <4> QED
                BY <4>5, <4>6
        <3> QED
            BY <2>1, <2>2, <3>1, <3>3, <3>4
    <2> QED
        BY <2>3, <2>4
<1>9. AreaChunks(U, Y)
    BY <1>8 DEF AreaChunks
<1>10. ASSUME NEW b \in Blk
       PROVE  /\ U[b] = "HEAD" => Y[b] > 0
              /\ U[b] = "TAIL" => b > 0 /\ U[b - 1] # "FREE"
    <2>1. ASSUME U[b] = "HEAD" PROVE Y[b] > 0
        <3>1. T[b] = "HEAD"
            BY <1>5, <2>1
        <3>2. Z[b] > 0
            BY <3>1 DEF AreaOK, AreaBlocks
        <3> QED
            BY <1>2, <1>6, <3>2
    <2>2. ASSUME U[b] = "TAIL" PROVE b > 0 /\ U[b - 1] # "FREE"
        <3>1. CASE b \in c + Z[c] .. c + n - 1
            <4>1. b > 0 /\ b - 1 \in Blk
                BY <1>0, <1>2, <3>1
            <4>2. CASE b = c + Z[c]
                <5>1. b - 1 \in c .. c + Z[c] - 1
                    BY <1>0, <1>2, <4>2
                <5>2. T[b - 1] # "FREE"
                    BY <5>1, ChunkInUse
                <5> QED
                    BY <1>7, <4>1, <5>2
            <4>3. CASE b # c + Z[c]
                <5>1. b - 1 \in c + Z[c] .. c + n - 1
                    BY <1>0, <1>2, <3>1, <4>3
                <5> QED
                    BY <1>5, <4>1, <5>1
            <4> QED
                BY <4>2, <4>3
        <3>2. CASE b \notin c + Z[c] .. c + n - 1
            <4>1. T[b] = "TAIL"
                BY <1>5, <2>2, <3>2
            <4>2. b > 0 /\ T[b - 1] # "FREE"
                BY <4>1 DEF AreaOK, AreaBlocks
            <4>3. b - 1 \in Blk
                BY <1>0, <4>2
            <4> QED
                BY <1>7, <4>2, <4>3
        <3> QED
            BY <3>1, <3>2
    <2> QED
        BY <2>1, <2>2
<1>11. AreaBlocks(U, Y)
    BY <1>10 DEF AreaBlocks
<1> QED
    BY <1>9, <1>11 DEF AreaOK

(* gc_sweep_free_blocks keeps the chunks at the marked heads M, and no     *)
(* other block.                                                            *)
SweptAs(T, Z, u, M, K, U, Y) ==
    /\ u \in 0 .. NBlocks /\ \A x \in Blk : T[x] # "FREE" => x <= u
    /\ M \in SUBSET Blk /\ \A m \in M : Z[m] > 0
    /\ \A x \in Blk : x \in K <=> \E m \in M : /\ x \in m .. u
                                               /\ \A y \in m + 1 .. x : KindOf(T, y) = "TAIL"
    /\ \A x \in Blk : U[x] = IF x <= u /\ x \notin K THEN "FREE" ELSE T[x]
    /\ \A x \in Blk : Y[x] = IF x \in M THEN Z[x] ELSE 0

LEMMA SweepArea ==
    ASSUME NEW T, NEW Z, AreaOK(T, Z), NEW U, NEW Y, AreaType(U, Y),
           NEW u, NEW M, NEW K, SweptAs(T, Z, u, M, K, U, Y)
    PROVE  AreaOK(U, Y) /\ M \subseteq K /\ \A x \in Blk : U[x] # "FREE" => x \in K
<1> USE DEF SweptAs
<1>0. NBlocks \in Nat /\ Blk \subseteq Nat /\ Blk = 0 .. NBlocks - 1 /\ u \in Nat
    BY NBlocksType
<1>1. T \in [Blk -> {"FREE", "HEAD", "TAIL"}] /\ Z \in [Blk -> 0 .. NBlocks]
    BY DEF AreaOK, AreaType
<1> HIDE DEF AreaOK
<1>2. ASSUME NEW m \in M, NEW x \in Blk
      PROVE  (x \in m .. u /\ \A y \in m + 1 .. x : KindOf(T, y) = "TAIL")
                <=> x \in m .. m + Z[m] - 1
    <2>0. m \in Blk /\ m \in Nat /\ Z[m] \in Nat /\ Z[m] > 0 /\ x \in Nat /\ x < NBlocks
        BY <1>0, <1>1
    <2>1. ASSUME x \in m .. m + Z[m] - 1
          PROVE  x \in m .. u /\ \A y \in m + 1 .. x : KindOf(T, y) = "TAIL"
        <3>1. T[x] # "FREE"
            BY <2>0, <2>1, ChunkInUse
        <3>2. x \in m .. u
            BY <1>0, <2>0, <2>1, <3>1
        <3>3. ASSUME NEW y \in m + 1 .. x PROVE KindOf(T, y) = "TAIL"
            <4>0. y \in Nat /\ m < y /\ y <= x /\ x <= m + Z[m] - 1
                BY <2>0, <2>1, <3>3
            <4>1. y \in m .. m + Z[m] - 1 /\ y # m /\ y < NBlocks
                BY <1>0, <2>0, <4>0
            <4>2. T[y] = "TAIL"
                BY <2>0, <4>1, ChunkInUse
            <4> QED
                BY <4>1, <4>2 DEF KindOf
        <3> QED
            BY <3>2, <3>3
    <2>2. ASSUME x \in m .. u, \A y \in m + 1 .. x : KindOf(T, y) = "TAIL",
                 x \notin m .. m + Z[m] - 1
          PROVE  FALSE
        <3>1. m + Z[m] \in m + 1 .. x
            BY <1>0, <2>0, <2>2
        <3>2. KindOf(T, m + Z[m]) # "TAIL"
            BY <2>0 DEF AreaOK, AreaChunks
        <3> QED
            BY <2>2, <3>1, <3>2
    <2> QED
        BY <2>1, <2>2
<1>3. \A x \in Blk : x \in K <=> \E m \in M : x \in m .. m + Z[m] - 1
    BY <1>2
<1>4. \A m \in M : m \in Blk /\ m \in Nat /\ Z[m] \in Nat /\ Z[m] > 0
    BY <1>0, <1>1
<1>5. \A x \in Blk : U[x] = IF x \in K THEN T[x] ELSE "FREE"
    <2>1. \A x \in Blk : x <= u \/ T[x] = "FREE"
        OBVIOUS
    <2> QED
        BY <2>1
<1>6. M \subseteq K
    <2>1. \A m \in M : m \in m .. m + Z[m] - 1
        BY <1>4
    <2> QED
        BY <1>3, <1>4, <2>1
<1>8. ASSUME NEW b \in Blk, Y[b] > 0
      PROVE  /\ b + Y[b] <= NBlocks
             /\ U[b] = "HEAD"
             /\ \A x \in b + 1 .. b + Y[b] - 1 : U[x] = "TAIL"
             /\ KindOf(U, b + Y[b]) # "TAIL"
    <2>1. b \in M /\ Y[b] = Z[b] /\ b \in Nat /\ Z[b] \in Nat /\ Z[b] > 0
        BY <1>0, <1>4, <1>8
    <2>2. b + Z[b] <= NBlocks /\ T[b] = "HEAD" /\ KindOf(T, b + Z[b]) # "TAIL"
          /\ \A x \in b + 1 .. b + Z[b] - 1 : T[x] = "TAIL"
        BY <2>1 DEF AreaOK, AreaChunks
    <2>3. \A x \in b + 1 .. b + Z[b] - 1 : x \in Blk /\ x \in b .. b + Z[b] - 1
        BY <1>0, <2>1, <2>2
    <2>4. \A x \in b + 1 .. b + Z[b] - 1 : U[x] = "TAIL"
        BY <1>3, <1>5, <2>1, <2>2, <2>3
    <2>5. KindOf(U, b + Z[b]) # "TAIL"
        BY <1>0, <1>5, <2>1, <2>2 DEF KindOf
    <2> QED
        BY <1>5, <1>6, <2>1, <2>2, <2>4, <2>5
<1>9. AreaChunks(U, Y)
    BY <1>8 DEF AreaChunks
<1>10. ASSUME NEW b \in Blk
       PROVE  /\ U[b] = "HEAD" => Y[b] > 0
              /\ U[b] = "TAIL" => b > 0 /\ U[b - 1] # "FREE"
    <2>1. SUFFICES ASSUME b \in K
                   PROVE  /\ T[b] = "HEAD" => Y[b] > 0
                          /\ T[b] = "TAIL" => b > 0 /\ U[b - 1] # "FREE"
        BY <1>5
    <2>2. PICK m \in M : b \in m .. m + Z[m] - 1
        BY <1>3, <2>1
    <2>3. m \in Blk /\ m \in Nat /\ Z[m] \in Nat /\ Z[m] > 0 /\ b \in Nat
        BY <1>0, <1>4
    <2>4. T[b] = IF b = m THEN "HEAD" ELSE "TAIL"
        BY <2>2, <2>3, ChunkInUse
    <2>5. b = m => Y[b] > 0
        BY <2>3
    <2>6. ASSUME b # m PROVE b > 0 /\ U[b - 1] # "FREE"
        <3>1. b > 0 /\ b - 1 \in m .. m + Z[m] - 1
            BY <2>2, <2>3, <2>6
        <3>2. b - 1 \in Blk /\ T[b - 1] # "FREE"
            BY <2>3, <3>1, ChunkInUse
        <3> QED
            BY <1>3, <1>5, <3>1, <3>2
    <2> QED
        BY <2>4, <2>5, <2>6
<1>11. AreaBlocks(U, Y)
    BY <1>10 DEF AreaBlocks
<1>12. AreaOK(U, Y)
    BY <1>9, <1>11 DEF AreaOK
<1> QED
    BY <1>5, <1>6, <1>12

(* An area with nothing in it.                                             *)
LEMMA EmptyAreaOK ==
    ASSUME NEW T, NEW Z, AreaType(T, Z), \A b \in Blk : T[b] = "FREE" /\ Z[b] = 0
    PROVE  AreaOK(T, Z)
BY NBlocksType DEF AreaOK, AreaChunks, AreaBlocks
-----------------------------------------------------------------------------
(* All areas: the list l, the tables A, the indices f, the ends u, the     *)
(* area c the search starts from and the sizes S.                          *)
Members(l) == {l[k] : k \in 1 .. Len(l)}

PlaceOf(l, a) == CHOOSE k \in 1 .. Len(l) : l[k] = a

ListOK(l) ==
    /\ l \in Seq(Area)
    /\ Len(l) > 0 /\ l[1] = 1
    /\ \A j, k \in 1 .. Len(l) : l[j] = l[k] => j = k

Sizes(S, a) == [b \in Blk |-> S[<<a, b>>]]

Full(T) == \A b \in Blk : T[b] # "FREE"

FullBefore(T, i) == \A b \in Blk : b < i * BlocksPerAtb => T[b] # "FREE"

UsedUpTo(T, x) == \A b \in Blk : T[b] # "FREE" => b <= x

CoreTypes(A, f, u, S) ==
    /\ A \in [Area -> [Blk -> {"FREE", "HEAD", "TAIL"}]]
    /\ f \in [Area -> 0 .. Atbs]
    /\ u \in [Area -> 0 .. NBlocks]
    /\ S \in [Ptr -> 0 .. NBlocks]

Core(l, A, f, u, c, S) ==
    /\ ListOK(l)
    /\ CoreTypes(A, f, u, S)
    /\ c \in Members(l)
    /\ \A a \in Members(l) : AreaOK(A[a], Sizes(S, a))
    /\ \A a \in Members(l) : UsedUpTo(A[a], u[a])
    /\ \A a \in Members(l) : FullBefore(A[a], f[a])
    /\ \A k \in 1 .. PlaceOf(l, c) - 1 : Full(A[l[k]])

CallTypes ==
    /\ pc \in {"run", "search", "collect", "full", "move"}
    /\ n_blocks \in 0 .. MaxBlocks
    /\ collected \in BOOLEAN
    /\ added \in BOOLEAN
    /\ old = <<>> \/ old \in Ptr

CoreNow == Core(list, atb, free_index, used_block, free_area, size)

LEMMA PlaceOfMember ==
    ASSUME NEW l, ListOK(l), NEW a \in Members(l)
    PROVE  PlaceOf(l, a) \in 1 .. Len(l) /\ l[PlaceOf(l, a)] = a
<1>1. \E k \in 1 .. Len(l) : l[k] = a
    BY DEF Members
<1> QED
    BY <1>1, Zenon DEF PlaceOf

LEMMA PlaceIs ==
    ASSUME NEW l, ListOK(l), NEW k \in 1 .. Len(l)
    PROVE  l[k] \in Members(l) /\ PlaceOf(l, l[k]) = k
<1>1. l[k] \in Members(l)
    BY DEF Members
<1>2. PlaceOf(l, l[k]) \in 1 .. Len(l) /\ l[PlaceOf(l, l[k])] = l[k]
    BY <1>1, PlaceOfMember
<1> QED
    BY <1>1, <1>2 DEF ListOK

LEMMA FirstPlace ==
    ASSUME NEW l, ListOK(l)
    PROVE  1 \in Members(l) /\ PlaceOf(l, 1) = 1
<1>1. 1 \in 1 .. Len(l) /\ l[1] = 1
    BY DEF ListOK
<1> QED
    BY <1>1, PlaceIs

LEMMA MembersAreAreas ==
    ASSUME NEW l, ListOK(l) PROVE Members(l) \subseteq Area
BY DEF ListOK, Members

(* The tables of all areas, as TableIsChunks says it.                      *)
ChunkTables(L, A, S) ==
    /\ \A p \in {q \in Ptr : q[1] \in L /\ S[q] > 0} :
         /\ p[2] + S[p] <= NBlocks
         /\ A[p[1]][p[2]] = "HEAD"
         /\ \A b \in p[2] + 1 .. p[2] + S[p] - 1 : A[p[1]][b] = "TAIL"
         /\ KindOf(A[p[1]], p[2] + S[p]) # "TAIL"
    /\ \A a \in L, b \in Blk :
         /\ A[a][b] = "HEAD" => S[<<a, b>>] > 0
         /\ A[a][b] = "TAIL" => b > 0 /\ A[a][b - 1] # "FREE"

LEMMA TablesAreChunks ==
    ASSUME NEW L \in SUBSET Area,
           NEW A \in [Area -> [Blk -> {"FREE", "HEAD", "TAIL"}]],
           NEW S \in [Ptr -> 0 .. NBlocks]
    PROVE  (\A a \in L : AreaOK(A[a], Sizes(S, a)))
           <=> ChunkTables(L, A, S)
<1>0. \A a \in L : a \in Area /\ AreaType(A[a], Sizes(S, a))
    BY DEF AreaType, Sizes, Ptr
<1>1. \A a \in L, b \in Blk : Sizes(S, a)[b] = S[<<a, b>>]
    BY DEF Sizes
<1>2. (\A a \in L : AreaBlocks(A[a], Sizes(S, a)))
      <=> \A a \in L, b \in Blk :
            /\ A[a][b] = "HEAD" => S[<<a, b>>] > 0
            /\ A[a][b] = "TAIL" => b > 0 /\ A[a][b - 1] # "FREE"
    BY <1>1 DEF AreaBlocks
<1> DEFINE Good(a, b) == /\ b + S[<<a, b>>] <= NBlocks
                         /\ A[a][b] = "HEAD"
                         /\ \A x \in b + 1 .. b + S[<<a, b>>] - 1 : A[a][x] = "TAIL"
                         /\ KindOf(A[a], b + S[<<a, b>>]) # "TAIL"
           Fine(p) == /\ p[2] + S[p] <= NBlocks
                      /\ A[p[1]][p[2]] = "HEAD"
                      /\ \A b \in p[2] + 1 .. p[2] + S[p] - 1 : A[p[1]][b] = "TAIL"
                      /\ KindOf(A[p[1]], p[2] + S[p]) # "TAIL"
<1>3. (\A a \in L : AreaChunks(A[a], Sizes(S, a)))
      <=> \A a \in L, b \in Blk : S[<<a, b>>] > 0 => Good(a, b)
    <2>1. SUFFICES ASSUME NEW a \in L
                   PROVE  AreaChunks(A[a], Sizes(S, a))
                          <=> \A b \in Blk : S[<<a, b>>] > 0 => Good(a, b)
        BY Zenon
    <2> DEFINE Z == Sizes(S, a)
    <2>2. \A b \in Blk : Z[b] = S[<<a, b>>]
        BY <1>1
    <2> HIDE DEF Z
    <2>3. AreaChunks(A[a], Z) <=> \A b \in Blk : S[<<a, b>>] > 0 => Good(a, b)
        BY <2>2 DEF AreaChunks
    <2> QED
        BY <2>3 DEF Z
<1>4. \A a \in Area, b \in Blk : Fine(<<a, b>>) <=> Good(a, b)
    OBVIOUS
<1>5. \A p \in Ptr : p[1] \in Area /\ p[2] \in Blk /\ p = <<p[1], p[2]>>
    BY DEF Ptr
<1>6. \A a \in Area, b \in Blk : <<a, b>> \in Ptr /\ <<a, b>>[1] = a
    BY DEF Ptr
<1> HIDE DEF Good, Fine
<1>7. (\A p \in {q \in Ptr : q[1] \in L /\ S[q] > 0} : Fine(p))
      <=> \A a \in L, b \in Blk : S[<<a, b>>] > 0 => Good(a, b)
    <2>1. ASSUME \A p \in {q \in Ptr : q[1] \in L /\ S[q] > 0} : Fine(p),
                 NEW a \in L, NEW b \in Blk, S[<<a, b>>] > 0
          PROVE  Good(a, b)
        BY <2>1, <1>4, <1>6
    <2>2. ASSUME \A a \in L, b \in Blk : S[<<a, b>>] > 0 => Good(a, b),
                 NEW p \in Ptr, p[1] \in L, S[p] > 0
          PROVE  Fine(p)
        BY <2>2, <1>4, <1>5
    <2> QED
        BY <2>1, <2>2
<1>8. (\A a \in L : AreaOK(A[a], Sizes(S, a)))
      <=> /\ \A p \in {q \in Ptr : q[1] \in L /\ S[q] > 0} : Fine(p)
          /\ \A a \in L : AreaBlocks(A[a], Sizes(S, a))
    BY <1>0, <1>3, <1>7 DEF AreaOK
<1> QED
    BY <1>2, <1>8 DEF ChunkTables, Fine

LEMMA InvGivesCore ==
    ASSUME HeapInv
    PROVE  CoreNow /\ CallTypes /\ owned = Linked /\ Linked = Members(list)
           /\ FullMeansFull /\ CallInv /\ OldInv
<1>1. Linked = Members(list) /\ \A a : Position(a) = PlaceOf(list, a)
    BY DEF Linked, Members, Position, PlaceOf
<1>2. TypeOK /\ TableIsChunks /\ SweepReachesAll /\ AreasLinked /\ NoFreeBlockBefore
      /\ FullMeansFull /\ CallInv /\ OldInv
    BY DEF HeapInv, HeapConsistent, SearchComplete
<1>3. CallTypes
    BY <1>2 DEF TypeOK, CallTypes
<1>4. ListOK(list) /\ CoreTypes(atb, free_index, used_block, size) /\ free_area \in Members(list)
    BY <1>1, <1>2 DEF TypeOK, ListOK, CoreTypes
<1>5. Members(list) \subseteq Area
    BY <1>4, MembersAreAreas
<1>6. \A a \in Members(list) : AreaOK(atb[a], Sizes(size, a))
    <2>1. atb \in [Area -> [Blk -> {"FREE", "HEAD", "TAIL"}]] /\ size \in [Ptr -> 0 .. NBlocks]
        BY <1>4 DEF CoreTypes
    <2>2. ChunkTables(Members(list), atb, size)
        BY <1>1, <1>2 DEF TableIsChunks, Chunks, Kind, KindOf, ChunkTables
    <2> QED
        BY <1>5, <2>1, <2>2, TablesAreChunks
<1>7. \A a \in Members(list) : UsedUpTo(atb[a], used_block[a])
    BY <1>1, <1>2 DEF SweepReachesAll, UsedUpTo
<1>8. \A a \in Members(list) : FullBefore(atb[a], free_index[a])
    BY <1>1, <1>2 DEF NoFreeBlockBefore, FullBefore
<1>9. \A k \in 1 .. PlaceOf(list, free_area) - 1 : Full(atb[list[k]])
    BY <1>1, <1>2 DEF NoFreeBlockBefore, Full
<1>10. CoreNow
    BY <1>4, <1>6, <1>7, <1>8, <1>9 DEF CoreNow, Core
<1> QED
    BY <1>1, <1>2, <1>3, <1>10 DEF AreasLinked

LEMMA CoreGivesInv ==
    ASSUME CoreNow', CallTypes', owned' = Linked', FullMeansFull', CallInv', OldInv'
    PROVE  HeapInv'
<1>1. Linked' = Members(list') /\ Position(free_area)' = PlaceOf(list', free_area')
    BY DEF Linked, Members, Position, PlaceOf
<1>2. ListOK(list') /\ CoreTypes(atb', free_index', used_block', size')
      /\ free_area' \in Members(list')
      /\ (\A a \in Members(list') : AreaOK(atb'[a], Sizes(size', a)))
      /\ (\A a \in Members(list') : UsedUpTo(atb'[a], used_block'[a]))
      /\ (\A a \in Members(list') : FullBefore(atb'[a], free_index'[a]))
      /\ (\A k \in 1 .. PlaceOf(list', free_area') - 1 : Full(atb'[list'[k]]))
    BY DEF CoreNow, Core
<1>3. TypeOK'
    BY <1>1, <1>2 DEF TypeOK, CallTypes, ListOK, CoreTypes
<1>4. Members(list') \subseteq Area
    BY <1>2, MembersAreAreas
<1>5. TableIsChunks'
    <2>1. atb' \in [Area -> [Blk -> {"FREE", "HEAD", "TAIL"}]] /\ size' \in [Ptr -> 0 .. NBlocks]
        BY <1>2 DEF CoreTypes
    <2>2. ChunkTables(Members(list'), atb', size')
        BY <1>2, <1>4, <2>1, TablesAreChunks
    <2> QED
        BY <1>1, <2>2 DEF TableIsChunks, Chunks, Kind, KindOf, ChunkTables
<1>6. SweepReachesAll'
    BY <1>1, <1>2 DEF SweepReachesAll, UsedUpTo
<1>7. NoFreeBlockBefore'
    BY <1>1, <1>2 DEF NoFreeBlockBefore, FullBefore, Full
<1> QED
    BY <1>3, <1>5, <1>6, <1>7 DEF HeapInv, HeapConsistent, SearchComplete, AreasLinked
-----------------------------------------------------------------------------
(* A step that changes the table of one area, and one chunk in it.         *)
LEMMA OneArea ==
    ASSUME NEW l, NEW A, NEW f, NEW u, NEW c, NEW S, Core(l, A, f, u, c, S),
           NEW B, NEW g, NEW v, NEW d \in Members(l), NEW W, CoreTypes(B, g, v, W),
           NEW a \in Members(l),
           AreaOK(B[a], Sizes(W, a)), UsedUpTo(B[a], v[a]), FullBefore(B[a], g[a]),
           \A x \in Members(l) \ {a} :
               /\ B[x] = A[x] /\ v[x] = u[x] /\ \A b \in Blk : W[<<x, b>>] = S[<<x, b>>]
               /\ FullBefore(A[x], g[x]),
           \A k \in 1 .. PlaceOf(l, d) - 1 : Full(B[l[k]])
    PROVE  Core(l, B, g, v, d, W)
<1>1. ListOK(l) /\ (\A x \in Members(l) : AreaOK(A[x], Sizes(S, x)))
      /\ (\A x \in Members(l) : UsedUpTo(A[x], u[x]))
    BY DEF Core
<1>2. \A x \in Members(l) \ {a} : Sizes(W, x) = Sizes(S, x)
    BY DEF Sizes
<1>3. \A x \in Members(l) : AreaOK(B[x], Sizes(W, x)) /\ UsedUpTo(B[x], v[x]) /\ FullBefore(B[x], g[x])
    <2>1. TAKE x \in Members(l)
    <2>2. CASE x = a
        BY <2>2
    <2>3. CASE x # a
        BY <1>1, <1>2, <2>3
    <2> QED
        BY <2>2, <2>3
<1> QED
    BY <1>1, <1>3 DEF Core

(* gc_alloc, one block: an area searched in vain is full.                  *)
LEMMA VainIsFull ==
    ASSUME CoreNow, NEW a \in Members(list), RunEnds(a, 1) = {}
    PROVE  Full(atb[a])
<1>1. a \in Area /\ FullBefore(atb[a], free_index[a]) /\ free_index[a] \in Nat
    BY AtbsAssumption, MembersAreAreas DEF CoreNow, Core, CoreTypes
<1>2. SUFFICES ASSUME NEW b \in Blk, atb[a][b] = "FREE" PROVE FALSE
    BY DEF Full
<1>3. b \in Nat /\ b < NBlocks /\ free_index[a] * BlocksPerAtb \in Nat
    BY <1>1, NBlocksType, BlocksPerAtbAssumption
<1>4. ~ (b < free_index[a] * BlocksPerAtb)
    BY <1>1, <1>2 DEF FullBefore
<1>5. b - 1 + 1 = b /\ b - 1 + 1 .. b = {b}
    BY <1>3
<1>6. b \in RunEnds(a, 1)
    <2>1. b - 1 + 1 >= free_index[a] * BlocksPerAtb
        BY <1>3, <1>4, <1>5
    <2>2. \A x \in b - 1 + 1 .. b : Kind(a, x) = "FREE"
        BY <1>2, <1>3, <1>5 DEF Kind
    <2> QED
        BY <2>1, <2>2 DEF RunEnds
<1> QED
    BY <1>6

LEMMA AreaTypes ==
    ASSUME NEW A, NEW f, NEW u, NEW S, CoreTypes(A, f, u, S), NEW a \in Area
    PROVE  AreaType(A[a], Sizes(S, a)) /\ \A b \in Blk : Sizes(S, a)[b] = S[<<a, b>>]
BY DEF CoreTypes, AreaType, Sizes, Ptr

(* What the search finds: the first place with a run, and the first run.   *)
FirstRun(k, e, s) ==
    /\ Hits # {} /\ k = Lowest(Hits)
    /\ e = Lowest(RunEnds(list[k], n_blocks))
    /\ s = e - n_blocks + 1

LEMMA SearchFinds ==
    ASSUME CoreNow, n_blocks \in Nat \ {0}, NEW k, NEW e, NEW s, FirstRun(k, e, s)
    PROVE  /\ k \in 1 .. Len(list) /\ PlaceOf(list, free_area) <= k
           /\ \A j \in PlaceOf(list, free_area) .. k - 1 :
                 j \in 1 .. Len(list) /\ RunEnds(list[j], n_blocks) = {}
           /\ list[k] \in Members(list) /\ PlaceOf(list, list[k]) = k /\ list[k] \in Area
           /\ e \in RunEnds(list[k], n_blocks) /\ \A x \in RunEnds(list[k], n_blocks) : e <= x
           /\ e \in Blk /\ s \in Blk /\ s + n_blocks = e + 1 /\ s <= e
           /\ s >= free_index[list[k]] * BlocksPerAtb
           /\ \A b \in s .. e : b \in Blk /\ atb[list[k]][b] = "FREE"
<1>1. ListOK(list) /\ free_area \in Members(list) /\ free_index \in [Area -> 0 .. Atbs]
    BY DEF CoreNow, Core, CoreTypes
<1>2. \A a : Position(a) = PlaceOf(list, a)
    BY DEF Position, PlaceOf
<1>3. PlaceOf(list, free_area) \in 1 .. Len(list) /\ Len(list) \in Nat
    BY <1>1, PlaceOfMember DEF ListOK
<1>4. Hits \in SUBSET Nat
    BY <1>2, <1>3 DEF Hits
<1>5. k \in Hits /\ \A y \in Hits : k <= y
    BY <1>4, LowestOf DEF FirstRun
<1>6. k \in PlaceOf(list, free_area) .. Len(list) /\ RunEnds(list[k], n_blocks) # {}
    BY <1>2, <1>5 DEF Hits
<1>7. k \in 1 .. Len(list) /\ PlaceOf(list, free_area) <= k
    BY <1>3, <1>6
<1>8. \A j \in PlaceOf(list, free_area) .. k - 1 :
          j \in 1 .. Len(list) /\ RunEnds(list[j], n_blocks) = {}
    <2>1. TAKE j \in PlaceOf(list, free_area) .. k - 1
    <2>2. j \in 1 .. Len(list) /\ j \in PlaceOf(list, free_area) .. Len(list) /\ ~ (k <= j)
        BY <1>3, <1>6
    <2> QED
        BY <1>2, <1>5, <2>2 DEF Hits
<1>9. list[k] \in Members(list) /\ PlaceOf(list, list[k]) = k /\ list[k] \in Area
    BY <1>1, <1>7, PlaceIs, MembersAreAreas
<1>10. RunEnds(list[k], n_blocks) \in SUBSET Nat
    BY NBlocksType DEF RunEnds
<1>11. e \in RunEnds(list[k], n_blocks) /\ \A x \in RunEnds(list[k], n_blocks) : e <= x
    BY <1>6, <1>10, LowestOf DEF FirstRun
<1>12. e \in Blk /\ s >= free_index[list[k]] * BlocksPerAtb
       /\ \A b \in s .. e : Kind(list[k], b) = "FREE"
    BY <1>11 DEF RunEnds, FirstRun
<1>13. e \in Nat /\ e < NBlocks /\ NBlocks \in Nat
    BY <1>12, NBlocksType
<1>14. free_index[list[k]] * BlocksPerAtb \in Nat
    BY <1>1, <1>9, AtbsAssumption, BlocksPerAtbAssumption
<1>15. s \in Nat /\ s + n_blocks = e + 1 /\ s <= e
    BY <1>12, <1>13, <1>14 DEF FirstRun
<1>16. s \in Blk
    BY <1>13, <1>15, NBlocksType
<1>17. \A b \in s .. e : b \in Blk /\ b < NBlocks
    BY <1>13, <1>15, NBlocksType
<1>18. \A b \in s .. e : atb[list[k]][b] = "FREE"
    BY <1>12, <1>17 DEF Kind
<1> QED
    BY <1>7, <1>8, <1>9, <1>11, <1>12, <1>15, <1>16, <1>17, <1>18

(* Areas marked as filled are full.                                        *)
LEMMA FilledIsFull ==
    ASSUME CoreNow, n_blocks \in Nat, NEW k \in Nat,
           \A j \in PlaceOf(list, free_area) .. k - 1 :
               j \in 1 .. Len(list) /\ RunEnds(list[j], n_blocks) = {},
           NEW a \in Area
    PROVE  /\ FilledIndex(a, k) \in 0 .. Atbs
           /\ n_blocks # 1 => FilledIndex(a, k) = free_index[a]
           /\ a \in Members(list) => FullBefore(atb[a], FilledIndex(a, k))
<1>1. ListOK(list) /\ free_index \in [Area -> 0 .. Atbs]
      /\ \A x \in Members(list) : FullBefore(atb[x], free_index[x])
    BY DEF CoreNow, Core, CoreTypes
<1>2. \A x : Position(x) = PlaceOf(list, x)
    BY DEF Position, PlaceOf
<1>3. CASE n_blocks = 1 /\ a \in PassedOver(k)
    <2>1. FilledIndex(a, k) = (Atbs + 1) \div BlocksPerAtb
        BY <1>3 DEF FilledIndex
    <2>2. PICK j \in PlaceOf(list, free_area) .. k - 1 : a = list[j]
        BY <1>2, <1>3 DEF PassedOver
    <2>3. a \in Members(list) /\ RunEnds(a, 1) = {}
        BY <1>1, <1>3, <2>2, PlaceIs
    <2>4. Full(atb[a])
        BY <2>3, VainIsFull
    <2> QED
        BY <1>3, <2>1, <2>4, FilledAtb DEF Full, FullBefore
<1>4. CASE ~ (n_blocks = 1 /\ a \in PassedOver(k))
    <2>1. FilledIndex(a, k) = free_index[a]
        BY <1>4 DEF FilledIndex
    <2> QED
        BY <1>1, <2>1
<1> QED
    BY <1>3, <1>4

(* The tables after a run was found.                                       *)
LEMMA FoundKeepsCore ==
    ASSUME CoreNow, n_blocks \in Nat \ {0}, NEW k, NEW e, NEW s, FirstRun(k, e, s),
           Found(k, e), list' = list
    PROVE  CoreNow'
<1> DEFINE a == list[k]
<1>1. /\ k \in 1 .. Len(list) /\ PlaceOf(list, free_area) <= k
      /\ \A j \in PlaceOf(list, free_area) .. k - 1 :
            j \in 1 .. Len(list) /\ RunEnds(list[j], n_blocks) = {}
      /\ a \in Members(list) /\ PlaceOf(list, a) = k /\ a \in Area
      /\ e \in RunEnds(a, n_blocks) /\ \A x \in RunEnds(a, n_blocks) : e <= x
      /\ e \in Blk /\ s \in Blk /\ s + n_blocks = e + 1 /\ s <= e
      /\ s >= free_index[a] * BlocksPerAtb
      /\ \A b \in s .. e : b \in Blk /\ atb[a][b] = "FREE"
    BY SearchFinds
<1>2. ListOK(list) /\ CoreTypes(atb, free_index, used_block, size)
      /\ free_area \in Members(list)
      /\ (\A x \in Members(list) : AreaOK(atb[x], Sizes(size, x)) /\ UsedUpTo(atb[x], used_block[x])
                                   /\ FullBefore(atb[x], free_index[x]))
      /\ (\A j \in 1 .. PlaceOf(list, free_area) - 1 : Full(atb[list[j]]))
    BY DEF CoreNow, Core
<1>3. atb \in [Area -> [Blk -> {"FREE", "HEAD", "TAIL"}]] /\ free_index \in [Area -> 0 .. Atbs]
      /\ used_block \in [Area -> 0 .. NBlocks] /\ size \in [Ptr -> 0 .. NBlocks]
    BY <1>2 DEF CoreTypes
<1>4. NBlocks \in Nat /\ e \in Nat /\ s \in Nat /\ e < NBlocks /\ n_blocks \in 0 .. NBlocks
      /\ s = e + 1 - n_blocks /\ Blk \subseteq Nat /\ s + n_blocks <= NBlocks
    BY <1>1, NBlocksType
<1>5. Members(list) \subseteq Area
    BY <1>2, MembersAreAreas
<1>6. /\ atb' = [atb EXCEPT ![a] = [b \in Blk |->
                   IF b = s THEN "HEAD" ELSE IF s < b /\ b <= e THEN "TAIL" ELSE atb[a][b]]]
      /\ size' = [size EXCEPT ![<<a, s>>] = n_blocks]
      /\ free_area' = IF n_blocks = 1 THEN a ELSE free_area
      /\ free_index' = [x \in Area |->
             IF n_blocks = 1 /\ x = a THEN (e + 1) \div BlocksPerAtb ELSE FilledIndex(x, k)]
      /\ used_block' = [used_block EXCEPT ![a] = Highest({used_block[a], e})]
    BY DEF Found, FirstRun
<1> HIDE DEF a
<1>7. <<a, s>> \in Ptr /\ \A x \in Area, b \in Blk : <<x, b>> \in Ptr
                                  /\ (<<x, b>> = <<a, s>> <=> x = a /\ b = s)
    BY <1>1 DEF Ptr
<1>8. Highest({used_block[a], e}) \in 0 .. NBlocks /\ Highest({used_block[a], e}) >= used_block[a]
      /\ Highest({used_block[a], e}) >= e
    <2>1. used_block[a] \in 0 .. NBlocks /\ e \in 0 .. NBlocks
        BY <1>1, <1>3, <1>4
    <2> QED
        BY <1>4, <2>1, HighestOfTwo
<1>9. (e + 1) \div BlocksPerAtb \in 0 .. Atbs /\ ((e + 1) \div BlocksPerAtb) * BlocksPerAtb <= e + 1
    <2>1. e + 1 \in 0 .. NBlocks
        BY <1>4
    <2> QED
        BY <2>1, AtbOfBlock
<1>10. \A x \in Area : /\ FilledIndex(x, k) \in 0 .. Atbs
                       /\ n_blocks # 1 => FilledIndex(x, k) = free_index[x]
                       /\ x \in Members(list) => FullBefore(atb[x], FilledIndex(x, k))
    <2>1. k \in Nat /\ n_blocks \in Nat
        BY <1>1
    <2> QED
        BY <1>1, <2>1, FilledIsFull
<1>11. CoreTypes(atb', free_index', used_block', size')
    <2>1. atb' \in [Area -> [Blk -> {"FREE", "HEAD", "TAIL"}]]
        BY <1>1, <1>3, <1>6
    <2>2. free_index' \in [Area -> 0 .. Atbs]
        BY <1>6, <1>9, <1>10
    <2>3. used_block' \in [Area -> 0 .. NBlocks]
        BY <1>3, <1>6, <1>8
    <2>4. size' \in [Ptr -> 0 .. NBlocks]
        BY <1>3, <1>4, <1>6
    <2> QED
        BY <2>1, <2>2, <2>3, <2>4 DEF CoreTypes
<1>12. \A b \in Blk : atb'[a][b] = IF b = s THEN "HEAD"
                                   ELSE IF s < b /\ b < s + n_blocks THEN "TAIL" ELSE atb[a][b]
    <2>1. \A b \in Blk : atb'[a][b] = IF b = s THEN "HEAD"
                                   ELSE IF s < b /\ b <= e THEN "TAIL" ELSE atb[a][b]
        BY <1>1, <1>3, <1>6
    <2>2. \A b \in Blk : b <= e <=> b < s + n_blocks
        <3>1. \A b \in Nat : b <= e <=> b < e + 1
            BY <1>4
        <3> QED
            BY <1>1, <1>4, <3>1, Zenon
    <2> QED
        BY <2>1, <2>2
<1>13. \A x \in Area, b \in Blk : size'[<<x, b>>] = IF x = a /\ b = s THEN n_blocks ELSE size[<<x, b>>]
    BY <1>3, <1>6, <1>7
<1>14. AreaType(atb'[a], Sizes(size', a)) /\ (\A b \in Blk : Sizes(size', a)[b] = size'[<<a, b>>])
       /\ (\A b \in Blk : Sizes(size, a)[b] = size[<<a, b>>])
    BY <1>1, <1>2, <1>11, AreaTypes
<1>15. AreaOK(atb'[a], Sizes(size', a))
    <2>1. \A b \in Blk : Sizes(size', a)[b] = IF b = s THEN n_blocks ELSE Sizes(size, a)[b]
        BY <1>1, <1>13, <1>14
    <2>2. AreaOK(atb[a], Sizes(size, a))
        BY <1>1, <1>2
    <2>3. \A b \in s .. s + n_blocks - 1 : atb[a][b] = "FREE"
        <3>1. s + n_blocks - 1 = e
            BY <1>1, <1>4
        <3> QED
            BY <1>1, <3>1
    <2>4. s \in Blk /\ s + n_blocks <= NBlocks
        BY <1>1, <1>4
    <2> QED
        BY <1>12, <1>14, <2>1, <2>2, <2>3, <2>4, PlaceChunk
<1>16. \A x \in Area \ {a} : atb'[x] = atb[x] /\ used_block'[x] = used_block[x]
    BY <1>3, <1>6
<1>17. UsedUpTo(atb'[a], used_block'[a])
    <2>1. used_block'[a] >= used_block[a] /\ used_block'[a] >= e /\ used_block'[a] \in Nat
          /\ used_block[a] \in Nat
        BY <1>1, <1>3, <1>4, <1>6, <1>8
    <2>2. \A b \in Blk : atb[a][b] # "FREE" => b <= used_block[a]
        BY <1>1, <1>2 DEF UsedUpTo
    <2>3. SUFFICES ASSUME NEW b \in Blk, atb'[a][b] # "FREE" PROVE b <= used_block'[a]
        BY DEF UsedUpTo
    <2>4. b <= e \/ atb[a][b] # "FREE"
        <3>1. \A x \in Blk : x < s + n_blocks => x <= e
            <4>1. \A x \in Nat : x < e + 1 => x <= e
                BY <1>4
            <4> QED
                BY <1>1, <1>4, <4>1, Zenon
        <3> QED
            BY <1>1, <1>12, <2>3, <3>1, Zenon
    <2> QED
        BY <1>4, <2>1, <2>2, <2>4
<1>18. \A b \in Blk : atb'[a][b] = "FREE" => atb[a][b] = "FREE" /\ b # s
    BY <1>12
<1>19. FullBefore(atb'[a], free_index'[a])
    <2>1. FullBefore(atb[a], free_index[a]) /\ FullBefore(atb[a], FilledIndex(a, k))
        BY <1>1, <1>2, <1>10
    <2>2. CASE n_blocks # 1
        BY <1>1, <1>6, <1>18, <2>1, <2>2 DEF FullBefore
    <2>3. CASE n_blocks = 1
        <3>1. free_index'[a] = (e + 1) \div BlocksPerAtb
            BY <1>1, <1>6, <2>3
        <3>2. SUFFICES ASSUME NEW b \in Blk, b < free_index'[a] * BlocksPerAtb, atb'[a][b] = "FREE"
                       PROVE  FALSE
            BY DEF FullBefore
        <3>3. atb[a][b] = "FREE" /\ b # s /\ s = e
            BY <1>4, <1>18, <2>3, <3>2
        <3>4. b < e /\ b \in Nat
            <4>1. \A y \in Int : b < y /\ y <= e + 1 => b <= e
                BY <1>4
            <4>2. ((e + 1) \div BlocksPerAtb) * BlocksPerAtb \in Int
                BY <1>9, BlocksPerAtbAssumption
            <4>3. b <= e
                BY <1>9, <3>1, <3>2, <4>1, <4>2
            <4> QED
                BY <1>4, <3>3, <4>3
        <3>5. b \notin RunEnds(a, n_blocks)
            BY <1>1, <1>4, <3>4
        <3>6. b - n_blocks + 1 = b /\ b - n_blocks + 1 .. b = {b} /\ b < NBlocks
            BY <1>4, <2>3, <3>4
        <3>7. ~ (b >= free_index[a] * BlocksPerAtb)
            BY <3>3, <3>5, <3>6 DEF RunEnds, Kind
        <3>8. free_index[a] * BlocksPerAtb \in Nat
            BY <1>1, <1>3, AtbsAssumption, BlocksPerAtbAssumption
        <3>9. b < free_index[a] * BlocksPerAtb
            BY <3>4, <3>7, <3>8
        <3> QED
            BY <2>1, <3>3, <3>9 DEF FullBefore
    <2> QED
        BY <2>2, <2>3
<1>20. \A x \in Members(list) \ {a} : FullBefore(atb[x], free_index'[x])
    BY <1>5, <1>6, <1>10
<1>21. free_area' \in Members(list)
    BY <1>1, <1>2, <1>6
<1>22. \A j \in 1 .. PlaceOf(list, free_area') - 1 : Full(atb'[list[j]])
    <2>1. SUFFICES ASSUME NEW j \in 1 .. PlaceOf(list, free_area') - 1 PROVE Full(atb[list[j]])
        <3>1. PlaceOf(list, free_area') \in 1 .. Len(list) /\ Len(list) \in Nat
            BY <1>2, <1>21, PlaceOfMember DEF ListOK
        <3>2. \A j \in 1 .. PlaceOf(list, free_area') - 1 : j \in 1 .. Len(list)
            BY <3>1
        <3>3. \A j \in 1 .. PlaceOf(list, free_area') - 1 : list[j] \in Area
            BY <1>2, <1>5, <3>2, PlaceIs
        <3> QED
            BY <1>16, <1>18, <3>3 DEF Full
    <2>2. PlaceOf(list, free_area) \in 1 .. Len(list) /\ Len(list) \in Nat
        BY <1>2, PlaceOfMember DEF ListOK
    <2>3. CASE j < PlaceOf(list, free_area)
        <3>1. j \in 1 .. PlaceOf(list, free_area) - 1
            BY <2>2, <2>3
        <3> QED
            BY <1>2, <3>1
    <2>4. CASE ~ (j < PlaceOf(list, free_area))
        <3>1. n_blocks = 1 /\ free_area' = a
            BY <1>6, <2>2, <2>4
        <3>2. j \in PlaceOf(list, free_area) .. k - 1
            BY <1>1, <2>2, <2>4, <3>1
        <3>3. list[j] \in Members(list) /\ RunEnds(list[j], 1) = {}
            BY <1>1, <1>2, <3>1, <3>2, PlaceIs
        <3> QED
            BY <3>3, VainIsFull
    <2> QED
        BY <2>3, <2>4
<1>23. \A x \in Members(list) \ {a} : \A b \in Blk : size'[<<x, b>>] = size[<<x, b>>]
    BY <1>5, <1>13
<1>24. Core(list, atb, free_index, used_block, free_area, size)
    BY DEF CoreNow
<1>25. Core(list, atb', free_index', used_block', free_area', size')
    <2>1. \A x \in Members(list) \ {a} :
               /\ atb'[x] = atb[x] /\ used_block'[x] = used_block[x]
               /\ \A b \in Blk : size'[<<x, b>>] = size[<<x, b>>]
               /\ FullBefore(atb[x], free_index'[x])
        BY <1>5, <1>16, <1>20, <1>23
    <2>2. a \in Members(list)
        BY <1>1
    <2> QED
        BY <1>11, <1>15, <1>17, <1>19, <1>21, <1>22, <1>24, <2>1, <2>2, OneArea
<1> QED
    BY <1>25 DEF CoreNow

LEMMA VainIsNoRoom ==
    ASSUME CoreNow, n_blocks \in Nat \ {0}, NEW a \in Members(list), RunEnds(a, n_blocks) = {}
    PROVE  NoRoom(a)
<1>1. a \in Area /\ FullBefore(atb[a], free_index[a]) /\ free_index[a] \in Nat
    BY AtbsAssumption, MembersAreAreas DEF CoreNow, Core, CoreTypes
<1>2. SUFFICES ASSUME NEW s \in Blk, s + n_blocks <= NBlocks,
                      \A b \in s .. s + n_blocks - 1 : atb[a][b] = "FREE"
               PROVE  FALSE
    BY DEF NoRoom
<1> DEFINE e == s + n_blocks - 1
<1>3. s \in Nat /\ s < NBlocks /\ free_index[a] * BlocksPerAtb \in Nat /\ NBlocks \in Nat
    BY <1>1, NBlocksType, BlocksPerAtbAssumption
<1>4. e \in Blk /\ e - n_blocks + 1 = s /\ e < NBlocks /\ s \in s .. e
    BY <1>2, <1>3, NBlocksType
<1>5. ~ (s < free_index[a] * BlocksPerAtb)
    BY <1>1, <1>2, <1>4 DEF FullBefore
<1>6. \A b \in s .. e : Kind(a, b) = "FREE"
    BY <1>2 DEF Kind
<1> HIDE DEF e
<1>7. s >= free_index[a] * BlocksPerAtb
    BY <1>3, <1>5
<1>8. e \in RunEnds(a, n_blocks)
    BY <1>4, <1>6, <1>7 DEF RunEnds
<1> QED
    BY <1>8

LEMMA FullIsNoRoom ==
    ASSUME n_blocks \in Nat \ {0}, NEW a \in Area, Full(atb[a])
    PROVE  NoRoom(a)
<1>1. SUFFICES ASSUME NEW s \in Blk, s + n_blocks <= NBlocks
               PROVE  \E b \in s .. s + n_blocks - 1 : atb[a][b] # "FREE"
    BY DEF NoRoom
<1>2. s \in s .. s + n_blocks - 1
    BY NBlocksType
<1> QED
    BY <1>2 DEF Full

(* A search in vain: no area has room.                                     *)
LEMMA NoHitNoRoom ==
    ASSUME CoreNow, n_blocks \in Nat \ {0}, Hits = {}, NEW a \in Members(list)
    PROVE  NoRoom(a)
<1>1. ListOK(list) /\ free_area \in Members(list)
      /\ \A k \in 1 .. PlaceOf(list, free_area) - 1 : Full(atb[list[k]])
    BY DEF CoreNow, Core
<1>2. PlaceOf(list, free_area) \in 1 .. Len(list) /\ Len(list) \in Nat
    BY <1>1, PlaceOfMember DEF ListOK
<1>3. PlaceOf(list, a) \in 1 .. Len(list) /\ list[PlaceOf(list, a)] = a /\ a \in Area
    BY <1>1, PlaceOfMember, MembersAreAreas
<1>4. CASE PlaceOf(list, a) \in 1 .. PlaceOf(list, free_area) - 1
    BY <1>1, <1>3, <1>4, FullIsNoRoom
<1>5. CASE PlaceOf(list, a) \in PlaceOf(list, free_area) .. Len(list)
    <2>1. Position(free_area) = PlaceOf(list, free_area)
        BY DEF Position, PlaceOf
    <2>2. RunEnds(a, n_blocks) = {}
        BY <1>3, <1>5, <2>1 DEF Hits
    <2> QED
        BY <2>2, VainIsNoRoom
<1> QED
    BY <1>2, <1>3, <1>4, <1>5

LEMMA FullMeansNoRoom ==
    FullMeansFull <=> (pc = "full" => \A a \in Linked : NoRoom(a))
BY DEF FullMeansFull, NoRoom

(* gc_alloc returns.                                                       *)
LEMMA ReturnTypes ==
    ASSUME Return
    PROVE  CallTypes' /\ CallInv' /\ OldInv' /\ pc' # "full"
<1>1. pc' = "run" /\ n_blocks' = 0 /\ collected' = FALSE /\ added' = FALSE /\ old' = <<>>
    BY DEF Return
<1>2. 0 \in 0 .. MaxBlocks
    BY MaxBlocksAssumption
<1>3. collected' \in BOOLEAN /\ added' \in BOOLEAN
    BY <1>1
<1> QED
    BY <1>1, <1>2, <1>3 DEF CallTypes, CallInv, OldInv

LEMMA NotFoundStep ==
    ASSUME HeapInv, NotFound
    PROVE  HeapInv'
<1>1. CoreNow /\ CallTypes /\ owned = Linked /\ Linked = Members(list) /\ CallInv /\ OldInv
    BY InvGivesCore
<1>2. /\ pc = "search" /\ Hits = {}
      /\ free_index' = [a \in Area |-> FilledIndex(a, Len(list) + 1)]
      /\ pc' = IF collected THEN "full" ELSE "collect"
      /\ UNCHANGED <<list, owned, atb, used_block, free_area, size, n_blocks, collected, added, old>>
    BY DEF NotFound
<1>3. n_blocks \in Nat \ {0} /\ n_blocks \in 0 .. MaxBlocks
    BY <1>1, <1>2, MaxBlocksAssumption DEF CallTypes, CallInv
<1>4. \A a \in Members(list) : NoRoom(a)
    BY <1>1, <1>2, <1>3, NoHitNoRoom
<1>5. ListOK(list) /\ CoreTypes(atb, free_index, used_block, size) /\ free_area \in Members(list)
    BY <1>1 DEF CoreNow, Core
<1>6. \A x \in Area : /\ FilledIndex(x, Len(list) + 1) \in 0 .. Atbs
                      /\ x \in Members(list) => FullBefore(atb[x], FilledIndex(x, Len(list) + 1))
    <2>1. PlaceOf(list, free_area) \in 1 .. Len(list) /\ Len(list) \in Nat
        BY <1>5, PlaceOfMember DEF ListOK
    <2>2. \A j \in PlaceOf(list, free_area) .. Len(list) + 1 - 1 :
              j \in 1 .. Len(list) /\ j \in PlaceOf(list, free_area) .. Len(list)
        BY <2>1
    <2>3. Position(free_area) = PlaceOf(list, free_area)
        BY DEF Position, PlaceOf
    <2>4. \A j \in PlaceOf(list, free_area) .. Len(list) + 1 - 1 : RunEnds(list[j], n_blocks) = {}
        BY <1>2, <2>2, <2>3 DEF Hits
    <2>5. PICK k : k = Len(list) + 1
        OBVIOUS
    <2>6. k \in Nat /\ k - 1 = Len(list) + 1 - 1
        BY <2>1, <2>5
    <2>7. \A j \in PlaceOf(list, free_area) .. k - 1 :
              j \in 1 .. Len(list) /\ RunEnds(list[j], n_blocks) = {}
        BY <2>2, <2>4, <2>6
    <2> QED
        BY <1>1, <1>3, <2>5, <2>6, <2>7, FilledIsFull
<1>7. CoreNow'
    <2>1. CoreTypes(atb', free_index', used_block', size')
        BY <1>2, <1>5, <1>6 DEF CoreTypes
    <2>2. \A x \in Members(list) : FullBefore(atb[x], free_index'[x])
        BY <1>2, <1>5, <1>6, MembersAreAreas
    <2> QED
        BY <1>1, <1>2, <2>1, <2>2 DEF CoreNow, Core
<1>8. CallTypes' /\ CallInv'
    BY <1>1, <1>2 DEF CallTypes, CallInv
<1>9. Linked' = Linked /\ Chunks' = Chunks /\ owned' = Linked'
    BY <1>1, <1>2 DEF Linked, Chunks
<1>10. FullMeansFull'
    BY <1>1, <1>2, <1>4, <1>9 DEF FullMeansFull, NoRoom
<1>11. OldInv'
    BY <1>1, <1>2, <1>9 DEF OldInv
<1> QED
    BY <1>7, <1>8, <1>9, <1>10, <1>11, CoreGivesInv

LEMMA SearchStep ==
    ASSUME HeapInv, Search
    PROVE  HeapInv'
<1>1. CoreNow /\ CallTypes /\ owned = Linked /\ Linked = Members(list) /\ CallInv /\ OldInv
    BY InvGivesCore
<1>2. PICK k, e, s : FirstRun(k, e, s) /\ Found(k, e)
    BY DEF Search, FirstRun
<1>3. /\ pc = "search"
      /\ IF old = <<>> THEN Return ELSE pc' = "move" /\ UNCHANGED <<n_blocks, collected, added, old>>
      /\ list' = list /\ owned' = owned
    BY DEF Search
<1>4. n_blocks \in Nat \ {0} /\ n_blocks \in 0 .. MaxBlocks
    BY <1>1, <1>3, MaxBlocksAssumption DEF CallTypes, CallInv
<1>5. CoreNow'
    BY <1>1, <1>2, <1>3, <1>4, FoundKeepsCore
<1>6. CallTypes' /\ CallInv' /\ pc' # "full"
    <2>1. CASE old = <<>>
        BY <1>3, <2>1, ReturnTypes
    <2>2. CASE old # <<>>
        <3>1. pc' = "move" /\ n_blocks' = n_blocks /\ collected' = collected /\ added' = added
              /\ old' = old
            BY <1>3, <2>2
        <3> QED
            BY <1>1, <2>2, <3>1 DEF CallTypes, CallInv
    <2> QED
        BY <2>1, <2>2
<1>7. Linked' = Linked /\ owned' = Linked' /\ FullMeansFull'
    BY <1>1, <1>3, <1>6 DEF Linked, FullMeansFull
<1>8. /\ list[k] \in Members(list) /\ list[k] \in Area
      /\ e \in RunEnds(list[k], n_blocks) /\ \A x \in RunEnds(list[k], n_blocks) : e <= x
      /\ e \in Blk /\ s \in Blk /\ s + n_blocks = e + 1 /\ s <= e
      /\ \A b \in s .. e : b \in Blk /\ atb[list[k]][b] = "FREE"
    BY <1>1, <1>2, <1>4, SearchFinds
<1>9. size' = [size EXCEPT ![<<list[k], s>>] = n_blocks] /\ size \in [Ptr -> 0 .. NBlocks]
      /\ <<list[k], s>> \in Ptr
    BY <1>1, <1>2, <1>8 DEF Found, FirstRun, CoreNow, Core, CoreTypes, Ptr
<1>10. Chunks \subseteq Chunks' /\ <<list[k], s>> \in Chunks'
    <2>1. \A p \in Ptr : size'[p] = IF p = <<list[k], s>> THEN n_blocks ELSE size[p]
        BY <1>9
    <2>2. \A p \in Ptr : size[p] > 0 => size'[p] > 0
        BY <1>4, <2>1
    <2>3. size'[<<list[k], s>>] > 0 /\ <<list[k], s>>[1] = list[k]
        BY <1>4, <1>9, <2>1
    <2> QED
        BY <1>1, <1>7, <1>8, <1>9, <2>2, <2>3 DEF Chunks
<1>11. OldInv'
    <2>1. CASE old = <<>>
        BY <1>3, <2>1 DEF OldInv, Return
    <2>2. CASE old # <<>>
        <3>1. pc' = "move" /\ old' = old /\ collected' = collected
            BY <1>3, <2>2
        <3>2. CASE old \in Chunks
            BY <1>10, <3>1, <3>2 DEF OldInv
        <3>3. CASE collected /\ old[1] \notin Linked /\ old[2] = 0
            BY <1>7, <3>1, <3>3 DEF OldInv
        <3>4. CASE /\ old[1] \in Linked /\ old[2] = 0 /\ n_blocks <= NBlocks
                   /\ free_index[old[1]] = 0
                   /\ \A b \in Blk : atb[old[1]][b] = "FREE"
                   /\ \A a \in Linked \ {old[1]} : NoRoom(a)
            <4>0. NBlocks \in Nat /\ s \in Nat /\ e \in Nat /\ e < NBlocks /\ s = e - n_blocks + 1
                  /\ s + n_blocks <= NBlocks /\ s + n_blocks - 1 = e
                BY <1>4, <1>8, NBlocksType
            <4>1. list[k] = old[1]
                <5>1. SUFFICES ASSUME list[k] # old[1] PROVE FALSE
                    OBVIOUS
                <5>2. NoRoom(list[k])
                    BY <1>1, <1>8, <3>4, <5>1
                <5>3. \E b \in s .. e : atb[list[k]][b] # "FREE"
                    BY <1>8, <4>0, <5>2 DEF NoRoom
                <5> QED
                    BY <1>8, <5>3
            <4>2. n_blocks - 1 \in RunEnds(list[k], n_blocks)
                <5>1. n_blocks - 1 \in Blk /\ (n_blocks - 1) - n_blocks + 1 = 0
                    BY <1>4, <3>4, <4>0, NBlocksType
                <5>2. 0 >= free_index[list[k]] * BlocksPerAtb
                    BY <3>4, <4>1, BlocksPerAtbAssumption
                <5>3. \A b \in 0 .. n_blocks - 1 : b \in Blk
                    BY <1>4, <3>4, <4>0, NBlocksType
                <5>4. \A b \in 0 .. n_blocks - 1 : Kind(list[k], b) = "FREE"
                    BY <3>4, <4>1, <5>3 DEF Kind
                <5> QED
                    BY <5>1, <5>2, <5>4 DEF RunEnds
            <4>3. s = 0
                <5>1. e <= n_blocks - 1
                    BY <1>8, <4>2
                <5> QED
                    BY <1>4, <4>0, <5>1
            <4>4. old = <<list[k], s>>
                BY <1>1, <2>2, <3>4, <4>1, <4>3 DEF CallTypes, Ptr
            <4> QED
                BY <1>10, <3>1, <4>4 DEF OldInv
        <3> QED
            BY <1>1, <1>3, <2>2, <3>2, <3>3, <3>4 DEF OldInv
    <2> QED
        BY <2>1, <2>2
<1> QED
    BY <1>5, <1>6, <1>7, <1>11, CoreGivesInv
-----------------------------------------------------------------------------
LEMMA ChunkPlace ==
    ASSUME CoreNow, Linked = Members(list), NEW p \in Chunks
    PROVE  /\ p \in Ptr /\ p = <<p[1], p[2]>> /\ p[1] \in Members(list) /\ p[1] \in Area /\ p[2] \in Blk
           /\ p[2] \in Nat /\ size[p] \in Nat \ {0} /\ p[2] + size[p] <= NBlocks
           /\ TailEnd(p[1], p[2]) = p[2] + size[p]
<1>1. p \in Ptr /\ p[1] \in Members(list) /\ size[p] > 0
    BY DEF Chunks
<1>2. p = <<p[1], p[2]>> /\ p[1] \in Area /\ p[2] \in Blk
    BY <1>1 DEF Ptr
<1>3. CoreTypes(atb, free_index, used_block, size) /\ AreaOK(atb[p[1]], Sizes(size, p[1]))
    BY <1>1 DEF CoreNow, Core
<1>4. size[p] \in Nat \ {0} /\ p[2] \in Nat
    BY <1>1, <1>2, <1>3, NBlocksType DEF CoreTypes
<1>5. Sizes(size, p[1])[p[2]] = size[p]
    BY <1>2, <1>3, AreaTypes
<1> DEFINE T == atb[p[1]]
           Z == Sizes(size, p[1])
           b == p[2]
<1>6. Z[b] > 0 /\ AreaOK(T, Z) /\ b \in Blk
    BY <1>1, <1>2, <1>3, <1>5
<1>7. TailEnd(p[1], b) = Lowest({e \in b + 1 .. NBlocks : KindOf(T, e) # "TAIL"})
    BY DEF TailEnd, Kind, KindOf
<1>8. TailEnd(p[1], b) = b + Z[b]
    <2> HIDE DEF T, Z, b
    <2> QED
        BY <1>6, <1>7, TailsEnd
<1>9. b + Z[b] <= NBlocks
    <2> HIDE DEF T, Z, b
    <2> QED
        BY <1>6 DEF AreaOK, AreaChunks
<1> QED
    BY <1>1, <1>2, <1>4, <1>5, <1>8, <1>9

(* Free blocks appear from block y of area a on.                           *)
LEMMA ReleaseIndex ==
    ASSUME CoreNow, NEW a \in Area, NEW y \in 0 .. NBlocks, ReleaseFrom(a, y)
    PROVE  /\ free_index' \in [Area -> 0 .. Atbs]
           /\ \A x \in Area \ {a} : free_index'[x] = free_index[x]
           /\ \A b \in Blk : b < free_index'[a] * BlocksPerAtb =>
                                b < free_index[a] * BlocksPerAtb /\ b < y
<1>1. free_index \in [Area -> 0 .. Atbs]
    BY DEF CoreNow, Core, CoreTypes
<1> DEFINE q == y \div BlocksPerAtb
           m == Lowest({free_index[a], q})
<1>2. free_index' = [free_index EXCEPT ![a] = m]
    BY DEF ReleaseFrom
<1>3. q \in 0 .. Atbs /\ q * BlocksPerAtb <= y
    BY AtbOfBlock
<1>4. free_index[a] \in 0 .. Atbs
    BY <1>1
<1> HIDE DEF q
<1>5. m \in {free_index[a], q} /\ m <= free_index[a] /\ m <= q
    <2>1. free_index[a] \in Nat /\ q \in Nat
        BY <1>3, <1>4, AtbsAssumption
    <2> QED
        BY <2>1, LowestOfTwo
<1> HIDE DEF m
<1>6. m \in 0 .. Atbs
    BY <1>3, <1>4, <1>5
<1>7. m * BlocksPerAtb <= free_index[a] * BlocksPerAtb /\ m * BlocksPerAtb <= q * BlocksPerAtb
    <2>1. m \in Nat /\ free_index[a] \in Nat /\ q \in Nat /\ BlocksPerAtb \in Nat
        BY <1>3, <1>4, <1>6, AtbsAssumption, BlocksPerAtbAssumption
    <2> QED
        BY <1>5, <2>1, MulMonotonic
<1>8. m * BlocksPerAtb \in Nat /\ free_index[a] * BlocksPerAtb \in Nat /\ q * BlocksPerAtb \in Nat
    BY <1>3, <1>4, <1>6, AtbsAssumption, BlocksPerAtbAssumption
<1>9. free_index'[a] = m
    BY <1>1, <1>2
<1>10. \A b \in Blk : b < m * BlocksPerAtb => b < free_index[a] * BlocksPerAtb /\ b < y
    <2>1. \A b \in Blk : b \in Nat
        BY NBlocksType
    <2>2. \A i, j, n, b \in Nat : b < i /\ i <= j => b < j
        OBVIOUS
    <2>3. y \in Nat
        BY NBlocksType
    <2> QED
        BY <1>3, <1>7, <1>8, <2>1, <2>2, <2>3
<1> QED
    BY <1>1, <1>2, <1>6, <1>9, <1>10

(* gc_free and gc_realloc to fewer blocks: n blocks of chunk p remain.     *)
CutTo(p, n) ==
    /\ ReleaseFrom(p[1], p[2] + n)
    /\ atb' = [atb EXCEPT ![p[1]] = [x \in Blk |->
                 IF p[2] + n <= x /\ x < TailEnd(p[1], p[2]) THEN "FREE" ELSE atb[p[1]][x]]]
    /\ size' = [size EXCEPT ![p] = n]

LEMMA CutKeepsCore ==
    ASSUME CoreNow, Linked = Members(list), NEW p \in Chunks, NEW n \in Nat, n < size[p],
           CutTo(p, n), list' = list, used_block' = used_block
    PROVE  CoreNow'
<1>1. /\ p \in Ptr /\ p = <<p[1], p[2]>> /\ p[1] \in Members(list) /\ p[1] \in Area /\ p[2] \in Blk
      /\ p[2] \in Nat /\ size[p] \in Nat \ {0} /\ p[2] + size[p] <= NBlocks
      /\ TailEnd(p[1], p[2]) = p[2] + size[p]
    BY ChunkPlace
<1>2. PICK a, c : a = p[1] /\ c = p[2]
    OBVIOUS
<1>3. p = <<a, c>> /\ a \in Members(list) /\ a \in Area /\ c \in Blk /\ c \in Nat
      /\ size[p] \in Nat /\ c + size[p] <= NBlocks /\ TailEnd(a, c) = c + size[p]
    BY <1>1, <1>2
<1>4. ListOK(list) /\ CoreTypes(atb, free_index, used_block, size)
      /\ free_area \in Members(list)
      /\ (\A x \in Members(list) : AreaOK(atb[x], Sizes(size, x)) /\ UsedUpTo(atb[x], used_block[x])
                                   /\ FullBefore(atb[x], free_index[x]))
      /\ (\A j \in 1 .. PlaceOf(list, free_area) - 1 : Full(atb[list[j]]))
    BY DEF CoreNow, Core
<1>5. atb \in [Area -> [Blk -> {"FREE", "HEAD", "TAIL"}]] /\ free_index \in [Area -> 0 .. Atbs]
      /\ used_block \in [Area -> 0 .. NBlocks] /\ size \in [Ptr -> 0 .. NBlocks]
    BY <1>4 DEF CoreTypes
<1>6. NBlocks \in Nat /\ n \in 0 .. NBlocks /\ c + n \in 0 .. NBlocks
    BY <1>3, NBlocksType
<1>7. /\ free_index' \in [Area -> 0 .. Atbs]
      /\ \A x \in Area \ {a} : free_index'[x] = free_index[x]
      /\ \A b \in Blk : b < free_index'[a] * BlocksPerAtb =>
                           b < free_index[a] * BlocksPerAtb /\ b < c + n
    BY <1>2, <1>3, <1>6, ReleaseIndex DEF CutTo
<1>8. /\ \A x \in Area \ {a} : atb'[x] = atb[x]
      /\ \A x \in Blk : atb'[a][x] = IF c + n <= x /\ x < c + size[p] THEN "FREE" ELSE atb[a][x]
    BY <1>2, <1>3, <1>5 DEF CutTo
<1>9. CoreTypes(atb', free_index', used_block', size')
    <2>1. atb' \in [Area -> [Blk -> {"FREE", "HEAD", "TAIL"}]]
        BY <1>2, <1>3, <1>5 DEF CutTo
    <2>2. size' \in [Ptr -> 0 .. NBlocks]
        BY <1>5, <1>6 DEF CutTo
    <2> QED
        BY <1>5, <1>7, <2>1, <2>2 DEF CoreTypes
<1>10. \A x \in Area, b \in Blk : size'[<<x, b>>] = IF x = a /\ b = c THEN n ELSE size[<<x, b>>]
    <2>1. \A x \in Area, b \in Blk : <<x, b>> \in Ptr /\ (<<x, b>> = p <=> x = a /\ b = c)
        BY <1>3 DEF Ptr
    <2> QED
        BY <1>1, <1>5, <2>1 DEF CutTo
<1>11. AreaType(atb'[a], Sizes(size', a)) /\ (\A b \in Blk : Sizes(size', a)[b] = size'[<<a, b>>])
       /\ (\A b \in Blk : Sizes(size, a)[b] = size[<<a, b>>])
    BY <1>3, <1>4, <1>9, AreaTypes
<1>12. AreaOK(atb'[a], Sizes(size', a))
    <2>1. \A b \in Blk : Sizes(size', a)[b] = IF b = c THEN n ELSE Sizes(size, a)[b]
        BY <1>3, <1>10, <1>11
    <2>2. AreaOK(atb[a], Sizes(size, a))
        BY <1>3, <1>4
    <2>3. Sizes(size, a)[c] = size[p]
        BY <1>3, <1>11
    <2>4. n < Sizes(size, a)[c]
        BY <2>3
    <2>5. \A x \in Blk : atb'[a][x] = IF c + n <= x /\ x < c + Sizes(size, a)[c] THEN "FREE" ELSE atb[a][x]
        BY <1>8, <2>3
    <2> QED
        BY <1>3, <1>11, <2>1, <2>2, <2>4, <2>5, CutChunk
<1>13. UsedUpTo(atb'[a], used_block'[a])
    BY <1>3, <1>4, <1>8 DEF UsedUpTo
<1>14. FullBefore(atb'[a], free_index'[a])
    <2>1. SUFFICES ASSUME NEW b \in Blk, b < free_index'[a] * BlocksPerAtb PROVE atb'[a][b] # "FREE"
        BY DEF FullBefore
    <2>2. b < free_index[a] * BlocksPerAtb /\ b < c + n
        BY <1>7, <2>1
    <2>3. atb[a][b] # "FREE"
        BY <1>3, <1>4, <2>2 DEF FullBefore
    <2>4. ~ (c + n <= b)
        BY <1>3, <1>6, <2>2, NBlocksType
    <2> QED
        BY <1>8, <2>3, <2>4
<1>15. Members(list) \subseteq Area
    BY <1>4, MembersAreAreas
<1>16. \A x \in Members(list) \ {a} :
           /\ atb'[x] = atb[x] /\ used_block'[x] = used_block[x]
           /\ \A b \in Blk : size'[<<x, b>>] = size[<<x, b>>]
           /\ FullBefore(atb[x], free_index'[x])
    <2>1. TAKE x \in Members(list) \ {a}
    <2>2. x \in Area \ {a}
        BY <1>15
    <2> QED
        BY <1>4, <1>7, <1>8, <1>10, <2>2
<1>17. free_area' = IF free_area # a THEN 1 ELSE free_area
    BY <1>2 DEF ReleaseFrom, CutTo
<1>18. free_area' \in Members(list) /\ \A j \in 1 .. PlaceOf(list, free_area') - 1 : Full(atb'[list[j]])
    <2>1. CASE free_area # a
        <3>1. free_area' = 1 /\ 1 \in Members(list) /\ PlaceOf(list, 1) = 1
            BY <1>4, <1>17, <2>1, FirstPlace
        <3> QED
            BY <3>1
    <2>2. CASE free_area = a
        <3>1. PlaceOf(list, a) \in 1 .. Len(list) /\ Len(list) \in Nat
            <4>1. ListOK(list) /\ a \in Members(list)
                BY <1>3, <1>4
            <4> QED
                BY <4>1, PlaceOfMember DEF ListOK
        <3>2. \A j \in 1 .. PlaceOf(list, a) - 1 : j \in 1 .. Len(list) /\ j # PlaceOf(list, a)
            BY <3>1
        <3>3. \A j \in 1 .. PlaceOf(list, a) - 1 : list[j] \in Members(list) /\ list[j] # a
            BY <1>4, <3>2, PlaceIs
        <3>4. \A j \in 1 .. PlaceOf(list, a) - 1 : atb'[list[j]] = atb[list[j]]
            BY <1>16, <3>3
        <3> QED
            BY <1>4, <1>17, <2>2, <3>4
    <2> QED
        BY <2>1, <2>2
<1>19. Core(list, atb, free_index, used_block, free_area, size)
    BY DEF CoreNow
<1>20. Core(list, atb', free_index', used_block', free_area', size')
    BY <1>3, <1>9, <1>12, <1>13, <1>14, <1>16, <1>18, <1>19, OneArea, SMTT(30)
<1> QED
    BY <1>20 DEF CoreNow

(* A step of the program that leaves gc_alloc alone.                       *)
LEMMA ProgramKeeps ==
    ASSUME HeapInv, pc = "run", UNCHANGED callVars, CoreNow', owned' = Linked'
    PROVE  HeapInv'
<1>1. CallTypes /\ CallInv /\ OldInv
    BY InvGivesCore
<1>2. pc' = pc /\ n_blocks' = n_blocks /\ collected' = collected /\ added' = added /\ old' = old
    BY DEF callVars
<1>3. CallTypes' /\ CallInv' /\ OldInv' /\ FullMeansFull'
    BY <1>1, <1>2 DEF CallTypes, CallInv, OldInv, FullMeansFull
<1> QED
    BY <1>3, CoreGivesInv

(* FreeChunk of an allocated chunk.                                        *)
LEMMA FreeKeepsCore ==
    ASSUME CoreNow, Linked = Members(list), NEW p \in Chunks, FreeChunk(p)
    PROVE  CoreNow' /\ list' = list /\ owned' = owned
<1>1. p[2] \in Nat /\ size[p] \in Nat \ {0}
    BY ChunkPlace
<1>2. CutTo(p, 0) /\ list' = list /\ owned' = owned /\ used_block' = used_block
    <2>1. p[2] + 0 = p[2]
        BY <1>1
    <2> QED
        BY <2>1 DEF FreeChunk, CutTo
<1>3. 0 \in Nat /\ 0 < size[p]
    BY <1>1
<1> QED
    BY <1>2, <1>3, CutKeepsCore

LEMMA FreeStep ==
    ASSUME HeapInv, NEW p \in Chunks, gc_free(p)
    PROVE  HeapInv'
<1>1. CoreNow /\ owned = Linked /\ Linked = Members(list)
    BY InvGivesCore
<1>2. pc = "run" /\ UNCHANGED callVars /\ FreeChunk(p)
    BY DEF gc_free
<1>3. CoreNow' /\ list' = list /\ owned' = owned
    BY <1>1, <1>2, FreeKeepsCore
<1>4. owned' = Linked'
    BY <1>1, <1>3 DEF Linked
<1> QED
    BY <1>2, <1>3, <1>4, ProgramKeeps

LEMMA ShrinkStep ==
    ASSUME HeapInv, NEW p \in Chunks, NEW n \in 1 .. MaxBlocks, Shrink(p, n)
    PROVE  HeapInv'
<1>1. CoreNow /\ owned = Linked /\ Linked = Members(list)
    BY InvGivesCore
<1>2. p[2] \in Nat /\ size[p] \in Nat \ {0} /\ TailEnd(p[1], p[2]) = p[2] + size[p]
    BY <1>1, ChunkPlace
<1>3. pc = "run" /\ UNCHANGED callVars /\ n < TailEnd(p[1], p[2]) - p[2] /\ CutTo(p, n)
      /\ list' = list /\ owned' = owned /\ used_block' = used_block
    BY DEF Shrink, CutTo
<1>4. n \in Nat /\ n < size[p]
    BY <1>2, <1>3, MaxBlocksAssumption
<1>5. CoreNow'
    BY <1>1, <1>3, <1>4, CutKeepsCore
<1>6. owned' = Linked'
    BY <1>1, <1>3 DEF Linked
<1> QED
    BY <1>3, <1>5, <1>6, ProgramKeeps

(* gc_realloc after gc_alloc.  When the sweep has given the area of the    *)
(* old chunk back, what is freed is in no area of the list.                *)
LEMMA MoveStep ==
    ASSUME HeapInv, MoveDone
    PROVE  HeapInv'
<1>1. CoreNow /\ CallTypes /\ owned = Linked /\ Linked = Members(list) /\ CallInv /\ OldInv
    BY InvGivesCore
<1>2. pc = "move" /\ FreeChunk(old) /\ Return
    BY DEF MoveDone
<1>3. CallTypes' /\ CallInv' /\ OldInv' /\ pc' # "full"
    BY <1>2, ReturnTypes
<1>4. FullMeansFull'
    BY <1>3 DEF FullMeansFull
<1>5. list' = list /\ owned' = owned /\ used_block' = used_block
    BY <1>2 DEF FreeChunk
<1>6. owned' = Linked'
    BY <1>1, <1>5 DEF Linked
<1>7. old \in Chunks \/ (old[1] \notin Linked /\ old[2] = 0)
    BY <1>1, <1>2 DEF CallInv, OldInv
<1>8. CoreNow'
    <2>1. CASE old \in Chunks
        BY <1>1, <1>2, <2>1, FreeKeepsCore
    <2>2. CASE old[1] \notin Linked /\ old[2] = 0
        <3>1. PICK a \in Area, c \in Blk : old = <<a, c>>
            BY <1>1, <1>2 DEF CallTypes, CallInv, Ptr
        <3>2. a \notin Members(list) /\ old[1] = a /\ old[2] = c
            BY <1>1, <2>2, <3>1
        <3>3. ListOK(list) /\ CoreTypes(atb, free_index, used_block, size) /\ free_area \in Members(list)
              /\ (\A x \in Members(list) : AreaOK(atb[x], Sizes(size, x)) /\ UsedUpTo(atb[x], used_block[x])
                                           /\ FullBefore(atb[x], free_index[x]))
            BY <1>1 DEF CoreNow, Core
        <3>4. Members(list) \subseteq Area
            BY <3>3, MembersAreAreas
        <3>5. c \in 0 .. NBlocks /\ ReleaseFrom(a, c)
            BY <1>2, <3>2, NBlocksType DEF FreeChunk
        <3>6. free_index' \in [Area -> 0 .. Atbs]
              /\ \A x \in Area \ {a} : free_index'[x] = free_index[x]
            BY <1>1, <3>5, ReleaseIndex
        <3>7. free_area' = 1
            BY <3>2, <3>3, <3>5 DEF ReleaseFrom
        <3>8. atb \in [Area -> [Blk -> {"FREE", "HEAD", "TAIL"}]] /\ size \in [Ptr -> 0 .. NBlocks]
            BY <3>3 DEF CoreTypes
        <3>9. atb' \in [Area -> [Blk -> {"FREE", "HEAD", "TAIL"}]]
              /\ \A x \in Area \ {a} : atb'[x] = atb[x]
            BY <1>2, <3>2, <3>8 DEF FreeChunk
        <3>10. size' \in [Ptr -> 0 .. NBlocks]
               /\ \A x \in Area \ {a} : \A b \in Blk : size'[<<x, b>>] = size[<<x, b>>]
            <4>1. size' = [size EXCEPT ![<<a, c>>] = 0] /\ 0 \in 0 .. NBlocks
                BY <1>2, <3>1, NBlocksType DEF FreeChunk
            <4>2. \A x \in Area \ {a} : \A b \in Blk : <<x, b>> \in Ptr /\ <<x, b>> # <<a, c>>
                BY DEF Ptr
            <4> QED
                BY <3>8, <4>1, <4>2
        <3>11. CoreTypes(atb', free_index', used_block', size')
            BY <1>5, <3>3, <3>6, <3>9, <3>10 DEF CoreTypes
        <3>12. \A x \in Members(list) : x \in Area \ {a}
            BY <3>2, <3>4
        <3>13. \A x \in Members(list) : Sizes(size', x) = Sizes(size, x)
            BY <3>10, <3>12 DEF Sizes
        <3>14. \A x \in Members(list) : AreaOK(atb'[x], Sizes(size', x)) /\ UsedUpTo(atb'[x], used_block[x])
                                        /\ FullBefore(atb'[x], free_index'[x])
            BY <3>3, <3>6, <3>9, <3>12, <3>13
        <3>15. 1 \in Members(list) /\ PlaceOf(list, 1) = 1
            BY <3>3, FirstPlace
        <3>16. \A k \in 1 .. PlaceOf(list, 1) - 1 : Full(atb'[list[k]])
            BY <3>15
        <3>17. Core(list, atb', free_index', used_block, 1, size')
            BY <1>5, <3>3, <3>11, <3>14, <3>15, <3>16 DEF Core
        <3> QED
            BY <1>5, <3>7, <3>17 DEF CoreNow
    <2> QED
        BY <1>7, <2>1, <2>2
<1> QED
    BY <1>3, <1>4, <1>6, <1>8, CoreGivesInv

(* gc_realloc to more blocks: the blocks behind the chunk are free.        *)
LEMMA RoomIsFree ==
    ASSUME CoreNow, Linked = Members(list), NEW p \in Chunks, NEW n \in Nat, p[2] + n <= Room(p[1], p[2])
    PROVE  /\ p[2] + n <= NBlocks
           /\ \A x \in p[2] + size[p] .. p[2] + n - 1 : x \in Blk /\ atb[p[1]][x] = "FREE"
<1>1. p[2] \in Nat /\ size[p] \in Nat \ {0} /\ TailEnd(p[1], p[2]) = p[2] + size[p] /\ NBlocks \in Nat
      /\ p[2] < NBlocks
    BY ChunkPlace, NBlocksType
<1>2. PICK a, c, m : a = p[1] /\ c = p[2] /\ m = c + size[p]
    OBVIOUS
<1>3. c \in Nat /\ m \in Nat /\ m > c /\ c < NBlocks /\ TailEnd(a, c) = m
    BY <1>1, <1>2
<1> DEFINE R == {e \in c + 1 .. NBlocks : e = NBlocks \/ (e >= m /\ Kind(a, e) # "FREE")}
<1>4. R \in SUBSET Nat /\ NBlocks \in R
    BY <1>1, <1>3
<1>5. Room(a, c) = Lowest(R)
    BY <1>3 DEF Room
<1> HIDE DEF R
<1>6. Lowest(R) \in R /\ \A y \in R : Lowest(R) <= y
    BY <1>4, LowestOf
<1>7. PICK r : r = Room(a, c)
    OBVIOUS
<1>8. r \in R /\ (\A y \in R : r <= y) /\ r \in Nat /\ r <= NBlocks /\ c + n <= r
    BY <1>2, <1>4, <1>5, <1>6, <1>7
<1>9. c + n <= NBlocks
    BY <1>1, <1>3, <1>8
<1>10. ASSUME NEW x \in m .. c + n - 1 PROVE x \in Blk /\ atb[a][x] = "FREE"
    <2>1. x \in Nat /\ x < r /\ x >= m /\ x < NBlocks /\ x \in c + 1 .. NBlocks
        BY <1>1, <1>3, <1>8
    <2>2. x \notin R
        BY <1>8, <2>1
    <2>3. x \in Blk
        BY <2>1, <1>1, NBlocksType
    <2> QED
        BY <2>1, <2>2, <2>3 DEF R, Kind
<1> QED
    BY <1>2, <1>9, <1>10

ExpandTo(p, n) ==
    /\ atb' = [atb EXCEPT ![p[1]] = [x \in Blk |->
                 IF TailEnd(p[1], p[2]) <= x /\ x < p[2] + n THEN "TAIL" ELSE atb[p[1]][x]]]
    /\ used_block' = [used_block EXCEPT ![p[1]] = Highest({used_block[p[1]], p[2] + n})]
    /\ size' = [size EXCEPT ![p] = n]
    /\ UNCHANGED <<list, owned, free_area, free_index>>

LEMMA ExpandKeepsCore ==
    ASSUME CoreNow, Linked = Members(list), NEW p \in Chunks, NEW n \in Nat, n > size[p],
           p[2] + n <= Room(p[1], p[2]), ExpandTo(p, n)
    PROVE  CoreNow'
<1>1. /\ p \in Ptr /\ p = <<p[1], p[2]>> /\ p[1] \in Members(list) /\ p[1] \in Area /\ p[2] \in Blk
      /\ p[2] \in Nat /\ size[p] \in Nat \ {0} /\ p[2] + size[p] <= NBlocks
      /\ TailEnd(p[1], p[2]) = p[2] + size[p]
    BY ChunkPlace
<1>2. PICK a, c : a = p[1] /\ c = p[2]
    OBVIOUS
<1>3. p = <<a, c>> /\ a \in Members(list) /\ a \in Area /\ c \in Blk /\ c \in Nat
      /\ size[p] \in Nat /\ size[p] > 0 /\ c + size[p] <= NBlocks /\ TailEnd(a, c) = c + size[p]
    BY <1>1, <1>2
<1>4. ListOK(list) /\ CoreTypes(atb, free_index, used_block, size)
      /\ free_area \in Members(list)
      /\ (\A x \in Members(list) : AreaOK(atb[x], Sizes(size, x)) /\ UsedUpTo(atb[x], used_block[x])
                                   /\ FullBefore(atb[x], free_index[x]))
      /\ (\A j \in 1 .. PlaceOf(list, free_area) - 1 : Full(atb[list[j]]))
    BY DEF CoreNow, Core
<1>5. atb \in [Area -> [Blk -> {"FREE", "HEAD", "TAIL"}]] /\ free_index \in [Area -> 0 .. Atbs]
      /\ used_block \in [Area -> 0 .. NBlocks] /\ size \in [Ptr -> 0 .. NBlocks]
    BY <1>4 DEF CoreTypes
<1>6. c + n <= NBlocks /\ \A x \in c + size[p] .. c + n - 1 : x \in Blk /\ atb[a][x] = "FREE"
    BY <1>2, RoomIsFree
<1>7. NBlocks \in Nat /\ n \in 0 .. NBlocks /\ c + n \in 0 .. NBlocks
    BY <1>3, <1>6, NBlocksType
<1>8. Highest({used_block[a], c + n}) \in 0 .. NBlocks /\ Highest({used_block[a], c + n}) >= used_block[a]
      /\ Highest({used_block[a], c + n}) >= c + n
    <2>1. used_block[a] \in 0 .. NBlocks
        BY <1>3, <1>5
    <2> QED
        BY <1>7, <2>1, HighestOfTwo
<1>9. /\ \A x \in Area \ {a} : atb'[x] = atb[x] /\ used_block'[x] = used_block[x]
      /\ \A x \in Blk : atb'[a][x] = IF c + size[p] <= x /\ x < c + n THEN "TAIL" ELSE atb[a][x]
      /\ used_block'[a] = Highest({used_block[a], c + n})
    BY <1>2, <1>3, <1>5 DEF ExpandTo
<1>10. CoreTypes(atb', free_index', used_block', size')
    <2>1. atb' \in [Area -> [Blk -> {"FREE", "HEAD", "TAIL"}]]
        BY <1>2, <1>3, <1>5 DEF ExpandTo
    <2>2. size' \in [Ptr -> 0 .. NBlocks]
        BY <1>5, <1>7 DEF ExpandTo
    <2>3. used_block' \in [Area -> 0 .. NBlocks]
        BY <1>2, <1>5, <1>8 DEF ExpandTo
    <2>4. free_index' = free_index
        BY DEF ExpandTo
    <2> QED
        BY <1>5, <2>1, <2>2, <2>3, <2>4 DEF CoreTypes
<1>11. \A x \in Area, b \in Blk : size'[<<x, b>>] = IF x = a /\ b = c THEN n ELSE size[<<x, b>>]
    <2>1. \A x \in Area, b \in Blk : <<x, b>> \in Ptr /\ (<<x, b>> = p <=> x = a /\ b = c)
        BY <1>3 DEF Ptr
    <2> QED
        BY <1>1, <1>5, <2>1 DEF ExpandTo
<1>12. AreaType(atb'[a], Sizes(size', a)) /\ (\A b \in Blk : Sizes(size', a)[b] = size'[<<a, b>>])
       /\ (\A b \in Blk : Sizes(size, a)[b] = size[<<a, b>>])
    BY <1>3, <1>4, <1>10, AreaTypes
<1>13. AreaOK(atb'[a], Sizes(size', a))
    <2>1. \A b \in Blk : Sizes(size', a)[b] = IF b = c THEN n ELSE Sizes(size, a)[b]
        BY <1>3, <1>11, <1>12
    <2>2. AreaOK(atb[a], Sizes(size, a))
        BY <1>3, <1>4
    <2>3. Sizes(size, a)[c] = size[p]
        BY <1>3, <1>12
    <2>4. Sizes(size, a)[c] > 0 /\ n > Sizes(size, a)[c]
        BY <1>3, <2>3
    <2>5. \A x \in Blk : atb'[a][x] = IF c + Sizes(size, a)[c] <= x /\ x < c + n THEN "TAIL" ELSE atb[a][x]
        BY <1>9, <2>3
    <2>6. \A x \in c + Sizes(size, a)[c] .. c + n - 1 : atb[a][x] = "FREE"
        BY <1>6, <2>3
    <2> QED
        BY <1>3, <1>6, <1>12, <2>1, <2>2, <2>4, <2>5, <2>6, ExtendChunk
<1>14. \A b \in Blk : atb[a][b] # "FREE" => atb'[a][b] # "FREE"
    BY <1>9
<1>15. UsedUpTo(atb'[a], used_block'[a])
    <2>1. SUFFICES ASSUME NEW b \in Blk, atb'[a][b] # "FREE" PROVE b <= used_block'[a]
        BY DEF UsedUpTo
    <2>2. used_block'[a] \in Nat /\ used_block'[a] >= used_block[a] /\ used_block'[a] >= c + n
          /\ used_block[a] \in Nat /\ b \in Nat
        BY <1>3, <1>5, <1>7, <1>8, <1>9, NBlocksType
    <2>3. b < c + n \/ atb[a][b] # "FREE"
        BY <1>9, <2>1
    <2>4. atb[a][b] # "FREE" => b <= used_block[a]
        BY <1>3, <1>4 DEF UsedUpTo
    <2> QED
        BY <1>7, <2>2, <2>3, <2>4
<1>16. free_index' = free_index /\ free_area' = free_area /\ list' = list
    BY DEF ExpandTo
<1>17. FullBefore(atb'[a], free_index'[a])
    BY <1>3, <1>4, <1>14, <1>16 DEF FullBefore
<1>18. Members(list) \subseteq Area
    BY <1>4, MembersAreAreas
<1>19. \A x \in Members(list) \ {a} :
           /\ atb'[x] = atb[x] /\ used_block'[x] = used_block[x]
           /\ \A b \in Blk : size'[<<x, b>>] = size[<<x, b>>]
           /\ FullBefore(atb[x], free_index'[x])
    <2>1. TAKE x \in Members(list) \ {a}
    <2>2. x \in Area \ {a}
        BY <1>18
    <2> QED
        BY <1>4, <1>9, <1>11, <1>16, <2>2
<1>20. \A j \in 1 .. PlaceOf(list, free_area') - 1 : Full(atb'[list[j]])
    <2>1. PlaceOf(list, free_area) \in 1 .. Len(list) /\ Len(list) \in Nat
        <3>1. ListOK(list) /\ free_area \in Members(list)
            BY <1>4
        <3> QED
            BY <3>1, PlaceOfMember DEF ListOK
    <2>2. \A j \in 1 .. PlaceOf(list, free_area) - 1 : j \in 1 .. Len(list)
        BY <2>1
    <2>3. \A j \in 1 .. PlaceOf(list, free_area) - 1 : list[j] \in Members(list)
        BY <1>4, <2>2, PlaceIs
    <2>4. \A x \in Members(list) : Full(atb[x]) => Full(atb'[x])
        BY <1>14, <1>19 DEF Full
    <2> QED
        BY <1>4, <1>16, <2>3, <2>4
<1>21. Core(list, atb, free_index, used_block, free_area, size)
    BY DEF CoreNow
<1>22. free_area' \in Members(list)
    BY <1>4, <1>16
<1>23. Core(list, atb', free_index', used_block', free_area', size')
    BY <1>3, <1>10, <1>13, <1>15, <1>17, <1>19, <1>20, <1>21, <1>22, OneArea
<1> QED
    BY <1>16, <1>23 DEF CoreNow

LEMMA ExpandStep ==
    ASSUME HeapInv, NEW p \in Chunks, NEW n \in 1 .. MaxBlocks, Expand(p, n)
    PROVE  HeapInv'
<1>1. CoreNow /\ owned = Linked /\ Linked = Members(list)
    BY InvGivesCore
<1>2. p[2] \in Nat /\ size[p] \in Nat \ {0} /\ TailEnd(p[1], p[2]) = p[2] + size[p]
    BY <1>1, ChunkPlace
<1>3. pc = "run" /\ UNCHANGED callVars /\ n > TailEnd(p[1], p[2]) - p[2] /\ ExpandTo(p, n)
      /\ p[2] + n <= Room(p[1], p[2])
    BY DEF Expand, ExpandTo
<1>4. n \in Nat /\ n > size[p]
    BY <1>2, <1>3, MaxBlocksAssumption
<1>5. CoreNow'
    BY <1>1, <1>3, <1>4, ExpandKeepsCore
<1>6. owned' = Linked'
    BY <1>1, <1>3 DEF Linked, ExpandTo
<1> QED
    BY <1>3, <1>5, <1>6, ProgramKeeps
-----------------------------------------------------------------------------
(* The list without areas other than the first.                            *)
LEMMA WithoutList ==
    ASSUME ListOK(list), NEW G, 1 \notin G, NEW l \in Without(G)
    PROVE  ListOK(l) /\ Members(l) = Members(list) \ G
<1>1. PICK n \in 0 .. Len(list) : l \in [1 .. n -> Area]
    BY DEF Without
<1>2. n \in Nat
    <2>1. Len(list) \in Nat
        BY DEF ListOK
    <2> QED
        BY <2>1
<1>3. l \in Seq(Area) /\ Len(l) = n /\ DOMAIN l = 1 .. Len(l)
    BY <1>1, <1>2
<1>4. Members(list) = Linked /\ \A a : Position(a) = PlaceOf(list, a)
    BY DEF Members, Linked, Position, PlaceOf
<1>5. Members(l) = Members(list) \ G
      /\ \A j, k \in 1 .. Len(l) : j < k => PlaceOf(list, l[j]) < PlaceOf(list, l[k])
    BY <1>3, <1>4 DEF Without, Members
<1>6. \A k \in 1 .. Len(l) : l[k] \in Members(list)
    BY <1>5 DEF Members
<1>7. \A k \in 1 .. Len(l) : PlaceOf(list, l[k]) \in 1 .. Len(list)
    BY <1>6, PlaceOfMember
<1>8. \A k \in 1 .. Len(l) : PlaceOf(list, l[k]) \in Nat /\ PlaceOf(list, l[k]) >= 1
    <2>1. Len(list) \in Nat
        BY DEF ListOK
    <2> QED
        BY <1>7, <2>1
<1>9. 1 \in Members(list) /\ PlaceOf(list, 1) = 1
    BY FirstPlace
<1>10. PICK k \in 1 .. Len(l) : l[k] = 1
    <2>1. 1 \in Members(l)
        BY <1>5, <1>9
    <2> QED
        BY <2>1 DEF Members
<1>11. k = 1
    <2>1. SUFFICES ASSUME k # 1 PROVE FALSE
        OBVIOUS
    <2>2. 1 \in 1 .. Len(l) /\ 1 < k
        BY <1>2, <1>3, <1>10, <2>1
    <2>3. PlaceOf(list, l[1]) < PlaceOf(list, l[k])
        BY <1>5, <2>2
    <2>4. PlaceOf(list, l[k]) = 1
        BY <1>9, <1>10
    <2> QED
        BY <1>8, <2>2, <2>3, <2>4
<1>12. ASSUME NEW i \in 1 .. Len(l), NEW j \in 1 .. Len(l), l[i] = l[j], i # j PROVE FALSE
    <2>1. i < j \/ j < i
        BY <1>2, <1>3, <1>12
    <2>2. PlaceOf(list, l[i]) < PlaceOf(list, l[j]) \/ PlaceOf(list, l[j]) < PlaceOf(list, l[i])
        BY <1>5, <2>1
    <2>3. PlaceOf(list, l[i]) = PlaceOf(list, l[j])
        BY <1>12
    <2>4. PlaceOf(list, l[i]) \in Nat
        BY <1>8
    <2> QED
        BY <2>2, <2>3, <2>4
<1>13. Len(l) > 0 /\ l[1] = 1
    BY <1>2, <1>3, <1>10, <1>11
<1>14. ListOK(l)
    BY <1>3, <1>12, <1>13 DEF ListOK
<1> QED
    BY <1>5, <1>14

LEMMA LastUsed ==
    ASSUME NEW K \in SUBSET (Area \X (0 .. NBlocks)), NEW a \in Area
    PROVE  last_used_block(a, K) \in 0 .. NBlocks
           /\ \A b : <<a, b>> \in K => b <= last_used_block(a, K)
<1> DEFINE S == {0} \cup {q[2] : q \in {r \in K : r[1] = a}}
<1>1. NBlocks \in Nat
    BY NBlocksType
<1>2. S \in SUBSET (0 .. NBlocks) /\ S # {}
    BY <1>1
<1>3. \A b : <<a, b>> \in K => b \in S
    <2>1. TAKE b
    <2>2. HAVE <<a, b>> \in K
    <2>3. <<a, b>> \in {r \in K : r[1] = a} /\ <<a, b>>[2] = b
        BY <2>2
    <2> QED
        BY <2>3
<1>4. last_used_block(a, K) = Highest(S)
    BY DEF last_used_block
<1> HIDE DEF S
<1>5. Highest(S) \in S /\ \A y \in S : y <= Highest(S)
    BY <1>1, <1>2, HighestOf
<1> QED
    BY <1>2, <1>3, <1>4, <1>5

(* The blocks the sweep keeps.                                             *)
LEMMA KeptBlocks ==
    ASSUME CoreNow, Linked = Members(list), NEW M \in SUBSET Chunks
    PROVE  /\ Kept(M) \in SUBSET (Area \X (0 .. NBlocks))
           /\ \A a, x : <<a, x>> \in Kept(M) <=>
                 \E m : /\ <<a, m>> \in M /\ x \in m .. used_block[a]
                        /\ \A y \in m + 1 .. x : KindOf(atb[a], y) = "TAIL"
<1>1. \A p \in M : p \in Ptr /\ p = <<p[1], p[2]>> /\ p[1] \in Area /\ p[2] \in Blk
    BY ChunkPlace
<1>2. used_block \in [Area -> 0 .. NBlocks]
    BY DEF CoreNow, Core, CoreTypes
<1> DEFINE B(p) == {b \in p[2] .. used_block[p[1]] :
                      \A x \in p[2] + 1 .. b : Kind(p[1], x) = "TAIL"}
<1>3. Kept(M) = UNION {{p[1]} \X B(p) : p \in M}
    BY DEF Kept
<1>4. \A p \in M : B(p) \subseteq 0 .. NBlocks
    <2>1. TAKE p \in M
    <2>2. p[2] \in Nat /\ used_block[p[1]] \in Nat /\ used_block[p[1]] <= NBlocks /\ NBlocks \in Nat
        BY <1>1, <1>2, NBlocksType
    <2>3. \A b \in p[2] .. used_block[p[1]] : b \in 0 .. NBlocks
        BY <2>2
    <2> QED
        BY <2>3
<1>5. \A p \in M : \A b : b \in B(p) <=> /\ b \in p[2] .. used_block[p[1]]
                                          /\ \A x \in p[2] + 1 .. b : KindOf(atb[p[1]], x) = "TAIL"
    BY DEF Kind, KindOf
<1> HIDE DEF B
<1>6. \A q : q \in Kept(M) <=> \E p \in M : q \in {p[1]} \X B(p)
    BY <1>3
<1>7. \A a, x : <<a, x>> \in Kept(M) <=> \E p \in M : a = p[1] /\ x \in B(p)
    <2>1. \A a, x, p : <<a, x>> \in {p[1]} \X B(p) <=> a = p[1] /\ x \in B(p)
        OBVIOUS
    <2> QED
        BY <1>6, <2>1
<1>8. Kept(M) \in SUBSET (Area \X (0 .. NBlocks))
    <2>1. \A p \in M : {p[1]} \X B(p) \subseteq Area \X (0 .. NBlocks)
        BY <1>1, <1>4
    <2> QED
        BY <1>6, <2>1
<1>9. ASSUME NEW a, NEW x
      PROVE  <<a, x>> \in Kept(M) <=>
                 \E m : /\ <<a, m>> \in M /\ x \in m .. used_block[a]
                        /\ \A y \in m + 1 .. x : KindOf(atb[a], y) = "TAIL"
    <2>1. ASSUME <<a, x>> \in Kept(M)
          PROVE  \E m : /\ <<a, m>> \in M /\ x \in m .. used_block[a]
                        /\ \A y \in m + 1 .. x : KindOf(atb[a], y) = "TAIL"
        <3>1. PICK p \in M : a = p[1] /\ x \in B(p)
            BY <1>7, <2>1
        <3>2. <<a, p[2]>> \in M /\ x \in p[2] .. used_block[a]
              /\ \A y \in p[2] + 1 .. x : KindOf(atb[a], y) = "TAIL"
            BY <1>1, <1>5, <3>1
        <3> QED
            BY <3>2
    <2>2. ASSUME NEW m, <<a, m>> \in M, x \in m .. used_block[a],
                 \A y \in m + 1 .. x : KindOf(atb[a], y) = "TAIL"
          PROVE  <<a, x>> \in Kept(M)
        <3>1. <<a, m>>[1] = a /\ <<a, m>>[2] = m
            OBVIOUS
        <3>2. x \in B(<<a, m>>)
            BY <1>5, <2>2, <3>1
        <3> QED
            BY <1>7, <2>2, <3>1, <3>2
    <2> QED
        BY <2>1, <2>2
<1> QED
    BY <1>8, <1>9

(* One area of the list, swept.                                            *)
LEMMA SweptArea ==
    ASSUME CoreNow, Linked = Members(list), NEW M \in SUBSET Chunks, gc_sweep(M), NEW a \in Linked
    PROVE  /\ AreaOK(atb'[a], Sizes(size', a)) /\ UsedUpTo(atb'[a], used_block'[a])
           /\ \A m : <<a, m>> \in M => m <= last_used_block(a, Kept(M)) /\ m \in Nat
<1>1. /\ atb' = [x \in Area |-> [b \in Blk |->
                   IF x \in Linked /\ b <= used_block[x] /\ <<x, b>> \notin Kept(M)
                   THEN "FREE" ELSE atb[x][b]]]
      /\ used_block' = [x \in Area |-> last_used_block(x, Kept(M))]
      /\ size' = [p \in Ptr |-> IF p \in M THEN size[p] ELSE 0]
    BY DEF gc_sweep
<1>2. ListOK(list) /\ CoreTypes(atb, free_index, used_block, size)
      /\ AreaOK(atb[a], Sizes(size, a)) /\ UsedUpTo(atb[a], used_block[a])
    BY DEF CoreNow, Core
<1>3. a \in Area /\ atb \in [Area -> [Blk -> {"FREE", "HEAD", "TAIL"}]]
      /\ used_block \in [Area -> 0 .. NBlocks] /\ size \in [Ptr -> 0 .. NBlocks] /\ NBlocks \in Nat
    BY <1>2, MembersAreAreas, NBlocksType DEF CoreTypes
<1>4. /\ Kept(M) \in SUBSET (Area \X (0 .. NBlocks))
      /\ \A x : <<a, x>> \in Kept(M) <=>
                 \E m : /\ <<a, m>> \in M /\ x \in m .. used_block[a]
                        /\ \A y \in m + 1 .. x : KindOf(atb[a], y) = "TAIL"
    BY KeptBlocks
<1>5. last_used_block(a, Kept(M)) \in 0 .. NBlocks
      /\ \A b : <<a, b>> \in Kept(M) => b <= last_used_block(a, Kept(M))
    BY <1>3, <1>4, LastUsed
<1> DEFINE Ma == {m \in Blk : <<a, m>> \in M}
           Ka == {b \in Blk : <<a, b>> \in Kept(M)}
<1>6. \A m : <<a, m>> \in M => m \in Blk /\ m \in Nat /\ size[<<a, m>>] > 0
    <2>1. \A p \in M : p[2] \in Blk /\ p[2] \in Nat /\ size[p] > 0
        BY ChunkPlace DEF Chunks
    <2>2. \A m : <<a, m>>[2] = m
        OBVIOUS
    <2> QED
        BY <2>1, <2>2
<1>7. \A x \in Blk : x \in Ka <=> \E m \in Ma : /\ x \in m .. used_block[a]
                                                /\ \A y \in m + 1 .. x : KindOf(atb[a], y) = "TAIL"
    BY <1>4, <1>6
<1>8. AreaType(atb'[a], Sizes(size', a)) /\ (\A b \in Blk : Sizes(size', a)[b] = size'[<<a, b>>])
    <2>1. atb'[a] \in [Blk -> {"FREE", "HEAD", "TAIL"}]
        BY <1>1, <1>3
    <2>2. size' \in [Ptr -> 0 .. NBlocks]
        BY <1>1, <1>3
    <2> QED
        BY <1>3, <2>1, <2>2 DEF AreaType, Sizes, Ptr
<1>9. \A x \in Blk : atb'[a][x] = IF x <= used_block[a] /\ x \notin Ka THEN "FREE" ELSE atb[a][x]
    BY <1>1, <1>3
<1>10. \A x \in Blk : Sizes(size, a)[x] = size[<<a, x>>] /\ <<a, x>> \in Ptr
    BY <1>3 DEF Sizes, Ptr
<1>11. \A x \in Blk : Sizes(size', a)[x] = IF x \in Ma THEN Sizes(size, a)[x] ELSE 0
    BY <1>1, <1>8, <1>10
<1>12. \A m \in Ma : Sizes(size, a)[m] > 0
    BY <1>6, <1>10
<1>13. Ma \in SUBSET Blk /\ used_block[a] \in 0 .. NBlocks
    BY <1>3
<1>14. \A x \in Blk : atb[a][x] # "FREE" => x <= used_block[a]
    BY <1>2 DEF UsedUpTo
<1>15. AreaOK(atb'[a], Sizes(size', a)) /\ Ma \subseteq Ka
       /\ \A x \in Blk : atb'[a][x] # "FREE" => x \in Ka
    <2> HIDE DEF Ma, Ka
    <2>1. SweptAs(atb[a], Sizes(size, a), used_block[a], Ma, Ka, atb'[a], Sizes(size', a))
        BY <1>7, <1>9, <1>11, <1>12, <1>13, <1>14 DEF SweptAs
    <2> QED
        BY <1>2, <1>8, <2>1, SweepArea
<1>16. used_block'[a] = last_used_block(a, Kept(M))
    BY <1>1, <1>3
<1>17. UsedUpTo(atb'[a], used_block'[a])
    BY <1>5, <1>15, <1>16 DEF UsedUpTo
<1>18. \A m : <<a, m>> \in M => m <= last_used_block(a, Kept(M)) /\ m \in Nat
    BY <1>5, <1>6, <1>15
<1> QED
    BY <1>15, <1>17, <1>18

LEMMA SweepKeepsCore ==
    ASSUME CoreNow, Linked = Members(list), owned = Linked, NEW M \in SUBSET Chunks, gc_sweep(M)
    PROVE  /\ CoreNow' /\ owned' = Linked'
           /\ \A p \in M : p \in Chunks' \/ (p[1] \notin Linked' /\ p[2] = 0)
<1> DEFINE G == {a \in Linked : EmptyArea(a, Kept(M))}
<1>1. /\ used_block' = [x \in Area |-> last_used_block(x, Kept(M))]
      /\ list' \in Without(G) /\ owned' = owned \ G
      /\ free_area' = 1 /\ free_index' = [a \in Area |-> 0]
      /\ size' = [p \in Ptr |-> IF p \in M THEN size[p] ELSE 0]
    BY DEF gc_sweep
<1>2. ListOK(list) /\ CoreTypes(atb, free_index, used_block, size)
    BY DEF CoreNow, Core
<1>3. \A a \in G : a \in Linked /\ a # 1 /\ last_used_block(a, Kept(M)) = 0
    BY DEF EmptyArea
<1> HIDE DEF G
<1>4. ListOK(list') /\ Members(list') = Members(list) \ G
    BY <1>1, <1>2, <1>3, WithoutList
<1>5. Linked' = Members(list')
    BY DEF Linked, Members
<1>6. CoreTypes(atb', free_index', used_block', size')
    <2>1. atb \in [Area -> [Blk -> {"FREE", "HEAD", "TAIL"}]] /\ size \in [Ptr -> 0 .. NBlocks]
          /\ NBlocks \in Nat
        BY <1>2, NBlocksType DEF CoreTypes
    <2>2. atb' \in [Area -> [Blk -> {"FREE", "HEAD", "TAIL"}]]
        <3>1. atb' = [x \in Area |-> [b \in Blk |->
                       IF x \in Linked /\ b <= used_block[x] /\ <<x, b>> \notin Kept(M)
                       THEN "FREE" ELSE atb[x][b]]]
            BY DEF gc_sweep
        <3> QED
            BY <2>1, <3>1
    <2>3. size' \in [Ptr -> 0 .. NBlocks]
        BY <1>1, <2>1
    <2>4. free_index' \in [Area -> 0 .. Atbs]
        BY <1>1, AtbsAssumption
    <2>5. used_block' \in [Area -> 0 .. NBlocks]
        BY <1>1, KeptBlocks, LastUsed
    <2> QED
        BY <2>2, <2>3, <2>4, <2>5 DEF CoreTypes
<1>7. \A a \in Members(list') : a \in Linked /\ a \in Area
    BY <1>2, <1>4, MembersAreAreas
<1>8. \A a \in Members(list') : AreaOK(atb'[a], Sizes(size', a)) /\ UsedUpTo(atb'[a], used_block'[a])
    BY <1>7, SweptArea
<1>9. \A a \in Members(list') : FullBefore(atb'[a], free_index'[a])
    <2>1. \A b \in Blk : ~ (b < 0 * BlocksPerAtb)
        BY NBlocksType, BlocksPerAtbAssumption
    <2>2. \A a \in Area : free_index'[a] = 0
        BY <1>1
    <2> QED
        BY <1>7, <2>1, <2>2 DEF FullBefore
<1>10. 1 \in Members(list') /\ PlaceOf(list', 1) = 1
    BY <1>4, FirstPlace
<1>11. \A k \in 1 .. PlaceOf(list', 1) - 1 : Full(atb'[list'[k]])
    BY <1>10
<1>12. CoreNow'
    BY <1>1, <1>4, <1>6, <1>8, <1>9, <1>10, <1>11 DEF CoreNow, Core
<1>13. owned' = Linked'
    BY <1>1, <1>4, <1>5
<1>14. ASSUME NEW p \in M PROVE p \in Chunks' \/ (p[1] \notin Linked' /\ p[2] = 0)
    <2>1. p \in Ptr /\ p[1] \in Linked /\ size[p] > 0 /\ p = <<p[1], p[2]>> /\ p[2] \in Nat
        BY ChunkPlace DEF Chunks
    <2>2. CASE p[1] \in Linked'
        <3>1. size'[p] > 0
            BY <1>1, <2>1
        <3> QED
            BY <2>1, <2>2, <3>1 DEF Chunks
    <2>3. CASE p[1] \notin Linked'
        <3>1. p[1] \in G
            BY <1>4, <1>5, <2>1, <2>3
        <3>2. p[2] <= last_used_block(p[1], Kept(M))
            BY <2>1, SweptArea
        <3> QED
            BY <1>3, <2>1, <2>3, <3>1, <3>2
    <2> QED
        BY <2>2, <2>3
<1> QED
    BY <1>12, <1>13, <1>14

LEMMA CollectStep ==
    ASSUME HeapInv, NEW M \in SUBSET Chunks, gc_collect(M)
    PROVE  HeapInv'
<1>1. CoreNow /\ owned = Linked /\ Linked = Members(list)
    BY InvGivesCore
<1>2. pc = "run" /\ UNCHANGED callVars /\ gc_sweep(M)
    BY DEF gc_collect
<1>3. CoreNow' /\ owned' = Linked'
    BY <1>1, <1>2, SweepKeepsCore
<1> QED
    BY <1>2, <1>3, ProgramKeeps

LEMMA CollectInAllocStep ==
    ASSUME HeapInv, NEW M \in SUBSET Chunks, CollectInAlloc(M)
    PROVE  HeapInv'
<1>1. CoreNow /\ CallTypes /\ owned = Linked /\ Linked = Members(list) /\ CallInv
    BY InvGivesCore
<1>2. pc = "collect" /\ (old # <<>> => old \in M) /\ gc_sweep(M) /\ collected' = TRUE
      /\ pc' = "search" /\ n_blocks' = n_blocks /\ added' = added /\ old' = old
    BY DEF CollectInAlloc
<1>3. CoreNow' /\ owned' = Linked'
      /\ \A p \in M : p \in Chunks' \/ (p[1] \notin Linked' /\ p[2] = 0)
    BY <1>1, <1>2, SweepKeepsCore
<1>4. collected' \in BOOLEAN
    BY <1>2
<1>5. CallTypes' /\ CallInv' /\ FullMeansFull'
    BY <1>1, <1>2, <1>4 DEF CallTypes, CallInv, FullMeansFull
<1>6. OldInv'
    BY <1>2, <1>3 DEF OldInv
<1> QED
    BY <1>3, <1>5, <1>6, CoreGivesInv

LEMMA EnterStep ==
    ASSUME HeapInv, NEW n \in 1 .. MaxBlocks, NEW p, p = <<>> \/ p \in Chunks,
           EnterAlloc(n, p), UNCHANGED <<tableVars, size>>
    PROVE  HeapInv'
<1>1. CoreNow /\ CallTypes /\ owned = Linked /\ Linked = Members(list)
    BY InvGivesCore
<1>2. list' = list /\ owned' = owned /\ atb' = atb /\ free_index' = free_index
      /\ used_block' = used_block /\ free_area' = free_area /\ size' = size
    BY DEF tableVars
<1>3. CoreNow' /\ Linked' = Linked /\ owned' = Linked' /\ Chunks' = Chunks
    BY <1>1, <1>2 DEF CoreNow, Linked, Chunks
<1>4. n_blocks' = n /\ added' = FALSE /\ old' = p /\ pc' \in {"search", "collect"}
    BY DEF EnterAlloc
<1>5. collected' \in BOOLEAN /\ added' \in BOOLEAN
    BY DEF EnterAlloc
<1>6. n \in 0 .. MaxBlocks /\ n > 0
    BY MaxBlocksAssumption
<1>7. p = <<>> \/ p \in Ptr
    BY DEF Chunks
<1>8. CallTypes'
    BY <1>4, <1>5, <1>6, <1>7 DEF CallTypes
<1>9. CallInv' /\ FullMeansFull' /\ OldInv'
    BY <1>3, <1>4, <1>6 DEF CallInv, FullMeansFull, OldInv
<1> QED
    BY <1>3, <1>8, <1>9, CoreGivesInv

(* The first area alone, with nothing in it.                               *)
LEMMA FreshCore ==
    Core(<<1>>, [a \in Area |-> [b \in Blk |-> "FREE"]], [a \in Area |-> 0], [a \in Area |-> 0], 1,
         [p \in Ptr |-> 0])
<1>1. PICK l, A, i, S : /\ l = <<1>> /\ A = [a \in Area |-> [b \in Blk |-> "FREE"]]
                        /\ i = [a \in Area |-> 0] /\ S = [p \in Ptr |-> 0]
    OBVIOUS
<1>2. 1 \in Area /\ NBlocks \in Nat
    BY NAreasAssumption, NBlocksType DEF Area
<1>3. l \in Seq(Area) /\ Len(l) = 1 /\ l[1] = 1
    BY <1>1, <1>2
<1>4. ListOK(l)
    BY <1>3 DEF ListOK
<1>5. Members(l) = {1}
    BY <1>3 DEF Members
<1>6. CoreTypes(A, i, i, S)
    BY <1>1, <1>2, AtbsAssumption DEF CoreTypes
<1>7. \A b \in Blk : A[1][b] = "FREE"
    BY <1>1, <1>2
<1>8. AreaOK(A[1], Sizes(S, 1))
    <2>1. AreaType(A[1], Sizes(S, 1)) /\ \A b \in Blk : Sizes(S, 1)[b] = S[<<1, b>>]
        BY <1>2, <1>6, AreaTypes
    <2>2. \A b \in Blk : S[<<1, b>>] = 0
        BY <1>1, <1>2 DEF Ptr
    <2> QED
        BY <1>7, <2>1, <2>2, EmptyAreaOK, ZenonT(30)
<1>9. UsedUpTo(A[1], i[1]) /\ FullBefore(A[1], i[1])
    <2>1. \A b \in Blk : ~ (b < 0 * BlocksPerAtb)
        BY NBlocksType, BlocksPerAtbAssumption
    <2>2. i[1] = 0
        BY <1>1, <1>2
    <2> QED
        BY <1>7, <2>1, <2>2 DEF UsedUpTo, FullBefore
<1>10. PlaceOf(l, 1) = 1
    BY <1>4, FirstPlace
<1>11. Core(l, A, i, i, 1, S)
    BY <1>4, <1>5, <1>6, <1>8, <1>9, <1>10 DEF Core
<1> QED
    BY <1>1, <1>11, Zenon

LEMMA ResetStep ==
    ASSUME HeapInv, soft_reset
    PROVE  HeapInv'
<1>1. CoreNow /\ owned = Linked /\ Linked = Members(list)
    BY InvGivesCore
<1>2. /\ pc = "run" /\ UNCHANGED callVars
      /\ atb' = [a \in Area |-> [b \in Blk |-> "FREE"]]
      /\ used_block' = [a \in Area |-> 0] /\ free_index' = [a \in Area |-> 0]
      /\ free_area' = 1 /\ list' = <<1>> /\ size' = [p \in Ptr |-> 0]
      /\ owned' = owned \ {a \in Linked : EmptyArea(a, {})}
    BY DEF soft_reset
<1>3. 1 \in Members(list)
    BY <1>1, FirstPlace DEF CoreNow, Core
<1>4. \A a \in Linked : EmptyArea(a, {}) <=> a # 1
    <2>1. \A a : last_used_block(a, {}) = Highest({0})
        <3>1. \A a : {0} \cup {q[2] : q \in {r \in {} : r[1] = a}} = {0}
            OBVIOUS
        <3> QED
            BY <3>1 DEF last_used_block
    <2>2. Highest({0}) = 0
        <3>1. 0 \in Nat /\ {0} \in SUBSET (0 .. 0) /\ {0} # {}
            OBVIOUS
        <3>2. Highest({0}) \in {0}
            BY <3>1, HighestOf
        <3> QED
            BY <3>2
    <2> QED
        BY <2>1, <2>2 DEF EmptyArea
<1>5. owned' = {1}
    BY <1>1, <1>2, <1>3, <1>4
<1>6. CoreNow' /\ Linked' = {1}
    BY <1>2, FreshCore DEF CoreNow, Linked, Members
<1> QED
    BY <1>2, <1>5, <1>6, ProgramKeeps

(* A new area: n_blocks free blocks are in it, and nowhere else.           *)
LEMMA AddStep ==
    ASSUME HeapInv, NEW a \in Area, gc_try_add_heap(a)
    PROVE  HeapInv'
<1>1. CoreNow /\ CallTypes /\ owned = Linked /\ Linked = Members(list) /\ FullMeansFull
      /\ CallInv /\ OldInv
    BY InvGivesCore
<1>2. /\ pc = "full" /\ ~added /\ n_blocks <= NBlocks /\ a \notin owned
      /\ owned' = owned \cup {a} /\ list' = Append(list, a) /\ gc_setup_area(a)
      /\ added' = TRUE /\ pc' = "search" /\ free_area' = free_area /\ n_blocks' = n_blocks
      /\ collected' = collected /\ old' = old
    BY DEF gc_try_add_heap
<1>3. ListOK(list) /\ CoreTypes(atb, free_index, used_block, size) /\ free_area \in Members(list)
      /\ (\A x \in Members(list) : AreaOK(atb[x], Sizes(size, x)) /\ UsedUpTo(atb[x], used_block[x])
                                   /\ FullBefore(atb[x], free_index[x]))
      /\ (\A j \in 1 .. PlaceOf(list, free_area) - 1 : Full(atb[list[j]]))
    BY <1>1 DEF CoreNow, Core
<1>4. a \notin Members(list) /\ Members(list) \subseteq Area
    BY <1>1, <1>2, <1>3, MembersAreAreas
<1>5. list \in Seq(Area) /\ Len(list) \in Nat /\ Len(list) > 0 /\ list[1] = 1
      /\ \A j, k \in 1 .. Len(list) : list[j] = list[k] => j = k
    BY <1>3 DEF ListOK
<1>6. list' \in Seq(Area) /\ Len(list') = Len(list) + 1 /\ list'[Len(list) + 1] = a
      /\ \A k \in 1 .. Len(list) : list'[k] = list[k]
    BY <1>2, <1>5
<1>7. \A k \in 1 .. Len(list') : k \in 1 .. Len(list) \/ k = Len(list) + 1
    BY <1>5, <1>6
<1>8. \A k \in 1 .. Len(list) : k \in 1 .. Len(list') /\ list[k] \in Members(list) /\ list[k] # a
    BY <1>4, <1>5, <1>6 DEF Members
<1>9. Members(list') = Members(list) \cup {a}
    <2>1. Len(list) + 1 \in 1 .. Len(list')
        BY <1>5, <1>6
    <2>2. \A x \in Members(list') : x \in Members(list) \cup {a}
        BY <1>6, <1>7 DEF Members
    <2>3. \A x \in Members(list) \cup {a} : x \in Members(list')
        BY <1>6, <1>8, <2>1 DEF Members
    <2> QED
        BY <2>2, <2>3
<1>10. ListOK(list')
    <2>1. ASSUME NEW j \in 1 .. Len(list'), NEW k \in 1 .. Len(list'), list'[j] = list'[k]
          PROVE  j = k
        <3>1. CASE j \in 1 .. Len(list) /\ k \in 1 .. Len(list)
            BY <1>5, <1>6, <2>1, <3>1
        <3>2. CASE j = Len(list) + 1 \/ k = Len(list) + 1
            BY <1>6, <1>7, <1>8, <2>1, <3>2
        <3> QED
            BY <1>7, <3>1, <3>2
    <2>2. Len(list') > 0 /\ list'[1] = 1
        BY <1>5, <1>6
    <2> QED
        BY <1>6, <2>1, <2>2 DEF ListOK
<1>11. PlaceOf(list, free_area) \in 1 .. Len(list) /\ list[PlaceOf(list, free_area)] = free_area
    BY <1>3, PlaceOfMember
<1>12. PlaceOf(list', free_area) = PlaceOf(list, free_area)
    <2>1. PICK k : k = PlaceOf(list, free_area)
        OBVIOUS
    <2>2. k \in 1 .. Len(list') /\ list'[k] = free_area
        BY <1>6, <1>8, <1>11, <2>1
    <2>3. PlaceOf(list', list'[k]) = k
        BY <1>10, <2>2, PlaceIs
    <2> QED
        BY <2>1, <2>2, <2>3
<1>13. /\ atb' = [atb EXCEPT ![a] = [b \in Blk |-> "FREE"]]
       /\ free_index' = [free_index EXCEPT ![a] = 0]
       /\ used_block' = [used_block EXCEPT ![a] = 0]
       /\ size' = [p \in Ptr |-> IF p[1] = a THEN 0 ELSE size[p]]
    BY <1>2 DEF gc_setup_area
<1>14. atb \in [Area -> [Blk -> {"FREE", "HEAD", "TAIL"}]] /\ free_index \in [Area -> 0 .. Atbs]
       /\ used_block \in [Area -> 0 .. NBlocks] /\ size \in [Ptr -> 0 .. NBlocks] /\ NBlocks \in Nat
    BY <1>3, NBlocksType DEF CoreTypes
<1>15. CoreTypes(atb', free_index', used_block', size')
    <2>1. atb' \in [Area -> [Blk -> {"FREE", "HEAD", "TAIL"}]]
        BY <1>13, <1>14
    <2>2. free_index' \in [Area -> 0 .. Atbs]
        BY <1>13, <1>14, AtbsAssumption
    <2>3. used_block' \in [Area -> 0 .. NBlocks]
        BY <1>13, <1>14
    <2>4. size' \in [Ptr -> 0 .. NBlocks]
        BY <1>13, <1>14
    <2> QED
        BY <2>1, <2>2, <2>3, <2>4 DEF CoreTypes
<1>16. \A x \in Area \ {a} : atb'[x] = atb[x] /\ free_index'[x] = free_index[x]
                             /\ used_block'[x] = used_block[x]
    BY <1>13, <1>14
<1>17. \A b \in Blk : atb'[a][b] = "FREE"
    BY <1>13, <1>14
<1>18. free_index'[a] = 0
    BY <1>13, <1>14
<1>19. \A x \in Area, b \in Blk : size'[<<x, b>>] = IF x = a THEN 0 ELSE size[<<x, b>>]
    <2>1. \A x \in Area, b \in Blk : <<x, b>> \in Ptr /\ <<x, b>>[1] = x
        BY DEF Ptr
    <2> QED
        BY <1>13, <2>1
<1>20. AreaOK(atb'[a], Sizes(size', a))
    <2>1. AreaType(atb'[a], Sizes(size', a)) /\ \A b \in Blk : Sizes(size', a)[b] = size'[<<a, b>>]
        BY <1>15, AreaTypes
    <2> QED
        BY <1>17, <1>19, <2>1, EmptyAreaOK, ZenonT(30)
<1>21. UsedUpTo(atb'[a], used_block'[a]) /\ FullBefore(atb'[a], free_index'[a])
    <2>1. \A b \in Blk : ~ (b < 0 * BlocksPerAtb)
        BY NBlocksType, BlocksPerAtbAssumption
    <2> QED
        BY <1>17, <1>18, <2>1 DEF UsedUpTo, FullBefore
<1>22. \A x \in Members(list) : x \in Area \ {a}
    BY <1>4
<1>23. \A x \in Members(list) : Sizes(size', x) = Sizes(size, x)
    BY <1>19, <1>22 DEF Sizes
<1>24. \A x \in Members(list) : AreaOK(atb'[x], Sizes(size', x)) /\ UsedUpTo(atb'[x], used_block'[x])
                                /\ FullBefore(atb'[x], free_index'[x])
    BY <1>3, <1>16, <1>22, <1>23
<1>25. \A j \in 1 .. PlaceOf(list', free_area) - 1 : Full(atb'[list'[j]])
    <2>1. \A j \in 1 .. PlaceOf(list, free_area) - 1 : j \in 1 .. Len(list)
        BY <1>5, <1>11
    <2>2. \A j \in 1 .. PlaceOf(list, free_area) - 1 : list'[j] = list[j] /\ list[j] \in Area \ {a}
        BY <1>6, <1>8, <1>22, <2>1
    <2> QED
        BY <1>3, <1>12, <1>16, <2>2
<1>26. CoreNow'
    BY <1>2, <1>3, <1>9, <1>10, <1>15, <1>20, <1>21, <1>24, <1>25 DEF CoreNow, Core
<1>27. Linked' = Linked \cup {a} /\ owned' = Linked'
    BY <1>1, <1>2, <1>9 DEF Linked, Members
<1>28. added' \in BOOLEAN
    BY <1>2
<1>29. CallTypes' /\ CallInv' /\ FullMeansFull'
    BY <1>1, <1>2, <1>28 DEF CallTypes, CallInv, FullMeansFull
<1>30. OldInv'
    <2>1. SUFFICES ASSUME old # <<>> PROVE OldInv'
        BY <1>2 DEF OldInv
    <2>2. old \in Chunks \/ (collected /\ old[1] \notin Linked /\ old[2] = 0)
        BY <1>1, <1>2, <2>1 DEF OldInv
    <2>3. CASE old \in Chunks
        <3>1. old \in Ptr /\ old[1] \in Linked /\ size[old] > 0
            BY <2>3 DEF Chunks
        <3>2. old[1] # a
            BY <1>1, <1>2, <3>1
        <3>3. size'[old] > 0
            BY <1>13, <3>1, <3>2
        <3>4. old \in Chunks'
            BY <1>27, <3>1, <3>3 DEF Chunks
        <3> QED
            BY <1>2, <3>4 DEF OldInv
    <2>4. CASE collected /\ old[1] \notin Linked /\ old[2] = 0 /\ old[1] # a
        BY <1>2, <1>27, <2>4 DEF OldInv
    <2>5. CASE collected /\ old[1] \notin Linked /\ old[2] = 0 /\ old[1] = a
        <3>1. \A x \in Linked : NoRoom(x)
            BY <1>1, <1>2, FullMeansNoRoom
        <3>2. \A x \in Linked : NoRoom(x)'
            <4>1. \A x \in Linked : atb'[x] = atb[x]
                BY <1>1, <1>16, <1>22
            <4> QED
                BY <1>2, <3>1, <4>1 DEF NoRoom
        <3>3. \A x \in Linked' \ {a} : NoRoom(x)'
            BY <1>27, <3>2
        <3> QED
            BY <1>2, <1>17, <1>18, <1>27, <2>5, <3>3 DEF OldInv
    <2> QED
        BY <2>2, <2>3, <2>4, <2>5
<1> QED
    BY <1>26, <1>27, <1>29, <1>30, CoreGivesInv
-----------------------------------------------------------------------------
LEMMA HeapInit == Init => HeapInv
<1>1. SUFFICES ASSUME Init PROVE HeapInv
    OBVIOUS
<1>2. CoreNow
    BY <1>1, FreshCore DEF CoreNow, Init
<1>3. Members(list) = Linked /\ Linked = owned /\ \A a : Position(a) = PlaceOf(list, a)
    <2>1. list = <<1>> /\ owned = {1}
        BY <1>1 DEF Init
    <2>2. Linked = {1}
        BY <2>1 DEF Linked
    <2> QED
        BY <2>1, <2>2 DEF Linked, Members, Position, PlaceOf
<1>4. ListOK(list) /\ CoreTypes(atb, free_index, used_block, size) /\ free_area \in Linked
      /\ (\A a \in Linked : AreaOK(atb[a], Sizes(size, a)))
      /\ (\A a \in Linked : UsedUpTo(atb[a], used_block[a]))
      /\ (\A a \in Linked : FullBefore(atb[a], free_index[a]))
      /\ (\A k \in 1 .. Position(free_area) - 1 : Full(atb[list[k]]))
    BY <1>2, <1>3 DEF CoreNow, Core
<1>5. pc = "run" /\ n_blocks = 0 /\ collected = FALSE /\ added = FALSE /\ old = <<>>
    BY <1>1 DEF Init
<1>6. collected \in BOOLEAN /\ added \in BOOLEAN /\ n_blocks \in 0 .. MaxBlocks
    <2>1. collected \in BOOLEAN /\ added \in BOOLEAN
        BY <1>5, Zenon
    <2>2. n_blocks \in 0 .. MaxBlocks
        BY <1>5, MaxBlocksAssumption
    <2> QED
        BY <2>1, <2>2
<1>7. TypeOK
    BY <1>4, <1>5, <1>6 DEF TypeOK, ListOK, CoreTypes
<1>8. TableIsChunks
    <2>1. atb \in [Area -> [Blk -> {"FREE", "HEAD", "TAIL"}]] /\ size \in [Ptr -> 0 .. NBlocks]
        BY <1>4 DEF CoreTypes
    <2>2. Linked \in SUBSET Area
        BY <1>3, <1>4, MembersAreAreas
    <2>3. ChunkTables(Linked, atb, size)
        BY <1>4, <2>1, <2>2, TablesAreChunks
    <2> QED
        BY <2>3 DEF TableIsChunks, Chunks, Kind, KindOf, ChunkTables
<1>9. SweepReachesAll
    BY <1>4 DEF SweepReachesAll, UsedUpTo
<1>10. NoFreeBlockBefore
    BY <1>4 DEF NoFreeBlockBefore, FullBefore, Full
<1>11. FullMeansFull /\ CallInv /\ OldInv
    BY <1>5 DEF FullMeansFull, CallInv, OldInv
<1> QED
    BY <1>3, <1>7, <1>8, <1>9, <1>10, <1>11 DEF HeapInv, HeapConsistent, SearchComplete, AreasLinked

LEMMA HeapStep == HeapInv /\ [Next]_vars => HeapInv'
<1>1. SUFFICES ASSUME HeapInv, [Next]_vars PROVE HeapInv'
    OBVIOUS
<1>2. ASSUME NEW n \in 1 .. MaxBlocks, gc_alloc(n) PROVE HeapInv'
    <2>1. EnterAlloc(n, <<>>) /\ UNCHANGED <<tableVars, size>>
        BY <1>2 DEF gc_alloc
    <2>2. PICK p : p = <<>>
        OBVIOUS
    <2>3. EnterAlloc(n, p)
        BY <2>1, <2>2
    <2> QED
        BY <1>1, <2>1, <2>2, <2>3, EnterStep
<1>3. ASSUME NEW p \in Chunks, NEW n \in 1 .. MaxBlocks, Move(p, n) PROVE HeapInv'
    <2>1. EnterAlloc(n, p) /\ UNCHANGED <<tableVars, size>>
        BY <1>3 DEF Move
    <2> QED
        BY <1>1, <2>1, EnterStep
<1>4. CASE Program
    BY <1>1, <1>2, <1>3, <1>4, CollectStep, ResetStep, FreeStep, ShrinkStep, ExpandStep DEF Program
<1>5. ASSUME OutOfMemory PROVE HeapInv'
    <2>1. CoreNow /\ owned = Linked
        BY <1>1, InvGivesCore
    <2>2. Return /\ list' = list /\ owned' = owned /\ atb' = atb /\ free_index' = free_index
          /\ used_block' = used_block /\ free_area' = free_area /\ size' = size
        BY <1>5 DEF OutOfMemory, tableVars
    <2>3. CoreNow' /\ owned' = Linked'
        BY <2>1, <2>2 DEF CoreNow, Linked
    <2>4. CallTypes' /\ CallInv' /\ OldInv' /\ pc' # "full"
        BY <2>2, ReturnTypes
    <2>5. FullMeansFull'
        BY <2>4 DEF FullMeansFull
    <2> QED
        BY <2>3, <2>4, <2>5, CoreGivesInv
<1>6. CASE Allocator
    BY <1>1, <1>5, <1>6, SearchStep, NotFoundStep, CollectInAllocStep, AddStep, MoveStep DEF Allocator
<1>7. CASE UNCHANGED vars
    <2>1. CoreNow /\ CallTypes /\ owned = Linked /\ FullMeansFull /\ CallInv /\ OldInv
        BY <1>1, InvGivesCore
    <2>2. list' = list /\ owned' = owned /\ atb' = atb /\ free_index' = free_index
          /\ used_block' = used_block /\ free_area' = free_area /\ size' = size
          /\ pc' = pc /\ n_blocks' = n_blocks /\ collected' = collected /\ added' = added /\ old' = old
        BY <1>7 DEF vars, tableVars, callVars
    <2>3. CoreNow' /\ owned' = Linked' /\ CallTypes' /\ CallInv' /\ Linked' = Linked /\ Chunks' = Chunks
        BY <2>1, <2>2 DEF CoreNow, Linked, CallTypes, CallInv, Chunks
    <2>4. FullMeansFull' /\ OldInv'
        BY <2>1, <2>2, <2>3 DEF FullMeansFull, OldInv, NoRoom
    <2> QED
        BY <2>3, <2>4, CoreGivesInv
<1> QED
    BY <1>1, <1>4, <1>6, <1>7 DEF Next

(* The inductive invariant holds in every state of the heap: the tables    *)
(* are exact area by area, and a request under way has seen what it says   *)
(* (gc.c:760-1171).                                                        *)
THEOREM HeapAlwaysInv == Spec => []HeapInv
BY HeapInit, HeapStep, PTL DEF Spec

(* The allocation tables say exactly which chunks are allocated, no block  *)
(* in use lies behind the end of the sweep, and no area is lost, whatever  *)
(* gc_alloc, gc_realloc, gc_free and the collector do, for any number and  *)
(* size of areas and any requests.                                         *)
THEOREM HeapAlwaysConsistent == Spec => []HeapConsistent
<1>1. HeapInv => HeapConsistent
    BY DEF HeapInv
<1> QED
    BY <1>1, HeapAlwaysInv, PTL

(* No free block lies before the place gc_alloc searches from, and it asks *)
(* for a new area, or fails, only when no area has room for the request.   *)
THEOREM SearchAlwaysComplete == Spec => []SearchComplete
<1>1. HeapInv => SearchComplete
    BY DEF HeapInv
<1> QED
    BY <1>1, HeapAlwaysInv, PTL
====
