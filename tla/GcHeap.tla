---- MODULE GcHeap ----
(***************************************************************************)
(* The allocation tables of py/gc.c with MICROPY_GC_SPLIT_HEAP_AUTO: a     *)
(* list of areas that grows when an allocation fails after a collection    *)
(* and shrinks when the sweep finds an area empty.  gc_alloc looks for a   *)
(* run of free blocks from a remembered area and table byte on; gc_free    *)
(* and gc_realloc keep these where no free block is passed over.  The      *)
(* caller holds the GIL, so no other thread is between two of the steps.   *)
(* Which chunks a collection marks is its input: see GcMark.               *)
(***************************************************************************)
EXTENDS Integers, Sequences

CONSTANTS NAreas,        \* bound: areas the system has memory for
          Atbs,          \* gc_alloc_table_byte_len, the same for all areas
          BlocksPerAtb,  \* BLOCKS_PER_ATB
          MaxBlocks      \* bound: largest request

ASSUME NAreasAssumption == NAreas \in Nat \ {0}
ASSUME AtbsAssumption == Atbs \in Nat \ {0}
ASSUME BlocksPerAtbAssumption == BlocksPerAtb \in Nat \ {0, 1}
ASSUME MaxBlocksAssumption == MaxBlocks \in Nat \ {0}

NBlocks == Atbs * BlocksPerAtb
Area == 1 .. NAreas
Blk == 0 .. NBlocks - 1
Ptr == Area \X Blk

VARIABLES list,    \* the areas linked by next; the first is area 1
          owned,   \* areas the system has given to the heap
          atb,     \* allocation table
          free_index,  \* gc_last_free_atb_index
          used_block,  \* gc_last_used_block
          free_area,   \* gc_last_free_area
          size,    \* history: blocks of the chunk at a pointer, 0 for none
          pc, n_blocks, collected, added,  \* gc_alloc
          old      \* gc_realloc: the chunk to move, <<>> for none

tableVars == <<list, owned, atb, free_index, used_block, free_area>>
callVars == <<pc, n_blocks, collected, added, old>>
vars == <<tableVars, size, callVars>>

Highest(S) == CHOOSE x \in S : \A y \in S : y <= x
Lowest(S) == CHOOSE x \in S : \A y \in S : x <= y

Linked == {list[k] : k \in 1 .. Len(list)}

(* ATB_GET_KIND; the gap byte after the table reads as free blocks.        *)
Kind(a, b) == IF b < NBlocks THEN atb[a][b] ELSE "FREE"

Chunks == {p \in Ptr : p[1] \in Linked /\ size[p] > 0}

Init ==
    /\ list = <<1>> /\ owned = {1}
    /\ atb = [a \in Area |-> [b \in Blk |-> "FREE"]]
    /\ free_index = [a \in Area |-> 0]
    /\ used_block = [a \in Area |-> 0]
    /\ free_area = 1
    /\ size = [p \in Ptr |-> 0]
    /\ pc = "run" /\ n_blocks = 0 /\ collected = FALSE /\ added = FALSE
    /\ old = <<>>
-----------------------------------------------------------------------------
(* gc_alloc is called: by the program, or by gc_realloc to move a chunk.   *)
(* gc_auto_collect_enabled and the allocation threshold decide whether it  *)
(* may collect, or collects at once.                                       *)
EnterAlloc(n, p) ==
    /\ n_blocks' = n
    /\ added' = FALSE
    /\ old' = p
    /\ \/ collected' \in BOOLEAN /\ pc' = "search"
       \/ collected' = FALSE /\ pc' = "collect"

gc_alloc(n) ==
    /\ pc = "run"
    /\ EnterAlloc(n, <<>>)
    /\ UNCHANGED <<tableVars, size>>

(* The last block of the first free run of n in area a.                    *)
RunEnds(a, n) ==
    {e \in Blk : e - n + 1 >= free_index[a] * BlocksPerAtb
                 /\ \A b \in e - n + 1 .. e : Kind(a, b) = "FREE"}

Position(a) == CHOOSE k \in 1 .. Len(list) : list[k] = a

(* Places in the list where the search finds a run.                        *)
Hits == {k \in Position(free_area) .. Len(list) : RunEnds(list[k], n_blocks) # {}}

(* "Mark this heap as filled": the areas searched in vain.                 *)
PassedOver(k) == {list[j] : j \in Position(free_area) .. k - 1}

FilledIndex(a, k) ==
    IF n_blocks = 1 /\ a \in PassedOver(k) THEN (Atbs + 1) \div BlocksPerAtb
    ELSE free_index[a]

Return == pc' = "run" /\ n_blocks' = 0 /\ collected' = FALSE
          /\ added' = FALSE /\ old' = <<>>

(* found: the run that ends at block e of the area at place k.  The area   *)
(* and index to search from are only moved up for a single block.          *)
Found(k, e) ==
    LET a == list[k]
        s == e - n_blocks + 1
    IN  /\ atb' = [atb EXCEPT ![a] = [b \in Blk |->
                     IF b = s THEN "HEAD"
                     ELSE IF s < b /\ b <= e THEN "TAIL" ELSE @[b]]]
        /\ size' = [size EXCEPT ![<<a, s>>] = n_blocks]
        /\ free_area' = IF n_blocks = 1 THEN a ELSE free_area
        /\ free_index' = [x \in Area |->
             IF n_blocks = 1 /\ x = a THEN (e + 1) \div BlocksPerAtb
             ELSE FilledIndex(x, k)]
        /\ used_block' = [used_block EXCEPT ![a] = Highest({@, e})]

Search ==
    /\ pc = "search"
    /\ Hits # {}
    /\ LET k == Lowest(Hits)
       IN  Found(k, Lowest(RunEnds(list[k], n_blocks)))
    /\ IF old = <<>> THEN Return
       ELSE pc' = "move" /\ UNCHANGED <<n_blocks, collected, added, old>>
    /\ UNCHANGED <<list, owned>>

(* nothing found!                                                          *)
NotFound ==
    /\ pc = "search"
    /\ Hits = {}
    /\ free_index' = [a \in Area |-> FilledIndex(a, Len(list) + 1)]
    /\ pc' = IF collected THEN "full" ELSE "collect"
    /\ UNCHANGED <<list, owned, atb, used_block, free_area, size,
                   n_blocks, collected, added, old>>

gc_setup_area(a) ==
    /\ atb' = [atb EXCEPT ![a] = [b \in Blk |-> "FREE"]]
    /\ free_index' = [free_index EXCEPT ![a] = 0]
    /\ used_block' = [used_block EXCEPT ![a] = 0]
    /\ size' = [p \in Ptr |-> IF p[1] = a THEN 0 ELSE size[p]]

(* gc_try_add_heap and gc_add: a new area that holds the request.          *)
gc_try_add_heap(a) ==
    /\ pc = "full"
    /\ ~added
    /\ n_blocks <= NBlocks
    /\ a \notin owned
    /\ owned' = owned \cup {a}
    /\ list' = Append(list, a)
    /\ gc_setup_area(a)
    /\ added' = TRUE
    /\ pc' = "search"
    /\ UNCHANGED <<free_area, n_blocks, collected, old>>

(* The system has no memory left: gc_alloc returns NULL.                   *)
OutOfMemory ==
    /\ pc = "full"
    /\ Return
    /\ UNCHANGED <<tableVars, size>>
-----------------------------------------------------------------------------
(* Blocks that gc_sweep_free_blocks keeps: the marked heads, M, and the    *)
(* tails that follow one.                                                  *)
Kept(M) ==
    UNION {{p[1]} \X {b \in p[2] .. used_block[p[1]] :
                        \A x \in p[2] + 1 .. b : Kind(p[1], x) = "TAIL"} : p \in M}

last_used_block(a, kept) ==
    Highest({0} \cup {q[2] : q \in {r \in kept : r[1] = a}})

(* Free any empty area, aside from the first one.                          *)
EmptyArea(a, kept) == last_used_block(a, kept) = 0 /\ a # 1

(* The list without these areas, in the same order.                        *)
Without(gone) ==
    {l \in UNION {[1 .. n -> Area] : n \in 0 .. Len(list)} :
        /\ {l[k] : k \in DOMAIN l} = Linked \ gone
        /\ \A j, k \in DOMAIN l : j < k => Position(l[j]) < Position(l[k])}

(* gc_sweep_free_blocks and the end of gc_collect_end.                     *)
gc_sweep(M) ==
    \E kept \in {Kept(M)} :
        /\ atb' = [a \in Area |-> [b \in Blk |->
                     IF a \in Linked /\ b <= used_block[a] /\ <<a, b>> \notin kept
                     THEN "FREE" ELSE atb[a][b]]]
        /\ used_block' = [a \in Area |-> last_used_block(a, kept)]
        /\ list' \in Without({a \in Linked : EmptyArea(a, kept)})
        /\ owned' = owned \ {a \in Linked : EmptyArea(a, kept)}
        /\ free_area' = 1
        /\ free_index' = [a \in Area |-> 0]
        /\ size' = [p \in Ptr |-> IF p \in M THEN size[p] ELSE 0]

(* A collection inside gc_alloc; the chunk to move is on the C stack.      *)
CollectInAlloc(M) ==
    /\ pc = "collect"
    /\ old # <<>> => old \in M
    /\ gc_sweep(M)
    /\ collected' = TRUE
    /\ pc' = "search"
    /\ UNCHANGED <<n_blocks, added, old>>

gc_collect(M) ==
    /\ pc = "run"
    /\ gc_sweep(M)
    /\ UNCHANGED callVars

(* soft_reset_exit: gc_sweep_all, then gc_init on the first area.          *)
soft_reset ==
    /\ pc = "run"
    /\ atb' = [a \in Area |-> [b \in Blk |-> "FREE"]]
    /\ used_block' = [a \in Area |-> 0]
    /\ free_index' = [a \in Area |-> 0]
    /\ free_area' = 1
    /\ list' = <<1>>
    /\ owned' = owned \ {a \in Linked : EmptyArea(a, {})}
    /\ size' = [p \in Ptr |-> 0]
    /\ UNCHANGED callVars
-----------------------------------------------------------------------------
ReleaseFrom_no_reset(a, b) ==
    /\ UNCHANGED free_area
    /\ free_index' = [free_index EXCEPT ![a] = Lowest({@, b \div BlocksPerAtb})]

(* Free blocks appear from block b of area a on: search from there, or     *)
(* from the first area when a is not the current one.                      *)
ReleaseFrom(a, b) ==
    /\ free_area' = IF free_area # a THEN 1 ELSE free_area
    /\ free_index' = [free_index EXCEPT ![a] = Lowest({@, b \div BlocksPerAtb})]

TailEnd(a, b) == Lowest({e \in b + 1 .. NBlocks : Kind(a, e) # "TAIL"})

FreeChunk(p) ==
    LET a == p[1]
        b == p[2]
    IN  /\ ReleaseFrom(a, b)
        /\ atb' = [atb EXCEPT ![a] = [x \in Blk |->
                     IF b <= x /\ x < TailEnd(a, b) THEN "FREE" ELSE @[x]]]
        /\ size' = [size EXCEPT ![p] = 0]
        /\ UNCHANGED <<list, owned, used_block>>

gc_free(p) ==
    /\ pc = "run"
    /\ p \in Chunks
    /\ FreeChunk(p)
    /\ UNCHANGED callVars

(* gc_realloc after a successful gc_alloc: the old chunk is copied, freed. *)
MoveDone ==
    /\ pc = "move"
    /\ FreeChunk(old)
    /\ Return

(* gc_realloc(p, n) to fewer blocks.                                       *)
Shrink(p, n) ==
    LET a == p[1]
        b == p[2]
    IN  /\ pc = "run"
        /\ p \in Chunks
        /\ n < TailEnd(a, b) - b
        /\ atb' = [atb EXCEPT ![a] = [x \in Blk |->
                     IF b + n <= x /\ x < TailEnd(a, b) THEN "FREE" ELSE @[x]]]
        /\ ReleaseFrom(a, b + n)
        /\ size' = [size EXCEPT ![p] = n]
        /\ UNCHANGED <<list, owned, used_block, callVars>>

(* The first block after b that is neither its tail nor free.              *)
Room(a, b) ==
    Lowest({e \in b + 1 .. NBlocks :
              e = NBlocks \/ (e >= TailEnd(a, b) /\ Kind(a, e) # "FREE")})

Expand_keeps_last(p, n) ==
    LET a == p[1]
        b == p[2]
    IN  /\ pc = "run"
        /\ p \in Chunks
        /\ n > TailEnd(a, b) - b
        /\ b + n <= Room(a, b)
        /\ atb' = [atb EXCEPT ![a] = [x \in Blk |->
                     IF TailEnd(a, b) <= x /\ x < b + n THEN "TAIL" ELSE @[x]]]
        /\ size' = [size EXCEPT ![p] = n]
        /\ UNCHANGED <<list, owned, used_block, free_area, free_index, callVars>>

(* gc_realloc(p, n) to more blocks, in place; end_block is exclusive.      *)
Expand(p, n) ==
    LET a == p[1]
        b == p[2]
    IN  /\ pc = "run"
        /\ p \in Chunks
        /\ n > TailEnd(a, b) - b
        /\ b + n <= Room(a, b)
        /\ atb' = [atb EXCEPT ![a] = [x \in Blk |->
                     IF TailEnd(a, b) <= x /\ x < b + n THEN "TAIL" ELSE @[x]]]
        /\ used_block' = [used_block EXCEPT ![a] = Highest({@, b + n})]
        /\ size' = [size EXCEPT ![p] = n]
        /\ UNCHANGED <<list, owned, free_area, free_index, callVars>>

(* gc_realloc(p, n) that has to move; with allow_move FALSE, or when n is  *)
(* what the chunk already has, it changes nothing.                         *)
Move(p, n) ==
    /\ pc = "run"
    /\ p \in Chunks
    /\ p[2] + n > Room(p[1], p[2])
    /\ EnterAlloc(n, p)
    /\ UNCHANGED <<tableVars, size>>

Program ==
    /\ pc = "run"
    /\ \/ \E n \in 1 .. MaxBlocks : gc_alloc(n)
       \/ \E M \in SUBSET Chunks : gc_collect(M)
       \/ soft_reset
       \/ \E p \in Chunks : gc_free(p)
       \/ \E p \in Chunks, n \in 1 .. MaxBlocks :
            Shrink(p, n) \/ Expand(p, n) \/ Move(p, n)

Allocator ==
    \/ Search
    \/ NotFound
    \/ pc = "collect" /\ \E M \in SUBSET Chunks : CollectInAlloc(M)
    \/ \E a \in Area : gc_try_add_heap(a)
    \/ OutOfMemory
    \/ MoveDone

Next == Program \/ Allocator

Spec == Init /\ [][Next]_vars
-----------------------------------------------------------------------------
(* Type correctness; gc_last_used_block may be one past the last block, as *)
(* the assertions of the sweep allow.                                      *)
TypeOK ==
    /\ list \in Seq(Area)
    /\ Len(list) > 0 /\ list[1] = 1
    /\ \A j, k \in 1 .. Len(list) : list[j] = list[k] => j = k
    /\ atb \in [Area -> [Blk -> {"FREE", "HEAD", "TAIL"}]]
    /\ free_index \in [Area -> 0 .. Atbs]
    /\ used_block \in [Area -> 0 .. NBlocks]
    /\ free_area \in Linked
    /\ size \in [Ptr -> 0 .. NBlocks]
    /\ pc \in {"run", "search", "collect", "full", "move"}
    /\ n_blocks \in 0 .. MaxBlocks
    /\ collected \in BOOLEAN
    /\ added \in BOOLEAN
    /\ old = <<>> \/ old \in Ptr

(* The table of every area says exactly which chunks are allocated: each   *)
(* is a head and as many tails as were asked for, inside the area; there   *)
(* is no other head and no tail without one, so no two chunks overlap and  *)
(* nothing leaks.                                                          *)
TableIsChunks ==
    /\ \A p \in Chunks :
         /\ p[2] + size[p] <= NBlocks
         /\ atb[p[1]][p[2]] = "HEAD"
         /\ \A b \in p[2] + 1 .. p[2] + size[p] - 1 : atb[p[1]][b] = "TAIL"
         /\ Kind(p[1], p[2] + size[p]) # "TAIL"
    /\ \A a \in Linked, b \in Blk :
         /\ atb[a][b] = "HEAD" => size[<<a, b>>] > 0
         /\ atb[a][b] = "TAIL" => b > 0 /\ atb[a][b - 1] # "FREE"

(* There are no free blocks before the place the next search starts from,  *)
(* in the areas before it and in each area before its own index.           *)
NoFreeBlockBefore ==
    /\ \A k \in 1 .. Position(free_area) - 1 : \A b \in Blk :
         atb[list[k]][b] # "FREE"
    /\ \A a \in Linked, b \in Blk :
         b < free_index[a] * BlocksPerAtb => atb[a][b] # "FREE"

(* The sweep stops at gc_last_used_block: no block in use lies above it.   *)
SweepReachesAll ==
    \A a \in Linked, b \in Blk : atb[a][b] # "FREE" => b <= used_block[a]

(* gc_alloc asks the system for memory, or fails, only when no area has a  *)
(* run of free blocks that is long enough, with gc.disable() too.          *)
FullMeansFull ==
    pc = "full" =>
        \A a \in Linked, s \in Blk :
            s + n_blocks <= NBlocks =>
                \E b \in s .. s + n_blocks - 1 : atb[a][b] # "FREE"

(* Areas are not lost: what the system gave is linked, or was given back.  *)
AreasLinked == owned = Linked

(* The heap's bookkeeping is consistent: tables, chunks, the end of the    *)
(* sweep and the list of areas.                                            *)
HeapConsistent == TypeOK /\ TableIsChunks /\ SweepReachesAll /\ AreasLinked

(* A search that begins at free_area and free_index misses no room.        *)
SearchComplete == NoFreeBlockBefore /\ FullMeansFull

(* py/gc.c: "Free any empty area": an area given back holds no chunk.      *)
FreedAreaIsEmpty == [][\A a \in Linked \ Linked' : \A b \in Blk : size'[<<a, b>>] = 0]_vars
====
