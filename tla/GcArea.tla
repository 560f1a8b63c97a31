---- MODULE GcArea ----
(***************************************************************************)
(* The sizes of a heap area in py/gc.c: gc_setup_area divides the bytes    *)
(* into allocation table, gap byte, finaliser table and pool, and          *)
(* gc_try_add_heap decides how many bytes to ask for so that the request   *)
(* that failed fits.  A 32-bit build with the port's values; requests stay *)
(* far below 2^32, where the sums would wrap.                              *)
(***************************************************************************)
EXTENDS Integers

CONSTANTS MaxRequest,  \* bound: largest request, in bytes
          MaxSystem,   \* bound: largest free block of the system heap
          Stride,      \* bound: requests tried are Stride bytes apart
          MaxHeap    \* bound: blocks in the heap that may still grow

ASSUME MaxRequestAssumption == MaxRequest \in Nat
ASSUME MaxSystemAssumption == MaxSystem \in Nat
ASSUME StrideAssumption == Stride \in Nat \ {0}
ASSUME MaxHeapAssumption == MaxHeap \in Nat

BYTES_PER_BLOCK == 16
BLOCKS_PER_ATB == 4
BLOCKS_PER_FTB == 8
ALLOC_TABLE_GAP_BYTE == 1
sizeof_area == 32         \* mp_state_mem_area_t: eight words

VARIABLES request,  \* failed_alloc of the last gc_try_add_heap
          total,    \* bytes given to gc_setup_area
          total_blocks  \* blocks in all areas so far

areaVars == <<request, total, total_blocks>>

Larger(x, y) == IF x >= y THEN x ELSE y
Smaller(x, y) == IF x <= y THEN x ELSE y

(* gc_setup_area, for total_byte_len = t.                                  *)
gc_alloc_table_byte_len(t) ==
    ((t - ALLOC_TABLE_GAP_BYTE) * 8)
        \div (8 + (8 * BLOCKS_PER_ATB) \div BLOCKS_PER_FTB
                + 8 * BLOCKS_PER_ATB * BYTES_PER_BLOCK)

gc_finaliser_table_byte_len(t) ==
    (gc_alloc_table_byte_len(t) * BLOCKS_PER_ATB + BLOCKS_PER_FTB - 1)
        \div BLOCKS_PER_FTB

gc_pool_block_len(t) == gc_alloc_table_byte_len(t) * BLOCKS_PER_ATB

(* gc_alloc: blocks of a request for n bytes.                              *)
blocks(n) == (n + BYTES_PER_BLOCK - 1) \div BYTES_PER_BLOCK

(* gc_try_add_heap.                                                        *)
needed_by_ratio(n) == n + (n * 13) \div 512

needed(n) == n + Larger(2048, (n * 13) \div 512)

total_heap(b) ==
    blocks(b \div BLOCKS_PER_ATB + b \div BLOCKS_PER_FTB + b * BYTES_PER_BLOCK
           + ALLOC_TABLE_GAP_BYTE + sizeof_area) * BYTES_PER_BLOCK

to_alloc(n, b, avail) == Smaller(avail, Larger(total_heap(b), needed(n)))

AreaInit ==
    /\ request = 0
    /\ total = 4096   \* gc_init; the growth does not depend on this size
    /\ total_blocks = gc_pool_block_len(total)

(* gc_try_add_heap(n) with avail bytes free in the system, then gc_add:    *)
(* the struct at the start and up to a block of misaligned end are lost.   *)
gc_try_add_heap(n, avail, lost) ==
    /\ avail >= needed(n)
    /\ request' = n
    /\ total' = to_alloc(n, total_blocks, avail) - sizeof_area - lost
    /\ total_blocks' = total_blocks + gc_pool_block_len(total')

Requests == {n \in 1 .. MaxRequest : n % Stride = 0}
Lost == 0 .. BYTES_PER_BLOCK - 1

(* The system has just enough, a byte more, or plenty.                     *)
AreaNext ==
    /\ total_blocks <= MaxHeap
    /\ \E n \in Requests, lost \in Lost :
         \E avail \in {needed(n), needed(n) + 1, MaxSystem} :
             gc_try_add_heap(n, avail, lost)

AreaSpec == AreaInit /\ [][AreaNext]_areaVars
-----------------------------------------------------------------------------
(* Type correctness.                                                       *)
AreaTypeOK ==
    /\ request \in Nat
    /\ total \in Nat
    /\ total_blocks \in Nat

(* The assertion of gc_setup_area: the tables end before the pool starts.  *)
TablesFit ==
    gc_alloc_table_byte_len(total) + ALLOC_TABLE_GAP_BYTE
        + gc_finaliser_table_byte_len(total)
        + gc_pool_block_len(total) * BYTES_PER_BLOCK <= total

(* "adding (13/512) is enough overhead": the area that gc_try_add_heap     *)
(* adds has room for the request that failed, whatever its size.           *)
RequestFits == gc_pool_block_len(total) >= blocks(request)
====
