---- MODULE MCGcMark ----
(***************************************************************************)
(* Instances of GcMark and of GcArea, which share no state: "part" says    *)
(* which of the two a behaviour is about, and the other one stays as it    *)
(* was initially.                                                          *)
(***************************************************************************)
EXTENDS GcMark, GcArea, FiniteSets

VARIABLE part

mcVars == <<vars, areaVars, part>>

(* Chunks hold at most two pointers.  A pointer of a chunk to itself is    *)
(* left out: it is skipped when the walk meets it, for the chunk is marked *)
(* before its words are looked at.                                         *)
MCContent == {S \in SUBSET Block : Cardinality(S) <= 2}
Pairs(b) == {S \in MCContent : Cardinality(S) = 2 /\ b \notin S}

(* All heaps of N - 1 chunks in which one chunk holds two pointers, those  *)
(* with a finaliser one chunk less: the stack overflows at most once.      *)
Low == 0 .. N - 2
MCFinalisable == {0, N - 3}

MCSmallHeap ==
    /\ kind \in {k \in [Block -> {"FREE", "HEAD"}] : k[N - 1] = "FREE"}
    /\ ptrs \in {[b \in Block |-> IF b \in Low THEN q[b] ELSE {}] :
                      q \in [Low -> {S \in MCContent : S \subseteq Low}]}
    /\ \A b \in Block : b \notin ptrs[b]
    /\ \A b, c \in Block : Cardinality(ptrs[b]) = 2 /\ Cardinality(ptrs[c]) = 2 => b = c
    /\ ftb \in SUBSET MCFinalisable
    /\ ftb # {} => kind[N - 2] = "FREE"

(* All heaps of N chunks in which two hold two pointers and the others     *)
(* none: what the first overflow left is traced in a walk over the heap,   *)
(* fills the stack again and makes a second walk necessary.                *)
MCFullHeap ==
    /\ kind = [b \in Block |-> "HEAD"]
    /\ \E x, y \in Block : \E S \in Pairs(x), T \in Pairs(y) :
           x < y /\ ptrs = [b \in Block |-> IF b = x THEN S ELSE IF b = y THEN T ELSE {}]
    /\ ftb = {}

MCInit ==
    /\ MCSmallHeap \/ MCFullHeap
    /\ Init
    /\ AreaInit
    /\ part \in {"mark", "area"}
    /\ part = "area" => \A b \in Block : kind[b] = "FREE"

(* No root points to the last chunk while it is free: pointers to free     *)
(* chunks are met among the others.                                        *)
MarkSteps ==
    /\ part = "mark" /\ Next /\ UNCHANGED <<areaVars, part>>
    /\ N - 1 \in roots' => kind[N - 1] # "FREE"

(* The last disjunct: the bound on the heap's growth is reached.           *)
MCNext ==
    \/ MarkSteps
    \/ part = "area" /\ AreaNext /\ UNCHANGED <<vars, part>>
    \/ part = "area" /\ total_blocks > MaxHeap /\ UNCHANGED mcVars

MCSpec == MCInit /\ [][MCNext]_mcVars /\ WF_mcVars(part = "mark" /\ Step /\ UNCHANGED <<areaVars, part>>)
====
