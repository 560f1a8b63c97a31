---- MODULE GcMark ----
(***************************************************************************)
(* A collection of py/gc.c: the roots are traced with a mark stack of      *)
(* fixed size; when the stack is full a block is marked without being      *)
(* traced and gc_stack_overflow makes the collector look at the whole heap *)
(* again.  Then finalisers run for the blocks left unmarked, and these are *)
(* freed.  A block stands for a chunk (a head and its tails); what a chunk *)
(* or a root holds is the set of the heads it may point to, data that only *)
(* looks like a pointer included, and the order of its words is arbitrary. *)
(* The thread that collects holds the GIL to the end, so the program does  *)
(* not run in between; what it has done shows in the heap at the start.    *)
(***************************************************************************)
EXTENDS Integers, Sequences

CONSTANTS N,           \* chunks in the heap
          StackSize,   \* MICROPY_ALLOC_GC_STACK_SIZE
          Content,     \* what a chunk or the roots can hold: sets of blocks
          Finalisable  \* chunks that may have a finaliser

Block == 0 .. N - 1

ASSUME NAssumption == N \in Nat \ {0}
ASSUME StackSizeAssumption == StackSize \in Nat
ASSUME ContentAssumption == {} \in Content /\ Content \subseteq SUBSET Block
ASSUME FinalisableAssumption == Finalisable \subseteq Block

VARIABLES kind,      \* FREE, HEAD or MARK
          ptrs,      \* the pointers in each chunk
          ftb,       \* chunks with a finaliser
          ran,       \* history: finalisers run by this collection
          roots, todo,           \* root pointers, those not traced yet
          pc, ret,               \* phase; phase gc_mark_subtree returns to
          block, words, stack,   \* gc_mark_subtree; words not looked at yet
          overflow,              \* gc_stack_overflow
          scan                   \* block of a walk over the heap

heapVars == <<ptrs, ftb, ran, roots>>
markVars == <<block, words, stack>>
vars == <<kind, heapVars, todo, pc, ret, markVars, overflow, scan>>

Init ==
    /\ kind \in [Block -> {"FREE", "HEAD"}]
    /\ ptrs \in [Block -> Content]
    /\ \A b \in Block : kind[b] = "FREE" => ptrs[b] = {}
    /\ ftb \in SUBSET {b \in Finalisable : kind[b] = "HEAD"}
    /\ ran = {} /\ roots = {} /\ todo = {}
    /\ pc = "run" /\ ret = "run"
    /\ block = 0 /\ words = {} /\ stack = <<>>
    /\ overflow = FALSE
    /\ scan = 0
-----------------------------------------------------------------------------
(* gc_collect_start_common; R are the roots of gc_collect_start, of the    *)
(* collector's stack and of mp_thread_gc_others, none for gc_sweep_all.    *)
gc_collect_start(R) ==
    /\ pc = "run"
    /\ roots' = R
    /\ todo' = R
    /\ overflow' = FALSE
    /\ pc' = "roots"
    /\ UNCHANGED <<kind, ptrs, ftb, ran, ret, markVars, scan>>

gc_mark_subtree(b, from) ==
    /\ block' = b
    /\ words' = ptrs[b]
    /\ stack' = <<>>
    /\ ret' = from
    /\ pc' = "subtree"

gc_collect_root(p) ==
    /\ pc = "roots"
    /\ p \in todo
    /\ todo' = todo \ {p}
    /\ IF kind[p] = "HEAD"
       THEN /\ kind' = [kind EXCEPT ![p] = "MARK"]
            /\ gc_mark_subtree(p, "roots")
       ELSE UNCHANGED <<kind, markVars, ret, pc>>
    /\ UNCHANGED <<heapVars, overflow, scan>>

RootsDone ==
    /\ pc = "roots"
    /\ todo = {}
    /\ pc' = "deal"
    /\ UNCHANGED <<kind, heapVars, todo, ret, markVars, overflow, scan>>

Push_silent(p) ==
    /\ stack' = IF Len(stack) < StackSize THEN Append(stack, p) ELSE stack
    /\ UNCHANGED overflow

Push(p) ==
    IF Len(stack) < StackSize
    THEN stack' = Append(stack, p) /\ UNCHANGED overflow
    ELSE overflow' = TRUE /\ UNCHANGED stack

MarkWord_any(p) ==
    /\ pc = "subtree"
    /\ p \in words
    /\ words' = words \ {p}
    /\ IF kind[p] # "FREE"
       THEN kind' = [kind EXCEPT ![p] = "MARK"] /\ Push(p)
       ELSE UNCHANGED <<kind, stack, overflow>>
    /\ UNCHANGED <<heapVars, todo, pc, ret, block, scan>>

(* One word of the block: an unmarked head is marked and pushed.           *)
MarkWord(p) ==
    /\ pc = "subtree"
    /\ p \in words
    /\ words' = words \ {p}
    /\ IF kind[p] = "HEAD"
       THEN kind' = [kind EXCEPT ![p] = "MARK"] /\ Push(p)
       ELSE UNCHANGED <<kind, stack, overflow>>
    /\ UNCHANGED <<heapVars, todo, pc, ret, block, scan>>

(* No word is left: take the next block off the stack, or return.          *)
Pop ==
    /\ pc = "subtree"
    /\ words = {}
    /\ IF stack = <<>>
       THEN pc' = ret /\ block' = 0 /\ UNCHANGED <<words, stack>>
       ELSE /\ block' = stack[Len(stack)]
            /\ words' = ptrs[stack[Len(stack)]]
            /\ stack' = SubSeq(stack, 1, Len(stack) - 1)
            /\ UNCHANGED pc
    /\ UNCHANGED <<kind, heapVars, todo, ret, overflow, scan>>

gc_deal_with_stack_overflow ==
    /\ pc = "deal"
    /\ pc' = IF overflow THEN "rescan" ELSE "finalise"
    /\ overflow' = FALSE
    /\ scan' = 0
    /\ UNCHANGED <<kind, heapVars, todo, ret, markVars>>

Rescan ==
    /\ pc = "rescan"
    /\ IF scan = N
       THEN pc' = "deal" /\ UNCHANGED <<markVars, ret, scan>>
       ELSE /\ scan' = scan + 1
            /\ IF kind[scan] = "MARK" THEN gc_mark_subtree(scan, "rescan")
               ELSE UNCHANGED <<markVars, ret, pc>>
    /\ UNCHANGED <<kind, heapVars, todo, overflow>>
-----------------------------------------------------------------------------
gc_sweep_run_finalisers_any(F) ==
    /\ pc = "finalise"
    /\ scan < N
    /\ scan' = scan + 1
    /\ IF scan \in ftb
       THEN /\ ran' = ran \cup {scan}
            /\ F \in SUBSET {c \in ptrs[scan] : kind[c] = "HEAD" /\ c # scan}
            /\ kind' = [b \in Block |-> IF b \in F THEN "FREE" ELSE kind[b]]
            /\ ftb' = ftb \ ({scan} \cup F)
       ELSE F = {} /\ UNCHANGED <<kind, ftb, ran>>
    /\ UNCHANGED <<ptrs, roots, todo, pc, ret, markVars, overflow>>

(* gc_sweep_run_finalisers at one block.  A finaliser may gc_free unmarked *)
(* chunks that its object owns: F, whose own finalisers then never run.    *)
gc_sweep_run_finalisers(F) ==
    /\ pc = "finalise"
    /\ scan < N
    /\ scan' = scan + 1
    /\ IF scan \in ftb /\ kind[scan] = "HEAD"
       THEN /\ ran' = ran \cup {scan}
            /\ F \in SUBSET {c \in ptrs[scan] : kind[c] = "HEAD" /\ c # scan}
            /\ kind' = [b \in Block |-> IF b \in F THEN "FREE" ELSE kind[b]]
            /\ ftb' = ftb \ ({scan} \cup F)
       ELSE F = {} /\ UNCHANGED <<kind, ftb, ran>>
    /\ UNCHANGED <<ptrs, roots, todo, pc, ret, markVars, overflow>>

(* gc_sweep_free_blocks: unmarked heads go, marked ones become heads.      *)
gc_sweep_free_blocks ==
    /\ pc = "finalise"
    /\ scan = N
    /\ kind' = [b \in Block |-> IF kind[b] = "MARK" THEN "HEAD" ELSE "FREE"]
    /\ ptrs' = [b \in Block |-> IF kind[b] = "MARK" THEN ptrs[b] ELSE {}]
    /\ pc' = "run"
    /\ ran' = {} /\ roots' = {} /\ ret' = "run" /\ scan' = 0
    /\ UNCHANGED <<ftb, todo, markVars, overflow>>

Step ==
    \/ \E p \in Block : gc_collect_root(p)
    \/ RootsDone
    \/ \E p \in Block : MarkWord(p)
    \/ Pop
    \/ gc_deal_with_stack_overflow
    \/ Rescan
    \/ \E F \in Content : gc_sweep_run_finalisers(F)
    \/ gc_sweep_free_blocks

Next == (\E R \in Content : gc_collect_start(R)) \/ Step

(* A collection, once begun, goes on: it is a sequence of calls.           *)
Spec == Init /\ [][Next]_vars /\ WF_vars(Step)
-----------------------------------------------------------------------------
Used == {b \in Block : kind[b] # "FREE"}
Marked == {b \in Block : kind[b] = "MARK"}

(* Type correctness.                                                       *)
TypeOK ==
    /\ kind \in [Block -> {"FREE", "HEAD", "MARK"}]
    /\ ptrs \in [Block -> SUBSET Block]
    /\ ftb \subseteq Block
    /\ ran \subseteq Block
    /\ roots \subseteq Block
    /\ todo \subseteq roots
    /\ pc \in {"run", "roots", "subtree", "deal", "rescan", "finalise"}
    /\ ret \in {"run", "roots", "rescan"}
    /\ block \in Block
    /\ words \subseteq Block
    /\ stack \in Seq(Block)
    /\ Len(stack) <= StackSize
    /\ overflow \in BOOLEAN
    /\ scan \in 0 .. N

(* S holds what the roots point to and what its own members point to.      *)
Closed(S) ==
    /\ roots \cap Used \subseteq S
    /\ \A b \in S : ptrs[b] \cap Used \subseteq S

(* The chunks the program can still reach: the smallest closed set.        *)
Reachable == {b \in Used : \A S \in SUBSET Used : Closed(S) => b \in S}

(* When the sweep begins, the marked chunks are exactly the reachable      *)
(* ones, whatever the depth of the heap and however small the mark stack.  *)
MarkedIsReachable == pc = "finalise" => Marked = Reachable

(* No finaliser runs for an object the program can still reach, and a      *)
(* chunk keeps its finaliser flag only while it is in use.                 *)
FinalisersOfGarbage ==
    /\ pc = "finalise" => ran \cap Reachable = {}
    /\ pc = "run" => \A b \in ftb : kind[b] = "HEAD"

(* gc_stack_overflow makes the collector walk the heap again and again;    *)
(* it comes to an end: every collection terminates.                        *)
CollectionEnds == (pc # "run") ~> (pc = "run")
====
