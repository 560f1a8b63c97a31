---- MODULE GcMark_proofs ----
(***************************************************************************)
(* When the sweep begins the marked chunks are exactly the reachable ones, *)
(* for every heap and every size of the mark stack, zero included.         *)
(*                                                                         *)
(* A marked chunk may still point to an unmarked one (a gap) only while    *)
(* something remembers to trace it: it is on the stack, its word is still  *)
(* to be looked at, the walk over the heap has yet to come by, or the      *)
(* overflow flag is set.  That is TracedOrKnown.  In the other direction   *)
(* every set that is closed under pointers holds all the marks.            *)
(*                                                                         *)
(* At the end: the sizes of the areas, for requests of every size.         *)
(***************************************************************************)
EXTENDS GcMark, GcArea, SequenceTheorems, TLAPS

Marking == pc \in {"roots", "subtree", "deal", "rescan", "finalise"}

OnStack(b) == \E i \in 1 .. Len(stack) : stack[i] = b

Walking == pc = "rescan" \/ (pc = "subtree" /\ ret = "rescan")

(* Someone will still trace the pointer from b to c.                       *)
Remembered(b, c) ==
    \/ overflow
    \/ pc = "subtree" /\ OnStack(b)
    \/ pc = "subtree" /\ b = block /\ c \in words
    \/ Walking /\ b >= scan

TracedOrKnown ==
    Marking => \A b \in Block : \A c \in ptrs[b] :
        kind[b] = "MARK" /\ kind[c] = "HEAD" => Remembered(b, c)

RootsKnown ==
    Marking => \A p \in roots : kind[p] = "HEAD" => p \in todo

(* Phases: what holds in between.                                          *)
Phases ==
    /\ pc \in {"deal", "rescan", "finalise"} => todo = {}
    /\ pc = "subtree" => ret \in {"roots", "rescan"}
    /\ pc = "subtree" /\ ret = "rescan" => todo = {}
    /\ pc = "finalise" => ~overflow
    /\ pc = "subtree" => \A i \in 1 .. Len(stack) : kind[stack[i]] = "MARK"
    /\ pc = "subtree" => kind[block] = "MARK" /\ words \subseteq ptrs[block]
    /\ pc = "run" => Marked = {}

MarksInside ==
    Marking => \A S \in SUBSET Used : Closed(S) => Marked \subseteq S

Inv == TypeOK /\ TracedOrKnown /\ RootsKnown /\ Phases /\ MarksInside
-----------------------------------------------------------------------------
LEMMA InitInv == Init => Inv
<1> SUFFICES ASSUME Init PROVE Inv
  OBVIOUS
<1>1. TypeOK
  BY NAssumption, StackSizeAssumption, ContentAssumption, FinalisableAssumption, SMTT(30) DEF Init, TypeOK, Block
<1>2. Phases
  BY <1>1 DEF Init, Phases, Marked, TypeOK
<1> QED
  BY <1>1, <1>2 DEF Init, Inv, TracedOrKnown, RootsKnown, MarksInside, Marking

LEMMA TypeStep == TypeOK /\ Phases /\ [Next]_vars => TypeOK'
<1> SUFFICES ASSUME TypeOK, Phases, [Next]_vars PROVE TypeOK'
  OBVIOUS
<1> USE NAssumption, StackSizeAssumption, ContentAssumption DEF TypeOK, Block
<1>1. ASSUME NEW R \in Content, gc_collect_start(R) PROVE TypeOK'
  BY <1>1 DEF gc_collect_start, markVars
<1>2. ASSUME NEW p \in Block, gc_collect_root(p) PROVE TypeOK'
  <2>1. CASE kind[p] = "HEAD"
    BY <1>2, <2>1 DEF gc_collect_root, gc_mark_subtree, heapVars
  <2>2. CASE kind[p] # "HEAD"
    BY <1>2, <2>2 DEF gc_collect_root, heapVars, markVars
  <2> QED
    BY <2>1, <2>2
<1>3. ASSUME RootsDone PROVE TypeOK'
  BY <1>3 DEF RootsDone, heapVars, markVars
<1>4. ASSUME NEW p \in Block, MarkWord(p) PROVE TypeOK'
  <2>1. CASE kind[p] = "HEAD" /\ Len(stack) < StackSize
    <3>1. Append(stack, p) \in Seq(Block) /\ Len(Append(stack, p)) = Len(stack) + 1
      OBVIOUS
    <3>2. /\ kind' = [kind EXCEPT ![p] = "MARK"] /\ stack' = Append(stack, p)
          /\ words' = words \ {p}
          /\ UNCHANGED <<ptrs, ftb, ran, roots, todo, pc, ret, block, overflow, scan>>
      BY <1>4, <2>1 DEF MarkWord, Push, heapVars
    <3> QED
      BY <2>1, <3>1, <3>2
  <2>2. CASE ~(kind[p] = "HEAD" /\ Len(stack) < StackSize)
    BY <1>4, <2>2 DEF MarkWord, Push, heapVars
  <2> QED
    BY <2>1, <2>2
<1>5. ASSUME Pop PROVE TypeOK'
  <2>1. CASE stack = <<>>
    BY <1>5, <2>1 DEF Pop, heapVars
  <2>2. CASE stack # <<>>
    <3>1. /\ stack[Len(stack)] \in Block
          /\ SubSeq(stack, 1, Len(stack) - 1) \in Seq(Block)
          /\ Len(SubSeq(stack, 1, Len(stack) - 1)) = Len(stack) - 1
      BY <2>2
    <3>2. /\ block' = stack[Len(stack)] /\ words' = ptrs[stack[Len(stack)]]
          /\ stack' = SubSeq(stack, 1, Len(stack) - 1)
          /\ UNCHANGED <<kind, ptrs, ftb, ran, roots, todo, pc, ret, overflow, scan>>
      BY <1>5, <2>2 DEF Pop, heapVars
    <3> QED
      BY <2>2, <3>1, <3>2
  <2> QED
    BY <2>1, <2>2
<1>6. ASSUME gc_deal_with_stack_overflow PROVE TypeOK'
  <2>1. /\ pc' \in {"rescan", "finalise"} /\ overflow' = FALSE /\ scan' = 0
        /\ UNCHANGED <<kind, ptrs, ftb, ran, roots, todo, ret, block, words, stack>>
    BY <1>6 DEF gc_deal_with_stack_overflow, heapVars, markVars
  <2> QED
    BY <2>1
<1>7. ASSUME Rescan PROVE TypeOK'
  <2>1. CASE scan = N
    BY <1>7, <2>1 DEF Rescan, heapVars, markVars
  <2>2. CASE scan # N /\ kind[scan] = "MARK"
    <3>1. /\ scan' = scan + 1 /\ block' = scan /\ words' = ptrs[scan]
          /\ stack' = <<>> /\ ret' = "rescan" /\ pc' = "subtree"
          /\ UNCHANGED <<kind, ptrs, ftb, ran, roots, todo, overflow>>
      BY <1>7, <2>2 DEF Rescan, gc_mark_subtree, heapVars
    <3> QED
      BY <2>2, <3>1
  <2>3. CASE scan # N /\ kind[scan] # "MARK"
    <3>1. /\ scan' = scan + 1
          /\ UNCHANGED <<kind, ptrs, ftb, ran, roots, todo, pc, ret, block, words, stack, overflow>>
      BY <1>7, <2>3 DEF Rescan, heapVars, markVars
    <3> QED
      BY <2>3, <3>1
  <2> QED
    BY <2>1, <2>2, <2>3
<1>8. ASSUME NEW F \in Content, gc_sweep_run_finalisers(F) PROVE TypeOK'
  <2>1. scan' \in 0 .. N
    BY <1>8 DEF gc_sweep_run_finalisers
  <2>2. /\ kind' \in [Block -> {"FREE", "HEAD", "MARK"}]
        /\ ftb' \subseteq Block
        /\ ran' \subseteq Block
    <3>1. CASE scan \in ftb /\ kind[scan] = "HEAD"
      <4>1. /\ kind' = [b \in Block |-> IF b \in F THEN "FREE" ELSE kind[b]]
            /\ ftb' = ftb \ ({scan} \cup F)
            /\ ran' = ran \cup {scan}
        BY <1>8, <3>1, Zenon DEF gc_sweep_run_finalisers
      <4> QED
        BY <3>1, <4>1
    <3>2. CASE ~(scan \in ftb /\ kind[scan] = "HEAD")
      BY <1>8, <3>2 DEF gc_sweep_run_finalisers
    <3> QED
      BY <3>1, <3>2
  <2>3. UNCHANGED <<ptrs, roots, todo, pc, ret, block, words, stack, overflow>>
    BY <1>8 DEF gc_sweep_run_finalisers, markVars
  <2> QED
    BY <2>1, <2>2, <2>3
<1>9. ASSUME gc_sweep_free_blocks PROVE TypeOK'
  <2>1. todo = {}
    BY <1>9 DEF gc_sweep_free_blocks, Phases
  <2>2. ptrs' \in [Block -> SUBSET Block]
    BY <1>9 DEF gc_sweep_free_blocks
  <2> QED
    BY <1>9, <2>1, <2>2 DEF gc_sweep_free_blocks, markVars
<1>10. CASE UNCHANGED vars
  BY <1>10 DEF vars, heapVars, markVars
<1> QED
  BY <1>1, <1>2, <1>3, <1>4, <1>5, <1>6, <1>7, <1>8, <1>9, <1>10 DEF Next, Step
-----------------------------------------------------------------------------
Rest == TracedOrKnown /\ RootsKnown /\ Phases /\ MarksInside

(* Marking a head leaves the used blocks, and so the closed sets, alone.   *)
LEMMA SameClosed ==
    ASSUME TypeOK, TypeOK', ptrs' = ptrs, roots' = roots,
           \A b \in Block : kind[b] = "FREE" <=> kind'[b] = "FREE"
    PROVE  Used' = Used /\ \A S \in SUBSET Used : Closed(S)' <=> Closed(S)
<1>1. Used' = Used
  BY DEF Used
<1> QED
  BY <1>1 DEF Closed

(* The chunk marked by a step is a root or the target of a marked chunk.   *)
LEMMA MarkKeepsInside ==
    ASSUME TypeOK, TypeOK', MarksInside, Marking,
           ptrs' = ptrs, roots' = roots,
           NEW p \in Block, kind[p] = "HEAD",
           kind' = [kind EXCEPT ![p] = "MARK"],
           p \in roots \/ \E b \in Block : kind[b] = "MARK" /\ p \in ptrs[b]
    PROVE  MarksInside'
<1>1. \A b \in Block : kind[b] = "FREE" <=> kind'[b] = "FREE"
  BY DEF TypeOK
<1>2. Used' = Used /\ \A S \in SUBSET Used : Closed(S)' <=> Closed(S)
  BY <1>1, SameClosed
<1>3. Marked' = Marked \cup {p}
  BY DEF Marked, TypeOK
<1>4. SUFFICES ASSUME NEW S \in SUBSET Used, Closed(S) PROVE p \in S /\ Marked \subseteq S
  BY <1>2, <1>3, <1>4 DEF MarksInside
<1>5. Marked \subseteq S
  BY <1>4 DEF MarksInside
<1>6. p \in Used
  BY DEF Used
<1>7. p \in S
  <2>1. CASE p \in roots
    BY <1>4, <1>6, <2>1 DEF Closed
  <2>2. CASE \E b \in Block : kind[b] = "MARK" /\ p \in ptrs[b]
    <3>1. PICK b \in Block : kind[b] = "MARK" /\ p \in ptrs[b]
      BY <2>2
    <3>2. b \in S
      BY <1>5, <3>1 DEF Marked
    <3> QED
      BY <1>4, <1>6, <3>1, <3>2 DEF Closed
  <2> QED
    BY <2>1, <2>2
<1> QED
  BY <1>5, <1>7

(* A step that marks nothing keeps MarksInside.                            *)
LEMMA SameKeepsInside ==
    ASSUME TypeOK, TypeOK', MarksInside, Marking,
           ptrs' = ptrs, roots' = roots, kind' = kind
    PROVE  MarksInside'
<1>1. Used' = Used /\ \A S \in SUBSET Used : Closed(S)' <=> Closed(S)
  BY SameClosed
<1>2. Marked' = Marked
  BY DEF Marked
<1> QED
  BY <1>1, <1>2 DEF MarksInside

LEMMA StartStep ==
    ASSUME Inv, TypeOK', NEW R \in Content, gc_collect_start(R)
    PROVE  Rest'
<1>1. Marked = {} /\ kind' = kind /\ pc' = "roots"
  BY DEF gc_collect_start, Inv, Phases
<1>2. \A b \in Block : kind[b] # "MARK"
  BY <1>1 DEF Marked
<1>3. TracedOrKnown'
  BY <1>1, <1>2 DEF TracedOrKnown
<1>4. RootsKnown'
  BY DEF gc_collect_start, RootsKnown
<1>5. Phases'
  BY <1>1 DEF Phases, gc_collect_start
<1>6. MarksInside'
  BY <1>1, <1>2 DEF MarksInside, Marked
<1> QED
  BY <1>3, <1>4, <1>5, <1>6 DEF Rest

LEMMA RootStep ==
    ASSUME Inv, TypeOK', NEW p \in Block, gc_collect_root(p)
    PROVE  Rest'
<1> USE DEF Inv, gc_collect_root, heapVars
<1>0. TypeOK /\ Marking
  BY DEF Marking
<1>1. CASE kind[p] = "HEAD"
  <2>1. /\ kind' = [kind EXCEPT ![p] = "MARK"] /\ pc' = "subtree" /\ ret' = "roots"
        /\ block' = p /\ words' = ptrs[p] /\ stack' = <<>> /\ ptrs' = ptrs
        /\ roots' = roots /\ todo' = todo \ {p} /\ overflow' = overflow
    BY <1>1 DEF gc_mark_subtree
  <2>2. TracedOrKnown'
    <3>1. SUFFICES ASSUME NEW b \in Block, NEW c \in ptrs[b],
                          kind'[b] = "MARK", kind'[c] = "HEAD"
                   PROVE  Remembered(b, c)'
      BY <2>1 DEF TracedOrKnown
    <3>2. kind[c] = "HEAD"
      BY <2>1, <3>1, <1>0 DEF TypeOK
    <3>3. CASE b = p
      BY <2>1, <3>3 DEF Remembered
    <3>4. CASE b # p
      <4>1. kind[b] = "MARK"
        BY <2>1, <3>1, <3>4, <1>0 DEF TypeOK
      <4>2. Remembered(b, c)
        BY <1>0, <3>2, <4>1 DEF TracedOrKnown
      <4> QED
        BY <2>1, <4>2 DEF Remembered, Walking
    <3> QED
      BY <3>3, <3>4
  <2>3. RootsKnown'
    BY <2>1, <1>0 DEF RootsKnown, TypeOK
  <2>4. Phases'
    BY <2>1, <1>0 DEF Phases, TypeOK
  <2>5. p \in roots
    BY <1>0 DEF TypeOK
  <2>6. MarksInside'
    BY <2>1, <2>5, <1>0, <1>1, MarkKeepsInside
  <2> QED
    BY <2>2, <2>3, <2>4, <2>6 DEF Rest
<1>2. CASE kind[p] # "HEAD"
  <2>1. UNCHANGED <<kind, ptrs, roots, markVars, ret, pc, overflow, scan>> /\ todo' = todo \ {p}
    BY <1>2
  <2>2. TracedOrKnown' /\ RootsKnown' /\ Phases'
    BY <2>1, <1>2 DEF TracedOrKnown, RootsKnown, Phases, Remembered, OnStack, Walking,
                      Marking, Marked, markVars
  <2>3. MarksInside'
    BY <2>1, <1>0, SameKeepsInside
  <2> QED
    BY <2>2, <2>3 DEF Rest
<1> QED
  BY <1>1, <1>2

LEMMA RootsDoneStep ==
    ASSUME Inv, TypeOK', RootsDone
    PROVE  Rest'
<1> USE DEF Inv, RootsDone, heapVars, markVars
<1>1. TypeOK /\ Marking /\ pc = "roots" /\ pc' = "deal"
  BY DEF Marking
<1>2. TracedOrKnown'
  BY <1>1 DEF TracedOrKnown, Remembered, Walking
<1>3. RootsKnown'
  BY <1>1 DEF RootsKnown
<1>4. Phases'
  BY <1>1 DEF Phases
<1>5. MarksInside'
  BY <1>1, SameKeepsInside
<1> QED
  BY <1>2, <1>3, <1>4, <1>5 DEF Rest

LEMMA MarkWordStep ==
    ASSUME Inv, TypeOK', NEW p \in Block, MarkWord(p)
    PROVE  Rest'
<1> USE DEF Inv
<1>0. TypeOK /\ Marking /\ pc = "subtree" /\ p \in words /\ p \in ptrs[block]
      /\ kind[block] = "MARK"
  BY DEF Marking, MarkWord, Phases
<1>1. /\ words' = words \ {p}
      /\ UNCHANGED <<ptrs, ftb, ran, roots, todo, pc, ret, block, scan>>
  BY DEF MarkWord, heapVars
<1>2. CASE kind[p] = "HEAD"
  <2>1. kind' = [kind EXCEPT ![p] = "MARK"]
    BY <1>2 DEF MarkWord
  <2>2. \/ stack' = Append(stack, p) /\ overflow' = overflow
        \/ overflow' = TRUE /\ stack' = stack
    BY <1>2 DEF MarkWord, Push
  <2>3. \A b \in Block : OnStack(b) => OnStack(b)'
    BY <2>2, <1>0 DEF OnStack, TypeOK
  <2>4. overflow' \/ OnStack(p)'
    <3>1. CASE stack' = Append(stack, p)
      <4>1. stack'[Len(stack) + 1] = p /\ Len(stack') = Len(stack) + 1
        BY <3>1, <1>0 DEF TypeOK
      <4>2. Len(stack) + 1 \in 1 .. Len(stack')
        BY <4>1, <1>0 DEF TypeOK
      <4> QED
        BY <4>1, <4>2 DEF OnStack
    <3> QED
      BY <2>2, <3>1
  <2>5. overflow => overflow'
    BY <2>2
  <2>6. TracedOrKnown'
    <3>1. SUFFICES ASSUME NEW b \in Block, NEW c \in ptrs[b],
                          kind'[b] = "MARK", kind'[c] = "HEAD"
                   PROVE  Remembered(b, c)'
      BY <1>1 DEF TracedOrKnown
    <3>2. kind[c] = "HEAD" /\ c # p
      BY <2>1, <3>1, <1>0 DEF TypeOK
    <3>3. CASE b = p
      BY <1>0, <1>1, <2>4, <3>3 DEF Remembered
    <3>4. CASE b # p
      <4>1. kind[b] = "MARK"
        BY <2>1, <3>1, <3>4, <1>0 DEF TypeOK
      <4>2. Remembered(b, c)
        BY <1>0, <3>2, <4>1 DEF TracedOrKnown
      <4> QED
        BY <4>2, <1>0, <1>1, <2>3, <2>5, <3>2 DEF Remembered, Walking
    <3> QED
      BY <3>3, <3>4
  <2>7. RootsKnown'
    BY <1>0, <1>1, <2>1 DEF RootsKnown, TypeOK
  <2>8. \A i \in 1 .. Len(stack') : kind'[stack'[i]] = "MARK"
    <3>1. \A i \in 1 .. Len(stack) : stack[i] \in Block /\ kind'[stack[i]] = "MARK"
      BY <1>0, <2>1 DEF TypeOK, Phases
    <3>2. kind'[p] = "MARK"
      BY <1>0, <2>1 DEF TypeOK
    <3>3. CASE stack' = Append(stack, p)
      BY <1>0, <3>1, <3>2, <3>3 DEF TypeOK
    <3> QED
      BY <2>2, <3>1, <3>3
  <2>9. Phases'
    <3>1. kind'[block] = "MARK" /\ words' \subseteq ptrs[block]
      BY <1>0, <1>1, <2>1 DEF Phases, TypeOK
    <3> QED
      BY <1>0, <1>1, <2>8, <3>1 DEF Phases
  <2>10. MarksInside'
    BY <1>0, <1>1, <1>2, <2>1, MarkKeepsInside DEF TypeOK
  <2> QED
    BY <2>6, <2>7, <2>9, <2>10 DEF Rest
<1>3. CASE kind[p] # "HEAD"
  <2>1. UNCHANGED <<kind, stack, overflow>>
    BY <1>3 DEF MarkWord
  <2>2. TracedOrKnown'
    <3>1. SUFFICES ASSUME NEW b \in Block, NEW c \in ptrs[b],
                          kind[b] = "MARK", kind[c] = "HEAD"
                   PROVE  Remembered(b, c)'
      BY <1>1, <2>1 DEF TracedOrKnown
    <3>2. Remembered(b, c) /\ c # p
      BY <1>0, <1>3, <3>1 DEF TracedOrKnown
    <3> QED
      BY <3>2, <1>1, <2>1 DEF Remembered, Walking, OnStack
  <2>3. RootsKnown'
    BY <1>0, <1>1, <2>1 DEF RootsKnown
  <2>4. Phases'
    BY <1>0, <1>1, <2>1 DEF Phases
  <2>5. MarksInside'
    BY <1>0, <1>1, <2>1, SameKeepsInside
  <2> QED
    BY <2>2, <2>3, <2>4, <2>5 DEF Rest
<1> QED
  BY <1>2, <1>3

(* What is left of a stack once its top is taken.                          *)
LEMMA AllButLast ==
    ASSUME NEW S, NEW q \in Seq(S), q # <<>>
    PROVE  /\ Len(SubSeq(q, 1, Len(q) - 1)) = Len(q) - 1
           /\ \A i \in 1 .. Len(q) - 1 : SubSeq(q, 1, Len(q) - 1)[i] = q[i]
<1>1. Len(q) \in Nat /\ Len(q) # 0
  OBVIOUS
<1>2. PICK n \in Nat : n = Len(q) - 1
  BY <1>1
<1>3. n <= Len(q)
  BY <1>1, <1>2
<1>4. \A i \in 1 .. n : q[i] \in S
  BY <1>1, <1>2
<1>5. Len(SubSeq(q, 1, n)) = n /\ \A i \in 1 .. n : SubSeq(q, 1, n)[i] = q[i]
  BY <1>1, <1>3, <1>4, SubSeqProperties
<1> QED
  BY <1>2, <1>5

LEMMA PopStep ==
    ASSUME Inv, TypeOK', Pop
    PROVE  Rest'
<1> USE DEF Inv
<1>0. TypeOK /\ Marking /\ pc = "subtree" /\ words = {}
      /\ UNCHANGED <<kind, ptrs, ftb, ran, roots, todo, ret, overflow, scan>>
  BY DEF Marking, Pop, heapVars
<1>1. CASE stack = <<>>
  <2>1. pc' = ret /\ ret \in {"roots", "rescan"} /\ UNCHANGED <<words, stack>>
    BY <1>0, <1>1 DEF Pop, Phases
  <2>2. TracedOrKnown'
    <3>1. SUFFICES ASSUME NEW b \in Block, NEW c \in ptrs[b],
                          kind[b] = "MARK", kind[c] = "HEAD"
                   PROVE  Remembered(b, c)'
      BY <1>0 DEF TracedOrKnown
    <3>2. Remembered(b, c)
      BY <1>0, <3>1 DEF TracedOrKnown
    <3>3. ~OnStack(b)
      BY <1>1 DEF OnStack
    <3> QED
      BY <3>2, <3>3, <1>0, <2>1 DEF Remembered, Walking
  <2>3. RootsKnown'
    BY <1>0, <2>1 DEF RootsKnown
  <2>4. Phases'
    BY <1>0, <2>1 DEF Phases
  <2>5. MarksInside'
    BY <1>0, SameKeepsInside
  <2> QED
    BY <2>2, <2>3, <2>4, <2>5 DEF Rest
<1>2. CASE stack # <<>>
  <2>1. /\ block' = stack[Len(stack)] /\ words' = ptrs[stack[Len(stack)]]
        /\ stack' = SubSeq(stack, 1, Len(stack) - 1) /\ pc' = pc
    BY <1>2 DEF Pop
  <2>2. /\ Len(stack) \in 1 .. Len(stack)
        /\ Len(stack') = Len(stack) - 1
        /\ \A i \in 1 .. Len(stack') : stack'[i] = stack[i] /\ i \in 1 .. Len(stack)
    <3>1. stack \in Seq(Block) /\ Len(stack) \in Nat /\ Len(stack) > 0
      BY <1>0, <1>2 DEF TypeOK
    <3> DEFINE s == SubSeq(stack, 1, Len(stack) - 1)
    <3>2. Len(s) = Len(stack) - 1 /\ \A i \in 1 .. Len(stack) - 1 : s[i] = stack[i]
      BY <3>1, <1>2, AllButLast
    <3> HIDE DEF s
    <3>3. stack' = s
      BY <2>1 DEF s
    <3> QED
      BY <3>1, <3>2, <3>3
  <2>3. \A b \in Block : OnStack(b) => OnStack(b)' \/ b = block'
    <3>1. SUFFICES ASSUME NEW b \in Block, NEW i \in 1 .. Len(stack), stack[i] = b
                   PROVE  OnStack(b)' \/ b = block'
      BY DEF OnStack
    <3>2. i = Len(stack) \/ i \in 1 .. Len(stack')
      BY <2>2
    <3> QED
      BY <3>1, <3>2, <2>1, <2>2 DEF OnStack
  <2>4. TracedOrKnown'
    <3>1. SUFFICES ASSUME NEW b \in Block, NEW c \in ptrs[b],
                          kind[b] = "MARK", kind[c] = "HEAD"
                   PROVE  Remembered(b, c)'
      BY <1>0 DEF TracedOrKnown
    <3>2. Remembered(b, c)
      BY <1>0, <3>1 DEF TracedOrKnown
    <3>3. b = block' => c \in words'
      BY <2>1
    <3> QED
      BY <3>2, <3>3, <2>3, <1>0, <2>1 DEF Remembered, Walking
  <2>5. RootsKnown'
    BY <1>0, <2>1 DEF RootsKnown
  <2>6. Phases'
    <3>1. \A i \in 1 .. Len(stack') : kind'[stack'[i]] = "MARK"
      BY <1>0, <2>2 DEF Phases
    <3>2. kind'[block'] = "MARK" /\ words' \subseteq ptrs'[block']
      BY <1>0, <2>1, <2>2 DEF Phases
    <3> QED
      BY <1>0, <2>1, <3>1, <3>2 DEF Phases
  <2>7. MarksInside'
    BY <1>0, SameKeepsInside
  <2> QED
    BY <2>4, <2>5, <2>6, <2>7 DEF Rest
<1> QED
  BY <1>1, <1>2

LEMMA DealStep ==
    ASSUME Inv, TypeOK', gc_deal_with_stack_overflow
    PROVE  Rest'
<1> USE DEF Inv
<1>0. TypeOK /\ Marking /\ pc = "deal" /\ todo = {} /\ overflow' = FALSE /\ scan' = 0
      /\ UNCHANGED <<kind, ptrs, ftb, ran, roots, todo, ret, block, words, stack>>
  BY DEF Marking, gc_deal_with_stack_overflow, heapVars, markVars, Phases
<1>1. pc' = IF overflow THEN "rescan" ELSE "finalise"
  BY DEF gc_deal_with_stack_overflow
<1>2. TracedOrKnown'
  <2>1. SUFFICES ASSUME NEW b \in Block, NEW c \in ptrs[b],
                        kind[b] = "MARK", kind[c] = "HEAD"
                 PROVE  Remembered(b, c)'
    BY <1>0 DEF TracedOrKnown
  <2>2. Remembered(b, c)
    BY <1>0, <2>1 DEF TracedOrKnown
  <2>3. overflow
    BY <2>2, <1>0 DEF Remembered, Walking
  <2>4. b >= 0
    BY DEF Block
  <2> QED
    BY <2>3, <2>4, <1>0, <1>1 DEF Remembered, Walking
<1>3. RootsKnown'
  BY <1>0 DEF RootsKnown
<1>4. Phases'
  BY <1>0, <1>1 DEF Phases
<1>5. MarksInside'
  BY <1>0, SameKeepsInside
<1> QED
  BY <1>2, <1>3, <1>4, <1>5 DEF Rest

LEMMA RescanStep ==
    ASSUME Inv, TypeOK', Rescan
    PROVE  Rest'
<1> USE DEF Inv
<1>0. TypeOK /\ Marking /\ pc = "rescan" /\ todo = {}
      /\ UNCHANGED <<kind, ptrs, ftb, ran, roots, todo, overflow>>
  BY DEF Marking, Rescan, heapVars, Phases
<1>1. RootsKnown'
  BY <1>0 DEF RootsKnown
<1>2. MarksInside'
  BY <1>0, SameKeepsInside
<1>3. \A b \in Block : \A c \in ptrs[b] :
        kind[b] = "MARK" /\ kind[c] = "HEAD" => overflow \/ b >= scan
  BY <1>0 DEF TracedOrKnown, Remembered, Walking
<1>4. \A b \in Block : b \in Int /\ b < N
  BY NAssumption DEF Block
<1>5. scan \in 0 .. N /\ N \in Nat
  BY <1>0, NAssumption DEF TypeOK
<1>6. CASE scan = N
  <2>1. pc' = "deal"
    BY <1>6 DEF Rescan
  <2>2. TracedOrKnown'
    <3>1. SUFFICES ASSUME NEW b \in Block, NEW c \in ptrs[b],
                          kind[b] = "MARK", kind[c] = "HEAD"
                   PROVE  Remembered(b, c)'
      BY <1>0 DEF TracedOrKnown
    <3>2. overflow
      BY <1>3, <1>4, <1>5, <1>6, <3>1
    <3> QED
      BY <1>0, <3>2 DEF Remembered
  <2>3. Phases'
    BY <1>0, <2>1 DEF Phases
  <2> QED
    BY <1>1, <1>2, <2>2, <2>3 DEF Rest
<1>7. CASE scan # N /\ kind[scan] = "MARK"
  <2>1. /\ scan' = scan + 1 /\ block' = scan /\ words' = ptrs[scan]
        /\ stack' = <<>> /\ ret' = "rescan" /\ pc' = "subtree"
    BY <1>7 DEF Rescan, gc_mark_subtree
  <2>2. TracedOrKnown'
    <3>1. SUFFICES ASSUME NEW b \in Block, NEW c \in ptrs[b],
                          kind[b] = "MARK", kind[c] = "HEAD"
                   PROVE  Remembered(b, c)'
      BY <1>0 DEF TracedOrKnown
    <3>2. overflow \/ b = scan \/ b >= scan + 1
      BY <1>3, <1>4, <1>5, <3>1
    <3>3. b = scan => b = block' /\ c \in words'
      BY <2>1
    <3> QED
      BY <3>2, <3>3, <1>0, <2>1 DEF Remembered, Walking
  <2>3. Phases'
    BY <1>0, <1>7, <2>1 DEF Phases
  <2> QED
    BY <1>1, <1>2, <2>2, <2>3 DEF Rest
<1>8. CASE scan # N /\ kind[scan] # "MARK"
  <2>1. scan' = scan + 1 /\ UNCHANGED <<block, words, stack, ret, pc>>
    BY <1>8 DEF Rescan, markVars
  <2>2. TracedOrKnown'
    <3>1. SUFFICES ASSUME NEW b \in Block, NEW c \in ptrs[b],
                          kind[b] = "MARK", kind[c] = "HEAD"
                   PROVE  Remembered(b, c)'
      BY <1>0 DEF TracedOrKnown
    <3>2. overflow \/ b >= scan + 1
      BY <1>3, <1>4, <1>5, <1>8, <3>1
    <3> QED
      BY <3>2, <1>0, <2>1 DEF Remembered, Walking
  <2>3. Phases'
    BY <1>0, <2>1 DEF Phases
  <2> QED
    BY <1>1, <1>2, <2>2, <2>3 DEF Rest
<1> QED
  BY <1>6, <1>7, <1>8

(* When the sweep begins nothing is left to trace: no marked chunk and no  *)
(* root points to an unmarked one.                                         *)
LEMMA NothingLeft ==
    ASSUME Inv, pc = "finalise"
    PROVE  /\ \A b \in Block : \A c \in ptrs[b] : kind[b] = "MARK" => kind[c] # "HEAD"
           /\ \A p \in roots : kind[p] # "HEAD"
<1>1. todo = {} /\ ~overflow /\ Marking
  BY DEF Inv, Phases, Marking
<1>2. \A p \in roots : kind[p] # "HEAD"
  BY <1>1 DEF Inv, RootsKnown
<1>3. \A b \in Block : \A c \in ptrs[b] : kind[b] = "MARK" => kind[c] # "HEAD"
  BY <1>1 DEF Inv, TracedOrKnown, Remembered, Walking
<1> QED
  BY <1>2, <1>3

(* A finaliser frees unmarked chunks only.  A set S closed afterwards cut  *)
(* down to the marks was closed before, so it held all the marks.          *)
LEMMA FinaliserStep ==
    ASSUME Inv, TypeOK', NEW F \in Content, gc_sweep_run_finalisers(F)
    PROVE  Rest'
<1> USE DEF Inv
<1>0. TypeOK /\ Marking /\ pc = "finalise" /\ todo = {}
      /\ UNCHANGED <<ptrs, roots, todo, pc, ret, block, words, stack, overflow>>
  BY DEF Marking, gc_sweep_run_finalisers, markVars, Phases
<1>1. \A b \in Block : /\ kind'[b] = "MARK" <=> kind[b] = "MARK"
                       /\ kind'[b] = "HEAD" => kind[b] = "HEAD"
  <2>1. CASE scan \in ftb /\ kind[scan] = "HEAD"
    <3>1. /\ kind' = [b \in Block |-> IF b \in F THEN "FREE" ELSE kind[b]]
          /\ \A c \in F : kind[c] = "HEAD"
      BY <2>1 DEF gc_sweep_run_finalisers
    <3> QED
      BY <3>1
  <2>2. CASE ~(scan \in ftb /\ kind[scan] = "HEAD")
    BY <2>2 DEF gc_sweep_run_finalisers
  <2> QED
    BY <2>1, <2>2
<1>2. /\ \A b \in Block : \A c \in ptrs[b] : kind[b] = "MARK" => kind[c] # "HEAD"
      /\ \A p \in roots : kind[p] # "HEAD"
  BY <1>0, NothingLeft
<1>3. \A b \in Block : ptrs[b] \subseteq Block
  BY <1>0 DEF TypeOK
<1>4. roots \subseteq Block
  BY <1>0 DEF TypeOK
<1>5. TracedOrKnown'
  BY <1>0, <1>1, <1>2, <1>3 DEF TracedOrKnown
<1>6. RootsKnown'
  BY <1>0, <1>1, <1>2, <1>4 DEF RootsKnown
<1>7. Phases'
  BY <1>0 DEF Phases
<1>8. MarksInside'
  <2>1. Marked' = Marked
    BY <1>1 DEF Marked
  <2>2. SUFFICES ASSUME NEW S \in SUBSET Used', Closed(S)' PROVE Marked \subseteq S
    BY <2>1 DEF MarksInside
  <2>3. \A b \in Block : kind[b] = "MARK" => b \in Used'
    BY <1>1 DEF Used
  <2> DEFINE T == S \cap Marked
  <2>4. T \subseteq Used
    BY DEF Used, Marked
  <2>5. roots \cap Used \subseteq T
    <3>1. SUFFICES ASSUME NEW r \in roots, r \in Used PROVE r \in T
      OBVIOUS
    <3>2. r \in Block /\ kind[r] = "MARK"
      BY <3>1, <1>0, <1>2 DEF Used, TypeOK
    <3>3. r \in S
      BY <3>2, <2>2, <2>3, <1>0 DEF Closed
    <3> QED
      BY <3>2, <3>3 DEF Marked
  <2>6. ASSUME NEW b \in T, NEW c \in ptrs[b], c \in Used PROVE c \in T
    <3>1. b \in Block /\ kind[b] = "MARK" /\ b \in S
      BY <2>6 DEF Marked
    <3>2. c \in Block /\ kind[c] = "MARK"
      BY <2>6, <3>1, <1>0, <1>2, <1>3 DEF Used, TypeOK
    <3>3. c \in S
      BY <3>1, <3>2, <2>2, <2>3, <1>0 DEF Closed
    <3> QED
      BY <3>2, <3>3 DEF Marked
  <2>7. Closed(T)
    BY <2>5, <2>6 DEF Closed
  <2>8. Marked \subseteq T
    BY <1>0, <2>4, <2>7 DEF MarksInside
  <2> QED
    BY <2>8
<1> QED
  BY <1>5, <1>6, <1>7, <1>8 DEF Rest

LEMMA FreeStep ==
    ASSUME Inv, TypeOK', gc_sweep_free_blocks
    PROVE  Rest'
<1>1. pc' = "run" /\ \A b \in Block : kind'[b] # "MARK"
  BY DEF gc_sweep_free_blocks
<1>2. Phases'
  BY <1>1 DEF Phases, Marked
<1> QED
  BY <1>1, <1>2 DEF Rest, TracedOrKnown, RootsKnown, MarksInside, Marking

LEMMA StutterStep ==
    ASSUME Inv, TypeOK', UNCHANGED vars
    PROVE  Rest'
<1> USE DEF vars, heapVars, markVars
<1>1. TracedOrKnown'
  BY DEF Inv, TracedOrKnown, Remembered, OnStack, Walking, Marking
<1>2. RootsKnown' /\ Phases'
  BY DEF Inv, RootsKnown, Phases, Marking, Marked
<1>3. MarksInside'
  BY DEF Inv, MarksInside, Marking, Marked, Used, Closed
<1> QED
  BY <1>1, <1>2, <1>3 DEF Rest
-----------------------------------------------------------------------------
LEMMA NextInv == Inv /\ [Next]_vars => Inv'
<1> SUFFICES ASSUME Inv, [Next]_vars PROVE Inv'
  OBVIOUS
<1>1. TypeOK'
  BY TypeStep DEF Inv
<1>2. Rest'
  <2>1. ASSUME NEW R \in Content, gc_collect_start(R) PROVE Rest'
    BY <1>1, <2>1, StartStep
  <2>2. ASSUME NEW p \in Block, gc_collect_root(p) PROVE Rest'
    BY <1>1, <2>2, RootStep
  <2>3. ASSUME RootsDone PROVE Rest'
    BY <1>1, <2>3, RootsDoneStep
  <2>4. ASSUME NEW p \in Block, MarkWord(p) PROVE Rest'
    BY <1>1, <2>4, MarkWordStep
  <2>5. ASSUME Pop PROVE Rest'
    BY <1>1, <2>5, PopStep
  <2>6. ASSUME gc_deal_with_stack_overflow PROVE Rest'
    BY <1>1, <2>6, DealStep
  <2>7. ASSUME Rescan PROVE Rest'
    BY <1>1, <2>7, RescanStep
  <2>8. ASSUME NEW F \in Content, gc_sweep_run_finalisers(F) PROVE Rest'
    BY <1>1, <2>8, FinaliserStep
  <2>9. ASSUME gc_sweep_free_blocks PROVE Rest'
    BY <1>1, <2>9, FreeStep
  <2>10. ASSUME UNCHANGED vars PROVE Rest'
    BY <1>1, <2>10, StutterStep
  <2> QED
    BY <2>1, <2>2, <2>3, <2>4, <2>5, <2>6, <2>7, <2>8, <2>9, <2>10 DEF Next, Step
<1> QED
  BY <1>1, <1>2 DEF Inv, Rest

LEMMA InvImpliesExact == Inv => MarkedIsReachable
<1> SUFFICES ASSUME Inv, pc = "finalise" PROVE Marked = Reachable
  BY DEF MarkedIsReachable
<1>1. TypeOK /\ Marking
  BY DEF Inv, Marking
<1>2. Marked \subseteq Used
  BY DEF Marked, Used
<1>3. Marked \subseteq Reachable
  BY <1>1, <1>2 DEF Inv, MarksInside, Reachable
<1>4. /\ \A b \in Block : \A c \in ptrs[b] : kind[b] = "MARK" => kind[c] # "HEAD"
      /\ \A p \in roots : kind[p] # "HEAD"
  BY NothingLeft
<1>5. \A b \in Used : kind[b] # "HEAD" => b \in Marked
  BY <1>1 DEF Used, Marked, TypeOK
<1>6. Closed(Marked)
  BY <1>4, <1>5 DEF Closed, Marked
<1>7. Reachable \subseteq Marked
  BY <1>2, <1>6 DEF Reachable
<1> QED
  BY <1>3, <1>7

(* The collector's tables and its walk stay within their ranges, and the   *)
(* mark stack never grows past MICROPY_ALLOC_GC_STACK_SIZE (py/gc.c).      *)
THEOREM MarkTypeCorrect == Spec => []TypeOK
<1>1. Inv => TypeOK
  BY DEF Inv
<1> QED
  BY <1>1, InitInv, NextInv, PTL DEF Spec

(* gc_mark_subtree with gc_deal_with_stack_overflow marks exactly what the *)
(* program can reach, for every heap and every size of the mark stack: no  *)
(* live chunk is freed and no garbage is kept by a mark.                   *)
THEOREM MarksAreExact == Spec => []MarkedIsReachable
  BY InitInv, NextInv, InvImpliesExact, PTL DEF Spec
-----------------------------------------------------------------------------
(* Where the finalisers are: a chunk with a finaliser is in use, one that  *)
(* the walk has passed and that kept its finaliser is marked, and those    *)
(* whose finaliser ran are not.                                            *)
FinaliserInv ==
    /\ pc # "finalise" => ran = {}
    /\ \A b \in ran : kind[b] # "MARK"
    /\ \A b \in ftb : kind[b] # "FREE"
    /\ pc = "finalise" => \A b \in ftb : b < scan => kind[b] = "MARK"

LEMMA InitFinaliserInv == Init => FinaliserInv
  BY FinalisableAssumption DEF Init, FinaliserInv

(* Marking changes no finaliser and frees nothing.                         *)
LEMMA MarkingKeepsFinalisers ==
    ASSUME TypeOK, FinaliserInv, ran' = ran, ftb' = ftb, pc # "finalise",
           pc' = "finalise" => scan' = 0,
           \A b \in Block : kind'[b] = kind[b] \/ (kind[b] = "HEAD" /\ kind'[b] = "MARK")
    PROVE  FinaliserInv'
<1>1. ftb \subseteq Block /\ ran = {}
  BY DEF TypeOK, FinaliserInv
<1>2. \A b \in ftb : ~(b < 0)
  BY <1>1, NAssumption DEF Block
<1> QED
  BY <1>1, <1>2 DEF FinaliserInv

LEMMA FinaliserNext ==
    ASSUME Inv, FinaliserInv, [Next]_vars
    PROVE  FinaliserInv'
<1>0. TypeOK
  BY DEF Inv
<1>1. ASSUME NEW R \in Content, gc_collect_start(R) PROVE FinaliserInv'
  BY <1>0, <1>1, MarkingKeepsFinalisers DEF gc_collect_start
<1>2. ASSUME NEW p \in Block, gc_collect_root(p) PROVE FinaliserInv'
  <2>1. /\ ran' = ran /\ ftb' = ftb /\ pc = "roots" /\ pc' # "finalise"
        /\ \A b \in Block : kind'[b] = kind[b] \/ (kind[b] = "HEAD" /\ kind'[b] = "MARK")
    BY <1>0, <1>2 DEF gc_collect_root, gc_mark_subtree, heapVars, TypeOK
  <2> QED
    BY <1>0, <2>1, MarkingKeepsFinalisers
<1>3. CASE RootsDone
  BY <1>0, <1>3, MarkingKeepsFinalisers DEF RootsDone, heapVars
<1>4. ASSUME NEW p \in Block, MarkWord(p) PROVE FinaliserInv'
  <2>1. /\ ran' = ran /\ ftb' = ftb /\ pc = "subtree" /\ pc' # "finalise"
        /\ \A b \in Block : kind'[b] = kind[b] \/ (kind[b] = "HEAD" /\ kind'[b] = "MARK")
    BY <1>0, <1>4 DEF MarkWord, heapVars, TypeOK
  <2> QED
    BY <1>0, <2>1, MarkingKeepsFinalisers
<1>5. CASE Pop
  <2>1. ran' = ran /\ ftb' = ftb /\ kind' = kind /\ pc = "subtree" /\ pc' # "finalise"
    BY <1>0, <1>5 DEF Pop, heapVars, TypeOK
  <2> QED
    BY <1>0, <2>1, MarkingKeepsFinalisers
<1>6. CASE gc_deal_with_stack_overflow
  BY <1>0, <1>6, MarkingKeepsFinalisers DEF gc_deal_with_stack_overflow, heapVars
<1>7. CASE Rescan
  <2>1. ran' = ran /\ ftb' = ftb /\ kind' = kind /\ pc = "rescan" /\ pc' # "finalise"
    BY <1>0, <1>7 DEF Rescan, gc_mark_subtree, heapVars, TypeOK
  <2> QED
    BY <1>0, <2>1, MarkingKeepsFinalisers
<1>8. ASSUME NEW F \in Content, gc_sweep_run_finalisers(F) PROVE FinaliserInv'
  <2>0. /\ pc = "finalise" /\ pc' = "finalise" /\ scan \in Block /\ scan' = scan + 1
        /\ ftb \subseteq Block /\ ran \subseteq Block
    BY <1>0, <1>8, NAssumption DEF gc_sweep_run_finalisers, TypeOK, Block
  <2>1. CASE scan \in ftb /\ kind[scan] = "HEAD"
    <3>1. /\ ran' = ran \cup {scan} /\ ftb' = ftb \ ({scan} \cup F)
          /\ kind' = [b \in Block |-> IF b \in F THEN "FREE" ELSE kind[b]]
      BY <1>8, <2>1 DEF gc_sweep_run_finalisers
    <3>2. \A b \in ran' : kind'[b] # "MARK"
      BY <2>0, <2>1, <3>1 DEF FinaliserInv
    <3>3. \A b \in ftb' : b \in ftb /\ b # scan /\ kind'[b] = kind[b]
      BY <2>0, <3>1
    <3>4. ASSUME NEW b \in ftb', b < scan' PROVE b < scan
      <4>1. b \in Block /\ b # scan
        BY <2>0, <3>3
      <4>2. b \in Int /\ scan \in Int
        BY <2>0, <4>1, NAssumption DEF Block
      <4> QED
        BY ONLY <2>0, <3>4, <4>1, <4>2
    <3> QED
      BY <2>0, <3>2, <3>3, <3>4 DEF FinaliserInv
  <2>2. CASE ~(scan \in ftb /\ kind[scan] = "HEAD")
    <3>1. UNCHANGED <<kind, ftb, ran>>
      BY <1>8, <2>2 DEF gc_sweep_run_finalisers
    <3>2. ASSUME NEW b \in ftb, b < scan' PROVE kind[b] = "MARK"
      <4>1. b < scan \/ b = scan
        BY <2>0, <3>2, NAssumption DEF Block
      <4>2. b = scan => kind[b] = "MARK"
        BY <1>0, <2>0, <2>2 DEF FinaliserInv, TypeOK
      <4> QED
        BY <2>0, <4>1, <4>2 DEF FinaliserInv
    <3> QED
      BY <2>0, <3>1, <3>2 DEF FinaliserInv
  <2> QED
    BY <2>1, <2>2
<1>9. CASE gc_sweep_free_blocks
  <2>1. /\ pc = "finalise" /\ scan = N /\ ftb' = ftb /\ ran' = {} /\ pc' = "run"
        /\ kind' = [b \in Block |-> IF kind[b] = "MARK" THEN "HEAD" ELSE "FREE"]
    BY <1>9 DEF gc_sweep_free_blocks
  <2>2. \A b \in ftb : b \in Block /\ b < scan
    BY <1>0, <2>1, NAssumption DEF TypeOK, Block
  <2>3. \A b \in ftb : kind[b] = "MARK"
    BY <2>1, <2>2 DEF FinaliserInv
  <2> QED
    BY <2>1, <2>2, <2>3 DEF FinaliserInv
<1>10. CASE UNCHANGED vars
  BY <1>10 DEF vars, heapVars, FinaliserInv
<1> QED
  BY <1>1, <1>2, <1>3, <1>4, <1>5, <1>6, <1>7, <1>8, <1>9, <1>10 DEF Next, Step

(* With the marks exact, an unmarked chunk is garbage; and no mark is left *)
(* when the program runs.                                                  *)
LEMMA FinaliserInvSuffices ==
    ASSUME Inv, FinaliserInv
    PROVE  FinalisersOfGarbage
<1>1. pc = "finalise" => ran \cap Reachable = {}
  BY InvImpliesExact DEF FinaliserInv, MarkedIsReachable, Marked
<1>2. pc = "run" => \A b \in ftb : kind[b] = "HEAD"
  <2> SUFFICES ASSUME pc = "run", NEW b \in ftb PROVE kind[b] = "HEAD"
    OBVIOUS
  <2>1. b \in Block /\ kind[b] \in {"FREE", "HEAD", "MARK"} /\ Marked = {}
    BY DEF Inv, TypeOK, Phases
  <2> QED
    BY <2>1 DEF FinaliserInv, Marked
<1> QED
  BY <1>1, <1>2 DEF FinalisersOfGarbage

(* gc_sweep_run_finalisers runs finalisers of garbage only, although they  *)
(* may free chunks with finalisers themselves, and leaves no finaliser     *)
(* flag on a freed chunk (gc.c:569-611).                                   *)
THEOREM FinalisersForGarbageOnly == Spec => []FinalisersOfGarbage
<1>1. Inv /\ FinaliserInv /\ [Next]_vars => FinaliserInv'
  BY FinaliserNext
<1>2. Inv /\ FinaliserInv => FinalisersOfGarbage
  BY FinaliserInvSuffices
<1> QED
  BY InitInv, NextInv, InitFinaliserInv, <1>1, <1>2, PTL DEF Spec
-----------------------------------------------------------------------------
(* For requests of every size: the area that gc_try_add_heap adds has room *)
(* for the request, and the tables of every area fit below its pool.       *)
USE DEF BYTES_PER_BLOCK, BLOCKS_PER_ATB, BLOCKS_PER_FTB, ALLOC_TABLE_GAP_BYTE,
        sizeof_area

(* The constants of the division folded.                                   *)
LEMMA TableLength ==
    ASSUME NEW t \in Int
    PROVE  gc_alloc_table_byte_len(t) = ((t - 1) * 8) \div 524
<1>1. (8 * 4) \div 8 = 4
  BY SMT
<1>2. 8 + (8 * 4) \div 8 + 8 * 4 * 16 = 524
  BY <1>1, SMT
<1> QED
  BY <1>2 DEF gc_alloc_table_byte_len

LEMMA TablesFitIn ==
    ASSUME NEW t \in Nat \ {0}
    PROVE  gc_alloc_table_byte_len(t) + 1 + gc_finaliser_table_byte_len(t)
             + gc_pool_block_len(t) * 16 <= t
<1> DEFINE A == ((t - 1) * 8) \div 524
<1>1. A \in Nat /\ 524 * A <= (t - 1) * 8
  BY SMT
<1>2. (A * 4 + 8 - 1) \div 8 \in Nat /\ 8 * ((A * 4 + 8 - 1) \div 8) <= A * 4 + 7
  BY <1>1, SMT
<1>3. A + 1 + (A * 4 + 8 - 1) \div 8 + A * 4 * 16 <= t
  BY <1>1, <1>2, SMT
<1> QED
  BY <1>3, TableLength DEF gc_finaliser_table_byte_len, gc_pool_block_len

LEMMA NeededIsEnough ==
    ASSUME NEW n \in Nat, NEW t \in Nat, t >= needed(n) - 47
    PROVE  gc_pool_block_len(t) >= blocks(n)
<1> DEFINE A == ((t - 1) * 8) \div 524
<1> DEFINE r == (n * 13) \div 512
<1>1. r \in Nat /\ n * 13 < 512 * r + 512
  BY SMT
<1>2. needed(n) \in Nat /\ needed(n) >= n + 2048 /\ needed(n) >= n + r
  BY <1>1 DEF needed, Larger
<1>0. t >= n + 2048 - 47 /\ t >= n + r - 47
  <2> HIDE DEF r
  <2> QED
    BY <1>1, <1>2
<1>3. A \in Nat /\ (t - 1) * 8 < 524 * A + 524
  <2>1. t >= 1
    BY <1>0, <1>1
  <2> QED
    BY <2>1, SMT
<1>4. (n + 16 - 1) \div 16 \in Nat /\ 16 * ((n + 16 - 1) \div 16) <= n + 15
  BY SMT
<1> HIDE DEF A, r
<1>5. 64 * A >= n
  BY <1>0, <1>1, <1>3, SMT
<1>6. A * 4 >= (n + 16 - 1) \div 16
  BY <1>3, <1>4, <1>5, SMT
<1> USE DEF A
<1> QED
  BY <1>6, TableLength DEF gc_pool_block_len, blocks
-----------------------------------------------------------------------------
LEMMA LengthIsNat ==
    ASSUME NEW t \in Nat \ {0}
    PROVE  gc_pool_block_len(t) \in Nat
<1>1. ((t - 1) * 8) \div 524 \in Nat
  BY SMT
<1> QED
  BY <1>1, TableLength DEF gc_pool_block_len

(* What gc_try_add_heap gives to gc_setup_area.                            *)
LEMMA AddedTotal ==
    ASSUME total_blocks \in Nat,
           NEW n \in Nat, NEW avail \in Nat, NEW lost \in Lost,
           gc_try_add_heap(n, avail, lost)
    PROVE  total' \in Nat \ {0} /\ total' >= needed(n) - 47
<1> DEFINE th == total_heap(total_blocks)
<1>1. th \in Int
  BY SMT DEF total_heap, blocks
<1>2. needed(n) \in Nat /\ needed(n) >= 2048
  <2>1. (n * 13) \div 512 \in Nat
    BY SMT
  <2> QED
    BY <2>1 DEF needed, Larger
<1>3. to_alloc(n, total_blocks, avail) \in Int
      /\ to_alloc(n, total_blocks, avail) >= needed(n)
  <2> HIDE DEF th
  <2> QED
    BY <1>1, <1>2 DEF to_alloc, Smaller, Larger, gc_try_add_heap, th
<1> QED
  BY <1>2, <1>3 DEF gc_try_add_heap, Lost

AreaInv == AreaTypeOK /\ total > 0 /\ TablesFit /\ RequestFits

LEMMA AreaInitInv == AreaInit => AreaInv
<1> SUFFICES ASSUME AreaInit PROVE AreaInv
  OBVIOUS
<1>1. total \in Nat \ {0} /\ total_blocks \in Nat /\ request = 0
  BY LengthIsNat DEF AreaInit
<1>2. TablesFit
  BY <1>1, TablesFitIn DEF TablesFit
<1>3. RequestFits
  <2>1. blocks(0) = 0
    BY SMT DEF blocks
  <2> QED
    BY <1>1, <2>1, LengthIsNat DEF RequestFits
<1> QED
  BY <1>1, <1>2, <1>3 DEF AreaInv, AreaTypeOK

LEMMA AreaNextInv == AreaInv /\ [AreaNext]_areaVars => AreaInv'
<1> SUFFICES ASSUME AreaInv, [AreaNext]_areaVars PROVE AreaInv'
  OBVIOUS
<1>1. CASE UNCHANGED areaVars
  BY <1>1 DEF AreaInv, AreaTypeOK, TablesFit, RequestFits, areaVars
<1>2. CASE AreaNext
  <2>1. PICK n \in Requests, lost \in Lost, avail \in Nat :
          gc_try_add_heap(n, avail, lost)
    <3>1. \A n \in Requests : needed(n) \in Nat
      <4>1. \A n \in Nat : (n * 13) \div 512 \in Nat
        BY SMT
      <4> QED
        BY <4>1 DEF needed, Larger, Requests
    <3> QED
      BY <1>2, <3>1, MaxSystemAssumption DEF AreaNext
  <2>2. n \in Nat
    BY DEF Requests
  <2>3. total' \in Nat \ {0} /\ total' >= needed(n) - 47
    BY <2>1, <2>2, AddedTotal DEF AreaInv, AreaTypeOK
  <2>4. AreaTypeOK' /\ (total > 0)'
    BY <2>1, <2>2, <2>3, LengthIsNat DEF AreaInv, AreaTypeOK, gc_try_add_heap
  <2>5. TablesFit'
    BY <2>3, TablesFitIn DEF TablesFit
  <2>6. RequestFits'
    BY <2>1, <2>2, <2>3, NeededIsEnough DEF RequestFits, gc_try_add_heap
  <2> QED
    BY <2>4, <2>5, <2>6 DEF AreaInv
<1> QED
  BY <1>1, <1>2

(* gc_try_add_heap never adds an area that is too small for the request    *)
(* it is added for: the 13/512 of the comment, or 2048 bytes, are enough   *)
(* for every size.                                                         *)
THEOREM RequestAlwaysFits == AreaSpec => []RequestFits
<1>1. AreaInv => RequestFits
  BY DEF AreaInv
<1> QED
  BY <1>1, AreaInitInv, AreaNextInv, PTL DEF AreaSpec

(* The assertion in gc_setup_area never fails.                             *)
THEOREM TablesAlwaysFit == AreaSpec => []TablesFit
<1>1. AreaInv => TablesFit
  BY DEF AreaInv
<1> QED
  BY <1>1, AreaInitInv, AreaNextInv, PTL DEF AreaSpec
====
