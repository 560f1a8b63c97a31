---- MODULE Scheduler_proofs ----
(***************************************************************************)
(* Proofs about Scheduler for every depth of the ring, all sets of         *)
(* callbacks and nodes, any number of threads and of nested locks.         *)
(***************************************************************************)
EXTENDS Callbacks, TLAPS

(* The inductive invariant.  OneRunner and LockCount support each other    *)
(* (only an unlocked scheduler is taken, and it is taken by locking it);   *)
(* RunWillEnd is what makes unlinking the first node defined.              *)
IInv == /\ TypeOK
        /\ OneRunner
        /\ LockCount
        /\ PendingExact
        /\ RunWillEnd

USE DEF MP_SCHED_IDLE, MP_SCHED_PENDING, MP_SCHED_LOCKED
-----------------------------------------------------------------------------
(* The mask keeps an index inside the ring.                                *)
LEMMA MaskRange ==
    ASSUME NEW i \in 0 .. 2 * Depth - 1
    PROVE  IDX_MASK(i) \in 0 .. Depth - 1
BY DepthAssumption DEF IDX_MASK

(* A fresh scheduler satisfies the invariant.                              *)
LEMMA InitIInv == Init => IInv
<1> SUFFICES ASSUME Init PROVE IInv
  OBVIOUS
<1>1. TypeOK
  BY DepthAssumption, MaxLocksAssumption DEF Init, TypeOK, PCs
<1>2. Runners = {}
  BY DEF Init, Runners, Running
<1> QED
  BY <1>1, <1>2 DEF Init, IInv, OneRunner, LockCount, PendingExact, RunWillEnd

(* Every step keeps the types.                                             *)
LEMMA TypeNext ==
    ASSUME IInv, [Next]_vars
    PROVE  TypeOK'
<1> USE DepthAssumption, MaxLocksAssumption
<1>1. ASSUME NEW f \in Func, mp_sched_schedule(f) PROVE TypeOK'
  <2>1. sched_len' \in 0 .. Depth
    BY <1>1 DEF IInv, TypeOK, mp_sched_schedule, mp_sched_full
  <2>2. sched_queue' \in [0 .. Depth - 1 -> Func \cup {None}]
    BY <1>1 DEF IInv, TypeOK, mp_sched_schedule
  <2>3. sched_state' \in Int
    BY <1>1 DEF IInv, TypeOK, mp_sched_schedule, Wake
  <2> QED
    BY <1>1, <2>1, <2>2, <2>3 DEF IInv, TypeOK, mp_sched_schedule, nodeVars, locals
<1>2. ASSUME NEW f \in Func, mp_sched_schedule_drops(f) PROVE TypeOK'
  BY <1>2 DEF IInv, TypeOK, mp_sched_schedule_drops, queueVars, nodeVars, locals
<1>3. ASSUME NEW n \in Node, mp_sched_schedule_node(n) PROVE TypeOK'
  BY <1>3 DEF IInv, TypeOK, mp_sched_schedule_node, Wake, queueVars, locals
<1>4. CASE mp_sched_lock
  BY <1>4 DEF IInv, TypeOK, mp_sched_lock, LockedOnceMore, queueVars, nodeVars, locals
<1>5. CASE mp_sched_unlock
  BY <1>5 DEF IInv, TypeOK, mp_sched_unlock, Unlock, StateWhenUnlocked,
              queueVars, nodeVars, locals
<1>6. ASSUME NEW t \in Thread, Poll(t) PROVE TypeOK'
  <2> USE DEF IInv, TypeOK, PCs, queueVars, nodeVars, locals
  <2>1. CASE SeePending(t)
    BY <2>1 DEF SeePending
  <2>2. CASE GiveUp(t)
    BY <2>2 DEF GiveUp
  <2>3. ASSUME sched_nodes # <<>>, RunFirstNode(t)
        PROVE  /\ node' \in [Thread -> Node \cup {None}]
               /\ sched_nodes' \in Seq(Node)
               /\ callback' \in [Node -> BOOLEAN]
               /\ pc' \in [Thread -> PCs]
               /\ UNCHANGED <<queueVars, item>>
    <3>1. Head(sched_nodes) \in Node /\ Tail(sched_nodes) \in Seq(Node)
      BY <2>3
    <3> QED
      BY <2>3, <3>1 DEF RunFirstNode
  <2>4. ASSUME RunOnePython(t)
        PROVE  /\ item' \in [Thread -> Func \cup {None}]
               /\ sched_idx' \in 0 .. Depth - 1 /\ sched_len' \in 0 .. Depth
               /\ pc' \in [Thread -> PCs]
               /\ UNCHANGED <<sched_queue, nodeVars, node>>
    <3>1. CASE sched_len > 0
      <4>1. sched_idx + 1 \in 0 .. 2 * Depth - 1 /\ sched_len - 1 \in 0 .. Depth
        BY <3>1
      <4>2. IDX_MASK(sched_idx + 1) \in 0 .. Depth - 1
        BY <4>1, MaskRange
      <4>3. sched_queue[sched_idx] \in Func \cup {None}
        OBVIOUS
      <4>4. /\ item' = [item EXCEPT ![t] = sched_queue[sched_idx]]
            /\ sched_idx' = IDX_MASK(sched_idx + 1) /\ sched_len' = sched_len - 1
            /\ pc' = [pc EXCEPT ![t] = "python"]
            /\ UNCHANGED <<sched_queue, nodeVars, node>>
        BY ONLY <2>4, <3>1, sched_len \in Int DEF RunOnePython
      <4>5. item' \in [Thread -> Func \cup {None}]
        BY <4>3, <4>4
      <4>6. pc' \in [Thread -> PCs]
        BY <4>4
      <4> QED
        BY ONLY <4>1, <4>2, <4>4, <4>5, <4>6
    <3>2. CASE sched_len = 0
      <4>1. /\ UNCHANGED <<item, sched_idx, sched_len>>
            /\ pc' = [pc EXCEPT ![t] = "unlock"]
            /\ UNCHANGED <<sched_queue, nodeVars, node>>
        BY ONLY <2>4, <3>2 DEF RunOnePython
      <4>2. pc' \in [Thread -> PCs]
        BY <4>1
      <4> QED
        BY <4>1, <4>2
    <3> QED
      BY <3>1, <3>2
  <2>5. CASE LockAndRun(t)
    <3>1. original_tail' \in [Thread -> Node \cup {None}]
      BY <2>5 DEF LockAndRun
    <3> QED
      BY <2>3, <2>4, <2>5, <3>1 DEF LockAndRun
  <2>6. CASE NodeReturns(t)
    <3>1. ~RanOriginalTail(t) => sched_nodes # <<>>
      BY <2>6 DEF NodeReturns, RanOriginalTail, RunWillEnd
    <3> QED
      BY <2>3, <2>4, <2>6, <3>1 DEF NodeReturns
  <2>7. CASE PythonReturns(t)
    BY <2>7 DEF PythonReturns
  <2>8. CASE UnlockAfterRun(t)
    BY <2>8 DEF UnlockAfterRun, Unlock, StateWhenUnlocked
  <2> QED
    BY <1>6, <2>1, <2>2, <2>5, <2>6, <2>7, <2>8 DEF Poll
<1>7. CASE mp_init
  BY <1>7 DEF IInv, TypeOK, PCs, mp_init, StateAfterReset, nodeVars
<1>8. CASE UNCHANGED vars
  BY <1>8 DEF IInv, TypeOK, vars, queueVars, nodeVars, locals
<1> QED
  BY <1>1, <1>2, <1>3, <1>4, <1>5, <1>6, <1>7, <1>8 DEF Next
-----------------------------------------------------------------------------
(* Taking the lock: an unlocked scheduler has no runner and no lock.       *)
LEMMA UnlockedIsFree ==
    ASSUME IInv, sched_state >= 0
    PROVE  Runners = {} /\ ext_locks = 0
BY DEF IInv, LockCount

(* How the set of runners follows a thread's position.                     *)
LEMMA RunnersEnter ==
    ASSUME NEW p \in [Thread -> PCs], NEW t \in Thread, NEW s \in Running,
           pc = p, pc' = [p EXCEPT ![t] = s]
    PROVE  Runners' = Runners \cup {t}
BY DEF Runners

(* The same when the thread leaves the run.                                *)
LEMMA RunnersLeave ==
    ASSUME NEW p \in [Thread -> PCs], NEW t \in Thread, NEW s \in PCs \ Running,
           pc = p, pc' = [p EXCEPT ![t] = s]
    PROVE  Runners' = Runners \ {t}
BY DEF Runners

(* Every step keeps a single runner and the lock count.                    *)
LEMMA RunnerNext ==
    ASSUME IInv, [Next]_vars
    PROVE  OneRunner' /\ LockCount'
<1>0. /\ sched_state \in Int /\ ext_locks \in Nat /\ pc \in [Thread -> PCs]
      /\ OneRunner /\ LockCount
  BY MaxLocksAssumption DEF IInv, TypeOK
<1>1. ASSUME UNCHANGED <<pc, ext_locks>>,
             sched_state' = sched_state \/ (sched_state >= 0 /\ sched_state' >= 0),
             sched_state' \in Int
      PROVE  OneRunner' /\ LockCount'
  <2>1. Runners' = Runners
    BY <1>1 DEF Runners
  <2> QED
    BY <1>0, <1>1, <2>1 DEF OneRunner, LockCount
<1>2. ASSUME NEW f \in Func, mp_sched_schedule(f) \/ mp_sched_schedule_drops(f)
      PROVE  OneRunner' /\ LockCount'
  BY <1>0, <1>1, <1>2 DEF mp_sched_schedule, mp_sched_schedule_drops, Wake
<1>3. ASSUME NEW n \in Node, mp_sched_schedule_node(n)
      PROVE  OneRunner' /\ LockCount'
  BY <1>0, <1>1, <1>3 DEF mp_sched_schedule_node, Wake
<1>4. CASE mp_sched_lock
  <2>1. Runners' = Runners
    BY <1>4 DEF mp_sched_lock, Runners
  <2> QED
    BY <1>0, <1>4, <2>1 DEF mp_sched_lock, LockedOnceMore, OneRunner, LockCount
<1>5. CASE mp_sched_unlock
  <2>1. Runners' = Runners
    BY <1>5 DEF mp_sched_unlock, Runners
  <2>2. sched_state < 0 /\ ext_locks > 0
    BY <1>0, <1>5 DEF mp_sched_unlock, LockCount
  <2> QED
    BY <1>0, <1>5, <2>1, <2>2
       DEF mp_sched_unlock, Unlock, StateWhenUnlocked, OneRunner, LockCount
<1>6. ASSUME NEW t \in Thread, Poll(t) PROVE OneRunner' /\ LockCount'
  <2>1. CASE SeePending(t) \/ GiveUp(t)
    <3>1. /\ pc[t] \notin Running /\ sched_state' = sched_state
          /\ ext_locks' = ext_locks
          /\ \E s \in PCs \ Running : pc' = [pc EXCEPT ![t] = s]
      BY <2>1 DEF SeePending, GiveUp, Running, PCs
    <3>2. Runners' = Runners \ {t} /\ t \notin Runners
      BY <1>0, <3>1, RunnersLeave DEF Runners
    <3>3. Runners' = Runners
      BY <3>2
    <3> QED
      BY <1>0, <3>1, <3>3 DEF OneRunner, LockCount
  <2>2. CASE LockAndRun(t)
    <3>1. Runners = {} /\ ext_locks = 0
      BY <2>2, UnlockedIsFree DEF LockAndRun, StillPending
    <3>2. /\ sched_state' = -1 /\ ext_locks' = ext_locks
          /\ \E s \in Running : pc' = [pc EXCEPT ![t] = s]
      BY <2>2 DEF LockAndRun, RunFirstNode, RunOnePython, Running
    <3>3. Runners' = {t}
      BY <1>0, <3>1, <3>2, RunnersEnter
    <3> QED
      BY <3>1, <3>2, <3>3 DEF OneRunner, LockCount
  <2>3. CASE NodeReturns(t) \/ PythonReturns(t)
    <3>1. /\ pc[t] \in Running /\ sched_state' = sched_state
          /\ ext_locks' = ext_locks
          /\ \E s \in Running : pc' = [pc EXCEPT ![t] = s]
      BY <2>3 DEF NodeReturns, PythonReturns, RunFirstNode, RunOnePython, Running
    <3>2. Runners' = Runners \cup {t} /\ t \in Runners
      BY <1>0, <3>1, RunnersEnter DEF Runners
    <3>3. Runners' = Runners
      BY <3>2
    <3> QED
      BY <1>0, <3>1, <3>3 DEF OneRunner, LockCount
  <2>4. CASE UnlockAfterRun(t)
    <3>1. /\ pc[t] \in Running /\ ext_locks' = ext_locks
          /\ \E s \in PCs \ Running : pc' = [pc EXCEPT ![t] = s]
      BY <2>4 DEF UnlockAfterRun, Running, PCs
    <3>2. Runners = {t} /\ Runners' = Runners \ {t}
      BY <1>0, <3>1, RunnersLeave DEF Runners, OneRunner
    <3>3. Runners' = {} /\ Runners # {}
      BY <3>2
    <3>4. sched_state = -(ext_locks + 1)
      BY <1>0, <3>3 DEF LockCount
    <3> QED
      BY <1>0, <2>4, <3>1, <3>3, <3>4
         DEF UnlockAfterRun, Unlock, StateWhenUnlocked, OneRunner, LockCount
  <2> QED
    BY <1>6, <2>1, <2>2, <2>3, <2>4 DEF Poll
<1>7. CASE mp_init
  <2>1. Runners' = {} /\ sched_state' \in {0, 1} /\ ext_locks' = 0
    BY <1>7 DEF mp_init, StateAfterReset, Runners, Running
  <2> QED
    BY <2>1 DEF OneRunner, LockCount
<1>8. CASE UNCHANGED vars
  BY <1>0, <1>1, <1>8 DEF vars
<1> QED
  BY <1>2, <1>3, <1>4, <1>5, <1>6, <1>7, <1>8 DEF Next
-----------------------------------------------------------------------------
(* Unlocking leaves the scheduler pending exactly when something waits.    *)
LEMMA UnlockIsExact ==
    ASSUME sched_state \in Int, sched_state < 0, sched_len \in Nat, Unlock,
           UNCHANGED <<sched_nodes, sched_len>>
    PROVE  PendingExact'
BY DEF Unlock, StateWhenUnlocked, PendingExact

(* Every step keeps the pending state exact.                               *)
LEMMA PendingNext ==
    ASSUME IInv, [Next]_vars
    PROVE  PendingExact'
<1>0. /\ sched_state \in Int /\ sched_len \in Nat /\ sched_nodes \in Seq(Node)
      /\ ext_locks \in Nat /\ PendingExact /\ LockCount
  BY DepthAssumption, MaxLocksAssumption DEF IInv, TypeOK
<1>1. ASSUME NEW f \in Func, mp_sched_schedule(f) PROVE PendingExact'
  BY <1>0, <1>1 DEF mp_sched_schedule, Wake, PendingExact, nodeVars
<1>2. ASSUME NEW f \in Func, mp_sched_schedule_drops(f) PROVE PendingExact'
  BY <1>0, <1>2 DEF mp_sched_schedule_drops, PendingExact, queueVars, nodeVars
<1>3. ASSUME NEW n \in Node, mp_sched_schedule_node(n) PROVE PendingExact'
  <2>1. Append(sched_nodes, n) # <<>>
    BY <1>0, <1>3
  <2> QED
    BY <1>0, <1>3, <2>1 DEF mp_sched_schedule_node, Wake, PendingExact, queueVars
<1>4. CASE mp_sched_lock
  BY <1>0, <1>4 DEF mp_sched_lock, LockedOnceMore, PendingExact
<1>5. CASE mp_sched_unlock
  <2>1. sched_state < 0
    BY <1>0, <1>5 DEF mp_sched_unlock, LockCount
  <2> QED
    BY <1>0, <1>5, <2>1, UnlockIsExact DEF mp_sched_unlock, queueVars, nodeVars
<1>6. ASSUME NEW t \in Thread, Poll(t) PROVE PendingExact'
  <2>1. ASSUME UNCHANGED <<sched_state, sched_nodes, sched_len>> PROVE PendingExact'
    BY <1>0, <2>1 DEF PendingExact
  <2>2. CASE SeePending(t) \/ GiveUp(t) \/ PythonReturns(t)
    BY <2>1, <2>2 DEF SeePending, GiveUp, PythonReturns, queueVars, nodeVars
  <2>3. CASE LockAndRun(t)
    BY <2>3 DEF LockAndRun, PendingExact
  <2>4. ASSUME pc[t] \in Running PROVE sched_state < 0
    BY <1>0, <2>4 DEF LockCount, Runners
  <2>5. CASE NodeReturns(t)
    <3>1. sched_state < 0 /\ sched_state' = sched_state
      BY <2>4, <2>5 DEF NodeReturns, Running
    <3> QED
      BY <1>0, <3>1 DEF PendingExact
  <2>6. CASE UnlockAfterRun(t)
    <3>1. sched_state < 0
      BY <2>4, <2>6 DEF UnlockAfterRun, Running
    <3> QED
      BY <1>0, <2>6, <3>1, UnlockIsExact DEF UnlockAfterRun, queueVars, nodeVars
  <2> QED
    BY <1>6, <2>2, <2>3, <2>5, <2>6 DEF Poll
<1>7. CASE mp_init
  BY <1>0, <1>7 DEF mp_init, StateAfterReset, PendingExact, nodeVars
<1>8. CASE UNCHANGED vars
  BY <1>0, <1>8 DEF vars, queueVars, nodeVars, PendingExact
<1> QED
  BY <1>1, <1>2, <1>3, <1>4, <1>5, <1>6, <1>7, <1>8 DEF Next
-----------------------------------------------------------------------------
(* Unlinking the first node: any other linked node stays linked.           *)
LEMMA TailKeeps ==
    ASSUME NEW s \in Seq(Node), NEW i \in 1 .. Len(s), s[i] # Head(s)
    PROVE  \E j \in 1 .. Len(Tail(s)) : Tail(s)[j] = s[i]
<1>1. i # 1 /\ i - 1 \in 1 .. Len(Tail(s)) /\ Tail(s)[i - 1] = s[i]
  OBVIOUS
<1> QED
  BY <1>1

(* After RunFirstNode the tail the run stops at is the node being run or   *)
(* is still linked.                                                        *)
LEMMA FirstNodeKeepsTail ==
    ASSUME NEW t \in Thread, NEW i \in 1 .. Len(sched_nodes), TypeOK, RunFirstNode(t)
    PROVE  \/ node'[t] = sched_nodes[i]
           \/ \E j \in 1 .. Len(sched_nodes') : sched_nodes'[j] = sched_nodes[i]
<1>1. sched_nodes \in Seq(Node) /\ node'[t] = Head(sched_nodes)
      /\ sched_nodes' = Tail(sched_nodes)
  BY DEF RunFirstNode, TypeOK
<1> QED
  BY <1>1, TailKeeps

(* Every step keeps the end of the run in reach.                           *)
LEMMA RunWillEndNext ==
    ASSUME IInv, [Next]_vars
    PROVE  RunWillEnd'
<1>0. TypeOK /\ OneRunner /\ RunWillEnd /\ LockCount
  BY DEF IInv
<1>1. ASSUME UNCHANGED <<pc, node, original_tail, sched_nodes>> PROVE RunWillEnd'
  BY <1>0, <1>1 DEF RunWillEnd
<1>2. ASSUME NEW f \in Func, mp_sched_schedule(f) \/ mp_sched_schedule_drops(f)
      PROVE  RunWillEnd'
  BY <1>1, <1>2 DEF mp_sched_schedule, mp_sched_schedule_drops, nodeVars, locals
<1>3. ASSUME NEW n \in Node, mp_sched_schedule_node(n) PROVE RunWillEnd'
  <2>1. \A i \in 1 .. Len(sched_nodes) :
           i \in 1 .. Len(sched_nodes') /\ sched_nodes'[i] = sched_nodes[i]
    BY <1>0, <1>3 DEF mp_sched_schedule_node, TypeOK
  <2>2. UNCHANGED <<pc, node, original_tail>>
    BY <1>3 DEF mp_sched_schedule_node, locals
  <2> QED
    BY <1>0, <2>1, <2>2 DEF RunWillEnd
<1>4. CASE mp_sched_lock \/ mp_sched_unlock
  BY <1>1, <1>4 DEF mp_sched_lock, mp_sched_unlock, nodeVars, locals
<1>5. ASSUME NEW t \in Thread, Poll(t) PROVE RunWillEnd'
  <2>1. pc \in [Thread -> PCs] /\ node \in [Thread -> Node \cup {None}]
        /\ original_tail \in [Thread -> Node \cup {None}] /\ sched_nodes \in Seq(Node)
    BY <1>0 DEF TypeOK
  <2>2. ASSUME UNCHANGED sched_nodes, pc'[t] # "node",
               \A u \in Thread \ {t} : pc'[u] = pc[u] /\ node'[u] = node[u]
                                       /\ original_tail'[u] = original_tail[u]
        PROVE  RunWillEnd'
    BY <1>0, <2>2 DEF RunWillEnd
  <2>3. CASE SeePending(t) \/ GiveUp(t) \/ PythonReturns(t)
    BY <2>1, <2>2, <2>3 DEF SeePending, GiveUp, PythonReturns, nodeVars, locals
  <2>4. CASE UnlockAfterRun(t)
    BY <2>1, <2>2, <2>4 DEF UnlockAfterRun, nodeVars
  <2>5. ASSUME RunOnePython(t), \A u \in Thread \ {t} : original_tail'[u] = original_tail[u]
        PROVE  RunWillEnd'
    BY <2>1, <2>2, <2>5 DEF RunOnePython, nodeVars
  <2>6. ASSUME RunFirstNode(t), NEW i \in 1 .. Len(sched_nodes),
               original_tail'[t] = sched_nodes[i],
               \A u \in Thread \ {t} : pc[u] # "node"
        PROVE  RunWillEnd'
    <3>1. \A u \in Thread \ {t} : pc'[u] # "node"
      BY <2>1, <2>6 DEF RunFirstNode
    <3>2. \/ node'[t] = original_tail'[t]
          \/ \E j \in 1 .. Len(sched_nodes') : sched_nodes'[j] = original_tail'[t]
      BY <1>0, <2>6, FirstNodeKeepsTail
    <3> QED
      BY <3>1, <3>2 DEF RunWillEnd
  <2>7. CASE LockAndRun(t)
    <3>1. \A u \in Thread : pc[u] # "node"
      BY <2>7, UnlockedIsFree DEF LockAndRun, StillPending, Runners, Running
    <3>2. CASE sched_nodes # <<>>
      <4>1. Len(sched_nodes) \in 1 .. Len(sched_nodes)
        BY <2>1, <3>2
      <4>2. RunFirstNode(t) /\ original_tail'[t] = sched_nodes[Len(sched_nodes)]
        BY <2>1, <2>7, <3>2 DEF LockAndRun
      <4> QED
        BY <2>6, <3>1, <4>1, <4>2
    <3>3. CASE sched_nodes = <<>>
      BY <2>1, <2>5, <2>7, <3>3 DEF LockAndRun
    <3> QED
      BY <3>2, <3>3
  <2>8. CASE NodeReturns(t)
    <3>1. pc[t] = "node" /\ \A u \in Thread \ {t} : pc[u] # "node"
      BY <1>0, <2>8 DEF NodeReturns, OneRunner, Runners, Running
    <3>2. CASE RanOriginalTail(t)
      BY <2>5, <2>8, <3>2 DEF NodeReturns
    <3>3. CASE ~RanOriginalTail(t)
      <4>1. PICK i \in 1 .. Len(sched_nodes) : sched_nodes[i] = original_tail[t]
        BY <1>0, <3>1, <3>3 DEF RunWillEnd, RanOriginalTail
      <4> QED
        BY <2>6, <2>8, <3>1, <3>3, <4>1 DEF NodeReturns
    <3> QED
      BY <3>2, <3>3
  <2> QED
    BY <1>5, <2>3, <2>4, <2>7, <2>8 DEF Poll
<1>6. CASE mp_init
  BY <1>6 DEF mp_init, RunWillEnd
<1>7. CASE UNCHANGED vars
  BY <1>1, <1>7 DEF vars, nodeVars, locals
<1> QED
  BY <1>2, <1>3, <1>4, <1>5, <1>6, <1>7 DEF Next
-----------------------------------------------------------------------------
(* The invariant holds in every behaviour of the scheduler                 *)
(* (py/scheduler.c:76-253).                                                *)
THEOREM InductiveInvariant == Spec => []IInv
<1>1. IInv /\ [Next]_vars => IInv'
  BY TypeNext, RunnerNext, PendingNext, RunWillEndNext DEF IInv
<1> QED
  BY InitIInv, <1>1, PTL DEF Spec

(* The fields of the scheduler keep their types (py/mpstate.h).            *)
THEOREM TypeCorrect == Spec => []TypeOK
<1>1. IInv => TypeOK
  BY DEF IInv
<1> QED
  BY InductiveInvariant, <1>1, PTL

(* At most one thread ever runs callbacks, whatever the interleaving of    *)
(* the unlocked test and the locking (scheduler.c:77-87, 243-250).         *)
THEOREM AtMostOneRunner == Spec => []OneRunner
<1>1. IInv => OneRunner
  BY DEF IInv
<1> QED
  BY InductiveInvariant, <1>1, PTL

(* sched_state counts the locks that are held (scheduler.c:128-161).       *)
THEOREM LocksCounted == Spec => []LockCount
<1>1. IInv => LockCount
  BY DEF IInv
<1> QED
  BY InductiveInvariant, <1>1, PTL

(* An unlocked scheduler is pending exactly when a callback waits          *)
(* (scheduler.c:140-207).                                                  *)
THEOREM NothingStranded == Spec => []PendingExact
<1>1. IInv => PendingExact
  BY DEF IInv
<1> QED
  BY InductiveInvariant, <1>1, PTL

(* The loop over the C nodes meets the tail it stops at                    *)
(* (scheduler.c:91-105).                                                   *)
THEOREM NodeLoopEnds == Spec => []RunWillEnd
<1>1. IInv => RunWillEnd
  BY DEF IInv
<1> QED
  BY InductiveInvariant, <1>1, PTL
-----------------------------------------------------------------------------
(* What NodesLinkedOnce says of a list and of the callback fields.         *)
LinkedOnce(s, cb) ==
    /\ \A n \in Node : cb[n] <=> \E i \in 1 .. Len(s) : s[i] = n
    /\ \A i, j \in 1 .. Len(s) : s[i] = s[j] => i = j

(* Linking a node whose callback field is clear.                           *)
LEMMA AppendLinksOnce ==
    ASSUME NEW s \in Seq(Node), NEW cb \in [Node -> BOOLEAN], NEW n \in Node,
           LinkedOnce(s, cb), ~cb[n]
    PROVE  LinkedOnce(Append(s, n), [cb EXCEPT ![n] = TRUE])
<1> DEFINE r == Append(s, n)
<1>1. /\ Len(s) \in Nat /\ Len(r) = Len(s) + 1
      /\ \A i \in 1 .. Len(s) : r[i] = s[i]
      /\ r[Len(s) + 1] = n
  OBVIOUS
<1>2. \A i \in 1 .. Len(s) : s[i] # n
  BY DEF LinkedOnce
<1> HIDE DEF r
<1>3. \A i \in 1 .. Len(r) : i \in 1 .. Len(s) \/ i = Len(s) + 1
  BY <1>1
<1>4. \A i, j \in 1 .. Len(r) : r[i] = r[j] => i = j
  BY <1>1, <1>2, <1>3 DEF LinkedOnce
<1>5. ASSUME NEW m \in Node
      PROVE  [cb EXCEPT ![n] = TRUE][m] <=> \E i \in 1 .. Len(r) : r[i] = m
  <2>1. CASE m = n
    <3>1. [cb EXCEPT ![n] = TRUE][m] = TRUE
      BY <2>1
    <3>2. Len(s) + 1 \in 1 .. Len(r)
      BY <1>1
    <3> QED
      BY <1>1, <2>1, <3>1, <3>2
  <2>2. CASE m # n
    <3>1. [cb EXCEPT ![n] = TRUE][m] = cb[m]
      BY <2>2
    <3>2. (\E i \in 1 .. Len(r) : r[i] = m) <=> (\E i \in 1 .. Len(s) : s[i] = m)
      BY <1>1, <1>3, <2>2
    <3> QED
      BY <3>1, <3>2 DEF LinkedOnce
  <2> QED
    BY <2>1, <2>2
<1> QED
  BY <1>4, <1>5 DEF LinkedOnce, r

(* Unlinking the first node and clearing its callback field.               *)
LEMMA TailLinksOnce ==
    ASSUME NEW s \in Seq(Node), NEW cb \in [Node -> BOOLEAN], s # <<>>,
           LinkedOnce(s, cb)
    PROVE  LinkedOnce(Tail(s), [cb EXCEPT ![Head(s)] = FALSE])
<1> DEFINE r == Tail(s)
<1> DEFINE h == Head(s)
<1>1. /\ Len(s) \in Nat \ {0} /\ Len(r) = Len(s) - 1
      /\ \A i \in 1 .. Len(r) : i + 1 \in 1 .. Len(s) /\ r[i] = s[i + 1]
      /\ h = s[1] /\ h \in Node /\ 1 \in 1 .. Len(s)
  OBVIOUS
<1> HIDE DEF r, h
<1>2. \A i, j \in 1 .. Len(r) : r[i] = r[j] => i = j
  BY <1>1 DEF LinkedOnce
<1>3. \A i \in 1 .. Len(r) : r[i] # h
  BY <1>1 DEF LinkedOnce
<1>4. ASSUME NEW m \in Node
      PROVE  [cb EXCEPT ![h] = FALSE][m] <=> \E i \in 1 .. Len(r) : r[i] = m
  <2>1. CASE m = h
    BY <1>1, <1>3, <2>1
  <2>2. CASE m # h
    <3>1. [cb EXCEPT ![h] = FALSE][m] = cb[m]
      BY <2>2
    <3>2. (\E i \in 1 .. Len(s) : s[i] = m) => (\E i \in 1 .. Len(r) : r[i] = m)
      <4>1. SUFFICES ASSUME NEW i \in 1 .. Len(s), s[i] = m
                     PROVE  \E j \in 1 .. Len(r) : r[j] = m
        OBVIOUS
      <4>2. i - 1 \in 1 .. Len(r) /\ r[i - 1] = s[i]
        BY <1>1, <2>2, <4>1
      <4> QED
        BY <4>1, <4>2
    <3>3. (\E i \in 1 .. Len(r) : r[i] = m) => (\E i \in 1 .. Len(s) : s[i] = m)
      BY <1>1
    <3> QED
      BY <3>1, <3>2, <3>3 DEF LinkedOnce
  <2> QED
    BY <2>1, <2>2
<1> QED
  BY <1>2, <1>4 DEF LinkedOnce, r, h

(* Every step keeps the nodes linked once, exactly while they have a       *)
(* callback.                                                               *)
LEMMA LinkedNext ==
    ASSUME IInv, NodesLinkedOnce, [Next]_vars
    PROVE  NodesLinkedOnce'
<1>0. /\ sched_nodes \in Seq(Node) /\ callback \in [Node -> BOOLEAN] /\ RunWillEnd
      /\ LinkedOnce(sched_nodes, callback)
  BY DEF IInv, TypeOK, NodesLinkedOnce, LinkedOnce
<1>1. SUFFICES LinkedOnce(sched_nodes', callback')
  BY DEF NodesLinkedOnce, LinkedOnce
<1>2. ASSUME UNCHANGED nodeVars PROVE LinkedOnce(sched_nodes', callback')
  BY <1>0, <1>2 DEF nodeVars
<1>3. ASSUME NEW n \in Node, mp_sched_schedule_node(n)
      PROVE  LinkedOnce(sched_nodes', callback')
  BY <1>0, <1>3, AppendLinksOnce DEF mp_sched_schedule_node, NotScheduled
<1>4. ASSUME NEW t \in Thread, RunFirstNode(t), sched_nodes # <<>>
      PROVE  LinkedOnce(sched_nodes', callback')
  BY <1>0, <1>4, TailLinksOnce DEF RunFirstNode
<1>5. ASSUME NEW t \in Thread, NodeReturns(t), ~RanOriginalTail(t)
      PROVE  sched_nodes # <<>>
  BY <1>0, <1>5 DEF NodeReturns, RanOriginalTail, RunWillEnd
<1>6. ASSUME NEW t \in Thread, Poll(t) PROVE LinkedOnce(sched_nodes', callback')
  <2>1. CASE LockAndRun(t)
    BY <1>2, <1>4, <2>1 DEF LockAndRun, RunOnePython
  <2>2. CASE NodeReturns(t)
    BY <1>2, <1>4, <1>5, <2>2 DEF NodeReturns, RunOnePython
  <2> QED
    BY <1>2, <1>6, <2>1, <2>2
       DEF Poll, SeePending, GiveUp, PythonReturns, UnlockAfterRun
<1> QED
  BY <1>2, <1>3, <1>6
     DEF Next, vars, mp_sched_schedule, mp_sched_schedule_drops, mp_sched_lock,
         mp_sched_unlock, mp_init

(* Interrupts, callbacks that schedule their own node again and soft       *)
(* resets never link a node twice, nor leave one linked that believes it   *)
(* is not (scheduler.c:91-105, 184-207).                                   *)
THEOREM NodesAlwaysLinkedOnce == Spec => []NodesLinkedOnce
<1>1. Init => NodesLinkedOnce
  BY DEF Init, NodesLinkedOnce
<1>2. IInv /\ NodesLinkedOnce /\ [Next]_vars => NodesLinkedOnce'
  BY LinkedNext
<1> QED
  BY InductiveInvariant, <1>1, <1>2, PTL DEF Spec
-----------------------------------------------------------------------------
(* The ring is the queue of CallbackQueue.                                 *)

(* A part of a ring, as the sequence it stands for.                        *)
LEMMA RingIsSeq ==
    ASSUME NEW q \in [0 .. Depth - 1 -> Func \cup {None}],
           NEW i \in 0 .. Depth - 1, NEW n \in 0 .. Depth
    PROVE  LET w == [k \in 1 .. n |-> q[IDX_MASK(i + k - 1)]] IN
           /\ w \in Seq(Func \cup {None}) /\ Len(w) = n
           /\ \A k \in 1 .. n : w[k] = q[IDX_MASK(i + k - 1)]
<1>1. n \in Nat
  BY DepthAssumption
<1>2. ASSUME NEW k \in 1 .. n
      PROVE  q[IDX_MASK(i + k - 1)] \in Func \cup {None}
  BY DepthAssumption, MaskRange
<1> QED
  BY <1>1, <1>2

(* Waiting as a sequence, before and after a step.                         *)
LEMMA WaitingIsSeq ==
    /\ TypeOK => /\ Waiting \in Seq(Func \cup {None}) /\ Len(Waiting) = sched_len
                 /\ \A k \in 1 .. sched_len :
                      Waiting[k] = sched_queue[IDX_MASK(sched_idx + k - 1)]
    /\ TypeOK' => /\ Waiting' \in Seq(Func \cup {None}) /\ Len(Waiting') = sched_len'
                  /\ \A k \in 1 .. sched_len' :
                       Waiting'[k] = sched_queue'[IDX_MASK(sched_idx' + k - 1)]
<1>1. ASSUME TypeOK
      PROVE  /\ Waiting \in Seq(Func \cup {None}) /\ Len(Waiting) = sched_len
             /\ \A k \in 1 .. sched_len :
                  Waiting[k] = sched_queue[IDX_MASK(sched_idx + k - 1)]
  <2>1. /\ sched_queue \in [0 .. Depth - 1 -> Func \cup {None}]
        /\ sched_idx \in 0 .. Depth - 1 /\ sched_len \in 0 .. Depth
    BY <1>1 DEF TypeOK
  <2> QED
    BY ONLY <2>1, RingIsSeq, ZenonT(30) DEF Waiting
<1>2. ASSUME TypeOK'
      PROVE  /\ Waiting' \in Seq(Func \cup {None}) /\ Len(Waiting') = sched_len'
             /\ \A k \in 1 .. sched_len' :
                  Waiting'[k] = sched_queue'[IDX_MASK(sched_idx' + k - 1)]
  <2>1. /\ sched_queue' \in [0 .. Depth - 1 -> Func \cup {None}]
        /\ sched_idx' \in 0 .. Depth - 1 /\ sched_len' \in 0 .. Depth
    BY <1>2 DEF TypeOK
  <2> QED
    BY ONLY <2>1, RingIsSeq, ZenonT(30) DEF Waiting
<1> QED
  BY <1>1, <1>2

(* A callback that is accepted goes behind all that wait.                  *)
LEMMA ScheduleAccepts ==
    ASSUME IInv, IInv', NEW f \in Func, mp_sched_schedule(f)
    PROVE  Queue!Accept(f)
<1>0. TypeOK /\ TypeOK' /\ sched_len \in 0 .. Depth /\ sched_idx \in 0 .. Depth - 1
  BY DEF IInv, TypeOK
<1>1. /\ sched_len < Depth /\ sched_len' = sched_len + 1 /\ sched_idx' = sched_idx
      /\ sched_queue' = [sched_queue EXCEPT ![IDX_MASK(sched_idx + sched_len)] = f]
      /\ ret' = TRUE
  BY <1>0, DepthAssumption DEF mp_sched_schedule, mp_sched_full, Iput
<1>2. /\ Waiting \in Seq(Func \cup {None}) /\ Len(Waiting) = sched_len
      /\ \A k \in 1 .. sched_len :
           Waiting[k] = sched_queue[IDX_MASK(sched_idx + k - 1)]
  BY <1>0, WaitingIsSeq
<1>3. /\ Waiting' \in Seq(Func \cup {None}) /\ Len(Waiting') = sched_len'
      /\ \A k \in 1 .. sched_len' :
           Waiting'[k] = sched_queue'[IDX_MASK(sched_idx' + k - 1)]
  BY <1>0, WaitingIsSeq
<1>4. ASSUME NEW k \in 1 .. sched_len PROVE Waiting'[k] = Waiting[k]
  <2>1. /\ IDX_MASK(sched_idx + k - 1) \in 0 .. Depth - 1
        /\ IDX_MASK(sched_idx + k - 1) # IDX_MASK(sched_idx + sched_len)
    BY <1>0, <1>1, DepthAssumption DEF IDX_MASK
  <2>2. sched_queue'[IDX_MASK(sched_idx + k - 1)] = sched_queue[IDX_MASK(sched_idx + k - 1)]
    BY <1>0, <1>1, <2>1 DEF TypeOK
  <2> QED
    BY <1>0, <1>1, <1>2, <1>3, <2>2
<1>5. Waiting'[sched_len + 1] = f
  <2>1. IDX_MASK(sched_idx + sched_len) \in 0 .. Depth - 1
    BY <1>0, <1>1, DepthAssumption, MaskRange
  <2>2. sched_queue'[IDX_MASK(sched_idx + sched_len)] = f
    BY <1>0, <1>1, <2>1 DEF TypeOK
  <2>3. sched_idx' + (sched_len + 1) - 1 = sched_idx + sched_len
        /\ sched_len + 1 \in 1 .. sched_len'
    BY <1>0, <1>1
  <2> QED
    BY <1>3, <2>2, <2>3
<1>6. Waiting' = Append(Waiting, f)
  <2>1. /\ Append(Waiting, f) \in Seq(Func \cup {None})
        /\ Len(Append(Waiting, f)) = sched_len + 1
        /\ \A k \in 1 .. sched_len : Append(Waiting, f)[k] = Waiting[k]
        /\ Append(Waiting, f)[sched_len + 1] = f
    BY <1>2
  <2>2. \A k \in 1 .. sched_len + 1 : Waiting'[k] = Append(Waiting, f)[k]
    BY <1>0, <1>4, <1>5, <2>1
  <2> QED
    BY <1>1, <1>3, <2>1, <2>2
<1> QED
  BY <1>1, <1>2, <1>6 DEF Queue!Accept

(* The Python callback that is taken is the oldest.                        *)
LEMMA RunTakes ==
    ASSUME TypeOK, TypeOK', NEW t \in Thread, RunOnePython(t), ret' = ret
    PROVE  Queue!Take \/ UNCHANGED <<Waiting, ret>>
<1>0. sched_len \in 0 .. Depth /\ sched_idx \in 0 .. Depth - 1
  BY DEF TypeOK
<1>1. CASE sched_len = 0
  BY <1>0, <1>1 DEF RunOnePython, Waiting
<1>2. CASE sched_len > 0
  <2>1. /\ sched_idx' = IDX_MASK(sched_idx + 1) /\ sched_len' = sched_len - 1
        /\ sched_queue' = sched_queue
    BY <1>0, <1>2 DEF RunOnePython
  <2>2. /\ Waiting \in Seq(Func \cup {None}) /\ Len(Waiting) = sched_len
        /\ \A k \in 1 .. sched_len :
             Waiting[k] = sched_queue[IDX_MASK(sched_idx + k - 1)]
    BY WaitingIsSeq
  <2>3. /\ Waiting' \in Seq(Func \cup {None}) /\ Len(Waiting') = sched_len'
        /\ \A k \in 1 .. sched_len' :
             Waiting'[k] = sched_queue'[IDX_MASK(sched_idx' + k - 1)]
    BY WaitingIsSeq
  <2>4. ASSUME NEW k \in 1 .. sched_len'
        PROVE  Waiting'[k] = Waiting[k + 1]
    <3>1. k + 1 \in 1 .. sched_len /\ (k + 1) - 1 = k
      BY <1>0, <2>1
    <3>2. IDX_MASK(sched_idx' + k - 1) = IDX_MASK(sched_idx + (k + 1) - 1)
      BY <1>0, <1>2, <2>1, DepthAssumption DEF IDX_MASK
    <3> QED
      BY <2>1, <2>2, <2>3, <3>1, <3>2
  <2>5. Waiting # <<>>
    BY <1>2, <2>2
  <2>6. /\ Tail(Waiting) \in Seq(Func \cup {None})
        /\ Len(Tail(Waiting)) = sched_len - 1
        /\ \A k \in 1 .. sched_len - 1 : Tail(Waiting)[k] = Waiting[k + 1]
    BY <1>0, <2>2, <2>5
  <2>7. Waiting' = Tail(Waiting)
    BY <1>0, <2>1, <2>3, <2>4, <2>6
  <2> QED
    BY <2>5, <2>7 DEF Queue!Take
<1> QED
  BY <1>0, <1>1, <1>2

(* The ring buffer with its two indices implements the bounded queue that  *)
(* the timers and every other user of mp_sched_schedule rely on: accepted  *)
(* callbacks are taken in order, each once, and only a full ring refuses   *)
(* (scheduler.c:109-123, 162-182; runtime.c:79-88).                        *)
THEOREM RingImplementsQueue == Spec => QueueSpec
<1>1. Init => Queue!Init
  BY DEF Init, Queue!Init, Waiting
<1>2. ASSUME IInv, IInv', [Next]_vars PROVE [Queue!Next]_(Queue!vars)
  <2>0. TypeOK /\ TypeOK'
    BY <1>2 DEF IInv
  <2>1. ASSUME UNCHANGED <<queueVars, ret>> PROVE UNCHANGED Queue!vars
    BY <2>1 DEF queueVars, Queue!vars, Waiting
  <2>2. ASSUME NEW f \in Func, mp_sched_schedule(f) PROVE Queue!Next
    BY <1>2, <2>2, ScheduleAccepts DEF Queue!Next
  <2>3. ASSUME NEW f \in Func, mp_sched_schedule_drops(f) PROVE Queue!Next
    <3>1. Len(Waiting) = Depth
      BY <2>0, <2>3, WaitingIsSeq DEF mp_sched_schedule_drops, mp_sched_full
    <3>2. ret' = FALSE /\ UNCHANGED Waiting
      BY <2>3 DEF mp_sched_schedule_drops, queueVars, Waiting
    <3> QED
      BY <3>1, <3>2 DEF Queue!Next, Queue!Refuse
  <2>4. ASSUME NEW t \in Thread, Poll(t) PROVE [Queue!Next]_(Queue!vars)
    <3>1. ASSUME RunFirstNode(t), ret' = ret PROVE UNCHANGED <<queueVars, ret>>
      BY <3>1 DEF RunFirstNode
    <3>2. ASSUME RunOnePython(t), ret' = ret PROVE [Queue!Next]_(Queue!vars)
      BY <2>0, <3>2, RunTakes DEF Queue!Next, Queue!vars
    <3>3. CASE LockAndRun(t)
      BY <2>1, <3>1, <3>2, <3>3 DEF LockAndRun
    <3>4. CASE NodeReturns(t)
      BY <2>1, <3>1, <3>2, <3>4 DEF NodeReturns
    <3> QED
      BY <2>1, <2>4, <3>3, <3>4
         DEF Poll, SeePending, GiveUp, PythonReturns, UnlockAfterRun
  <2>5. CASE mp_init
    <3>1. Waiting' = <<>> /\ ret' = ret
      BY <2>5 DEF mp_init, Waiting
    <3> QED
      BY <3>1 DEF Queue!Next, Queue!Discard
  <2> QED
    BY <1>2, <2>1, <2>2, <2>3, <2>4, <2>5
       DEF Next, vars, mp_sched_schedule_node, mp_sched_lock, mp_sched_unlock
<1> QED
  BY <1>1, <1>2, InductiveInvariant, PTL DEF Spec, QueueSpec, Queue!Spec
-----------------------------------------------------------------------------
(* machine.Timer, for all sets of timers and callbacks.  Its alarms hand   *)
(* their callbacks to the queue that the scheduler was just shown to be.   *)

(* While a call works on a timer, the timer has an object and, once the    *)
(* counter is stopped, cannot fire; the interrupt is off from mask to      *)
(* unmask.                                                                 *)
CallSteps ==
    /\ timer_pc \in {"python", "next"} <=> self = None
    /\ self # None => self \in Timer /\ self \in listed
    /\ timer_pc \in {"mask", "parse", "clear", "unmask", "allow", "start", "free"} =>
          ~counter[self]
    /\ timer_pc \in {"parse", "clear", "unmask", "free"} => ~intr[self]
    /\ timer_pc \in {"clear", "unmask", "allow", "start"} => timer_callback[self] \in Func

(* An alarm whose interrupt is still to come was set for the callback in   *)
(* force, except between Configure and ClearStatus, when the interrupt is  *)
(* off.                                                                    *)
AlarmsCurrent ==
    /\ \A t \in Timer : counter[t] \/ status[t] => timer_callback[t] \in Func
    /\ \A t \in Timer : status[t] /\ ~(timer_pc = "clear" /\ self = t)
                          => due[t] = timer_callback[t]
    /\ waiting \in Seq(T!Event)

TimerInv == T!TimersSound /\ CallSteps /\ AlarmsCurrent

LEMMA InitTimerInv == T!Init => TimerInv
BY TimerAssumption
   DEF T!Init, T!Off, TimerInv, T!TimersSound, T!TypeOK, T!AlarmCallsItsCallback,
       T!InterruptHasOwner, CallSteps, AlarmsCurrent

LEMMA TimerNext ==
    ASSUME TimerInv, [T!Next]_(T!vars)
    PROVE  TimerInv'
<1> USE DEF TimerInv, T!TimersSound, T!TypeOK, T!AlarmCallsItsCallback,
            T!InterruptHasOwner, CallSteps, AlarmsCurrent, T!Goto,
            T!fields, T!regs, T!queue
<1> USE TimerAssumption
<1>1. ASSUME NEW t \in Timer, T!Fire(t) PROVE TimerInv'
  BY <1>1 DEF T!Fire
<1>2. ASSUME NEW t \in Timer, T!machine_timer_isr(t) PROVE TimerInv'
  <2>1. due[t] = timer_callback[t] /\ timer_callback[t] \in Func
    BY <1>2 DEF T!machine_timer_isr
  <2> DEFINE e == [fun |-> timer_callback[t], timer |-> t, due |-> due[t]]
  <2>2. e \in T!Event /\ e.fun = e.due
    BY <2>1 DEF T!Event
  <2> HIDE DEF e
  <2>3. /\ waiting' \in Seq(T!Event) /\ Len(waiting') <= TimerDepth
        /\ \A i \in 1 .. Len(waiting') : waiting'[i] \in T!Event
        /\ \A i \in 1 .. Len(waiting') : waiting'[i].fun = waiting'[i].due
        /\ accepted' \in BOOLEAN
    <3>1. CASE T!Q!Accept(e)
      <4>1. waiting' = Append(waiting, e) /\ Len(waiting) < TimerDepth /\ accepted' = TRUE
        BY <3>1 DEF T!Q!Accept
      <4>2. /\ waiting' \in Seq(T!Event) /\ Len(waiting') = Len(waiting) + 1
            /\ Len(waiting) \in Nat
            /\ \A i \in 1 .. Len(waiting) : waiting'[i] = waiting[i]
            /\ waiting'[Len(waiting')] = e
        BY <4>1, <2>2
      <4>3. Len(waiting') <= TimerDepth
        BY <4>1, <4>2, TimerAssumption
      <4>4. \A i \in 1 .. Len(waiting') : i = Len(waiting') \/ i \in 1 .. Len(waiting)
        BY <4>2
      <4> QED
        BY <4>1, <4>2, <4>3, <4>4, <2>2
    <3>2. CASE T!Q!Refuse
      BY <3>2 DEF T!Q!Refuse
    <3> QED
      BY <1>2, <3>1, <3>2 DEF T!machine_timer_isr, e
  <2> QED
    BY <1>2, <2>3 DEF T!machine_timer_isr, T!Rearm
<1>3. CASE T!RunCallback
  <2>1. /\ waiting' \in Seq(T!Event) /\ Len(waiting') = Len(waiting) - 1
        /\ \A i \in 1 .. Len(waiting') : waiting'[i] = waiting[i + 1]
        /\ waiting[1] \in T!Event /\ Len(waiting) \in Nat /\ accepted' = accepted
    BY <1>3 DEF T!RunCallback, T!Q!Take
  <2>2. ran' \in Timer
    BY <1>3, <2>1 DEF T!RunCallback, T!Event
  <2>3. \A i \in 1 .. Len(waiting') : i + 1 \in 1 .. Len(waiting)
    BY <2>1
  <2>4. Len(waiting') <= TimerDepth
    BY <2>1, TimerAssumption
  <2>5. UNCHANGED <<listed, repeat, timer_callback, handle, intr, counter, alarm,
                    int_ena, status, due, timer_pc, self, todo>>
    BY <1>3 DEF T!RunCallback
  <2>6. /\ \A i \in 1 .. Len(waiting') : waiting'[i] \in T!Event
        /\ \A i \in 1 .. Len(waiting') : waiting'[i].fun = waiting'[i].due
    BY <2>1, <2>3
  <2> QED
    BY <2>1, <2>2, <2>4, <2>5, <2>6
<1>4. ASSUME NEW t \in Timer, T!machine_timer_init(t) PROVE TimerInv'
  BY <1>4 DEF T!machine_timer_init
<1>5. ASSUME NEW t \in Timer, T!machine_timer_deinit(t) PROVE TimerInv'
  BY <1>5 DEF T!machine_timer_deinit
<1>6. CASE T!StopCounter
  BY <1>6 DEF T!StopCounter
<1>7. CASE T!DisableInterrupt
  BY <1>7 DEF T!DisableInterrupt
<1>8. CASE T!FreeInterrupt
  BY <1>8 DEF T!FreeInterrupt
<1>9. CASE T!ParseFails
  BY <1>9 DEF T!ParseFails
<1>10. ASSUME NEW f \in Func, NEW r \in BOOLEAN, T!Configure(f, r) PROVE TimerInv'
  BY <1>10 DEF T!Configure
<1>11. CASE T!ClearStatus
  BY <1>11 DEF T!ClearStatus
<1>12. CASE T!EnableInterrupt
  BY <1>12 DEF T!EnableInterrupt
<1>13. CASE T!AllowAlarm
  BY <1>13 DEF T!AllowAlarm
<1>14. CASE T!StartCounter
  BY <1>14 DEF T!StartCounter
<1>15. CASE T!SoftReset
  BY <1>15 DEF T!SoftReset
<1>16. ASSUME NEW t \in Timer, T!NextTimer(t) PROVE TimerInv'
  BY <1>16 DEF T!NextTimer
<1>17. CASE T!Rebooted
  BY <1>17, TimerAssumption DEF T!Rebooted, T!Q!Discard
<1>18. CASE UNCHANGED T!vars
  BY <1>18 DEF T!vars
<1> QED
  BY <1>1, <1>2, <1>3, <1>4, <1>5, <1>6, <1>7, <1>8, <1>9, <1>10, <1>11, <1>12, <1>13,
     <1>14, <1>15, <1>16, <1>17, <1>18 DEF T!Next, T!Proceed

(* No alarm calls the callback of a later configuration of its timer       *)
(* (machine_timer.c:163-186) and no interrupt is left whose timer object   *)
(* is gone (machine_timer.c:54-63, 251-257), for any number of timers.     *)
THEOREM TimersAlwaysSound == T!Spec => []TimersSound
<1>1. T!Init => TimerInv
  BY InitTimerInv
<1>2. TimerInv /\ [T!Next]_(T!vars) => TimerInv'
  BY TimerNext
<1>3. TimerInv => TimersSound
  BY DEF TimerInv, TimersSound
<1> QED
  BY <1>1, <1>2, <1>3, PTL DEF T!Spec
====
