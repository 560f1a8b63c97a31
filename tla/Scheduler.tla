---- MODULE Scheduler ----
(***************************************************************************)
(* The callback scheduler of py/scheduler.c, as configured for the esp32   *)
(* port (threads with a GIL, static C nodes).  Interrupts, other tasks and *)
(* threads schedule callbacks; whichever thread polls first runs them.     *)
(* Every MICROPY_BEGIN/END_ATOMIC_SECTION pair is one step here; between   *)
(* two sections anything may happen, and a C or Python callback runs       *)
(* outside of any section.  A soft reset starts the interpreter anew but   *)
(* keeps the C nodes that are linked.                                      *)
(***************************************************************************)
EXTENDS Integers, Sequences

CONSTANTS Depth,     \* MICROPY_SCHEDULER_DEPTH, 8 on esp32
          Func,      \* Python callbacks
          Node,      \* static C callback nodes
          Thread,    \* threads that poll mp_handle_pending
          MaxLocks,  \* bound: locks nested by interrupts and finalisers
          None       \* NULL

ASSUME DepthAssumption == Depth \in Nat \ {0}
ASSUME MaxLocksAssumption == MaxLocks \in Nat
ASSUME NoneAssumption == None \notin Func /\ None \notin Node

VARIABLES sched_state,  \* < 0: locked that often; 0: pending; 1: idle
          sched_queue,  \* ring of Python callbacks
          sched_idx,    \* index of the oldest
          sched_len,    \* how many wait
          sched_nodes,  \* sched_head .. sched_tail, the linked C nodes
          callback,     \* callback[n]: node n's callback field is not NULL
          pc,           \* where each thread is in mp_handle_pending
          node,         \* local of mp_sched_run_pending, per thread
          original_tail,\* local of mp_sched_run_pending, per thread
          item,         \* local of mp_sched_run_pending, per thread
          ext_locks,    \* mp_sched_lock calls not yet undone by their callers
          ret           \* what the last mp_sched_schedule returned

queueVars == <<sched_queue, sched_idx, sched_len>>
nodeVars == <<sched_nodes, callback>>
locals == <<node, original_tail, item>>
vars == <<sched_state, queueVars, nodeVars, pc, locals, ext_locks, ret>>

MP_SCHED_IDLE == 1
MP_SCHED_PENDING == 0
MP_SCHED_LOCKED == -1

(* i & (MICROPY_SCHEDULER_DEPTH - 1) for the arguments it is given, which  *)
(* are below 2 * MICROPY_SCHEDULER_DEPTH, a power of 2.                    *)
IDX_MASK(i) == IF i < Depth THEN i ELSE i - Depth

mp_sched_full == sched_len = Depth

Init ==
    /\ sched_state = MP_SCHED_IDLE
    /\ sched_queue = [i \in 0 .. Depth - 1 |-> None]
    /\ sched_idx = 0
    /\ sched_len = 0
    /\ sched_nodes = <<>>
    /\ callback = [n \in Node |-> FALSE]
    /\ pc = [t \in Thread |-> "vm"]
    /\ node = [t \in Thread |-> None]
    /\ original_tail = [t \in Thread |-> None]
    /\ item = [t \in Thread |-> None]
    /\ ext_locks = 0
    /\ ret = TRUE
-----------------------------------------------------------------------------
(* mp_sched_schedule and mp_sched_schedule_node wake an idle scheduler.    *)
Wake == sched_state' = IF sched_state = MP_SCHED_IDLE
                       THEN MP_SCHED_PENDING ELSE sched_state

IputBehind == IDX_MASK(sched_idx + IDX_MASK(sched_len + 1))
Iput == IDX_MASK(sched_idx + sched_len)

mp_sched_schedule(f) ==
    /\ ~mp_sched_full
    /\ Wake
    /\ sched_queue' = [sched_queue EXCEPT ![Iput] = f]
    /\ sched_len' = sched_len + 1
    /\ ret' = TRUE
    /\ UNCHANGED <<sched_idx, nodeVars, pc, locals, ext_locks>>

mp_sched_schedule_drops(f) ==
    /\ mp_sched_full
    /\ ret' = FALSE
    /\ UNCHANGED <<sched_state, queueVars, nodeVars, pc, locals, ext_locks>>

NeverScheduled(n) == TRUE
NotScheduled(n) == ~callback[n]

mp_sched_schedule_node(n) ==
    /\ NotScheduled(n)
    /\ Wake
    /\ callback' = [callback EXCEPT ![n] = TRUE]
    /\ sched_nodes' = Append(sched_nodes, n)
    /\ UNCHANGED <<queueVars, pc, locals, ext_locks, ret>>
-----------------------------------------------------------------------------
LockedOnceMore == IF sched_state < 0 THEN sched_state - 1 ELSE MP_SCHED_LOCKED

(* mp_sched_lock by a hard interrupt handler or around a GC finaliser.     *)
mp_sched_lock ==
    /\ ext_locks < MaxLocks
    /\ sched_state' = LockedOnceMore
    /\ ext_locks' = ext_locks + 1
    /\ UNCHANGED <<queueVars, nodeVars, pc, locals, ret>>

(* The state in which the outermost unlock leaves the scheduler.           *)
ForgetsNodes == IF sched_len > 0 THEN MP_SCHED_PENDING ELSE MP_SCHED_IDLE
StateWhenUnlocked == IF sched_nodes # <<>> \/ sched_len > 0
                     THEN MP_SCHED_PENDING ELSE MP_SCHED_IDLE

Unlock == sched_state' = IF sched_state + 1 = 0
                         THEN StateWhenUnlocked ELSE sched_state + 1

mp_sched_unlock ==
    /\ ext_locks > 0
    /\ Unlock
    /\ ext_locks' = ext_locks - 1
    /\ UNCHANGED <<queueVars, nodeVars, pc, locals, ret>>
-----------------------------------------------------------------------------
(* mp_handle_pending: the state is read outside of any atomic section.     *)
SeePending(t) ==
    /\ pc[t] = "vm"
    /\ sched_state = MP_SCHED_PENDING
    /\ pc' = [pc EXCEPT ![t] = "seen"]
    /\ UNCHANGED <<sched_state, queueVars, nodeVars, locals, ext_locks, ret>>

(* Unlink the first C node and go and run its callback.                    *)
RunFirstNode(t) ==
    /\ node' = [node EXCEPT ![t] = Head(sched_nodes)]
    /\ sched_nodes' = Tail(sched_nodes)
    /\ callback' = [callback EXCEPT ![Head(sched_nodes)] = FALSE]
    /\ pc' = [pc EXCEPT ![t] = "node"]
    /\ UNCHANGED <<queueVars, item>>

(* Run at most one pending Python callback.                                *)
RunOnePython(t) ==
    /\ \/ /\ sched_len > 0
          /\ item' = [item EXCEPT ![t] = sched_queue[sched_idx]]
          /\ sched_idx' = IDX_MASK(sched_idx + 1)
          /\ sched_len' = sched_len - 1
          /\ pc' = [pc EXCEPT ![t] = "python"]
       \/ /\ sched_len = 0
          /\ pc' = [pc EXCEPT ![t] = "unlock"]
          /\ UNCHANGED <<item, sched_idx, sched_len>>
    /\ UNCHANGED <<sched_queue, nodeVars, node>>

AssumesPending == TRUE
StillPending == sched_state = MP_SCHED_PENDING

(* First atomic section of mp_sched_run_pending, when something else       *)
(* locked the scheduler or ran its tasks in the meantime.                  *)
GiveUp(t) ==
    /\ pc[t] = "seen"
    /\ ~StillPending
    /\ pc' = [pc EXCEPT ![t] = "vm"]
    /\ UNCHANGED <<sched_state, queueVars, nodeVars, locals, ext_locks, ret>>

(* The same section when the scheduler is still pending.                   *)
LockAndRun(t) ==
    /\ pc[t] = "seen"
    /\ StillPending
    /\ sched_state' = MP_SCHED_LOCKED
    /\ \/ /\ sched_nodes # <<>>
          /\ original_tail' = [original_tail EXCEPT
                                 ![t] = sched_nodes[Len(sched_nodes)]]
          /\ RunFirstNode(t)
       \/ /\ sched_nodes = <<>>
          /\ original_tail' = [original_tail EXCEPT ![t] = None]
          /\ RunOnePython(t)
    /\ UNCHANGED <<ext_locks, ret>>

RanOriginalTail(t) == node[t] = original_tail[t]

(* A C callback returned: the next node, or the Python callback.           *)
NodeReturns(t) ==
    /\ pc[t] = "node"
    /\ \/ ~RanOriginalTail(t) /\ RunFirstNode(t)
       \/ RanOriginalTail(t) /\ RunOnePython(t)
    /\ UNCHANGED <<sched_state, original_tail, ext_locks, ret>>

(* A Python callback returned or raised (the call is protected).           *)
PythonReturns(t) ==
    /\ pc[t] = "python"
    /\ pc' = [pc EXCEPT ![t] = "unlock"]
    /\ UNCHANGED <<sched_state, queueVars, nodeVars, locals, ext_locks, ret>>

(* mp_sched_unlock at the end of mp_sched_run_pending, whose locals go.    *)
UnlockAfterRun(t) ==
    /\ pc[t] = "unlock"
    /\ Unlock
    /\ pc' = [pc EXCEPT ![t] = "vm"]
    /\ node' = [node EXCEPT ![t] = None]
    /\ original_tail' = [original_tail EXCEPT ![t] = None]
    /\ item' = [item EXCEPT ![t] = None]
    /\ UNCHANGED <<queueVars, nodeVars, ext_locks, ret>>

Poll(t) ==
    \/ SeePending(t)
    \/ GiveUp(t)
    \/ LockAndRun(t)
    \/ NodeReturns(t)
    \/ PythonReturns(t)
    \/ UnlockAfterRun(t)

-----------------------------------------------------------------------------
AlwaysIdle == MP_SCHED_IDLE
StateAfterReset == IF sched_nodes # <<>> THEN MP_SCHED_PENDING ELSE MP_SCHED_IDLE

(* Soft reset: the main thread, outside of mp_handle_pending, ends the     *)
(* other threads and calls mp_init.                                        *)
mp_init ==
    /\ \E t \in Thread : pc[t] = "vm"
    /\ sched_state' = StateAfterReset
    /\ sched_idx' = 0 /\ sched_len' = 0
    /\ pc' = [t \in Thread |-> "vm"]
    /\ node' = [t \in Thread |-> None]
    /\ original_tail' = [t \in Thread |-> None]
    /\ item' = [t \in Thread |-> None]
    /\ ext_locks' = 0
    /\ UNCHANGED <<sched_queue, nodeVars, ret>>

Next ==
    \/ \E f \in Func : mp_sched_schedule(f)
    \/ \E f \in Func : mp_sched_schedule_drops(f)
    \/ \E n \in Node : mp_sched_schedule_node(n)
    \/ mp_sched_lock
    \/ mp_sched_unlock
    \/ \E t \in Thread : Poll(t)
    \/ mp_init

Spec == Init /\ [][Next]_vars

(* What a thread does once it has begun to poll.                           *)
GoOn(t) == GiveUp(t) \/ NodeReturns(t) \/ PythonReturns(t) \/ UnlockAfterRun(t)

(* Callbacks return and locks are released.  The VM polls at every branch, *)
(* so if the scheduler is unlocked and pending again and again, some       *)
(* thread finds it so and still finds it so inside the atomic section.     *)
Fairness ==
    /\ WF_vars(mp_sched_unlock)
    /\ SF_vars(\E t \in Thread : SeePending(t))
    /\ SF_vars(\E t \in Thread : LockAndRun(t))
    /\ \A t \in Thread : WF_vars(GoOn(t))

FairSpec == Spec /\ Fairness
-----------------------------------------------------------------------------
PCs == {"vm", "seen", "node", "python", "unlock"}
Running == {"node", "python", "unlock"}
Runners == {t \in Thread : pc[t] \in Running}

(* Type invariant of the scheduler's fields (py/mpstate.h).                *)
TypeOK ==
    /\ sched_state \in Int
    /\ sched_queue \in [0 .. Depth - 1 -> Func \cup {None}]
    /\ sched_idx \in 0 .. Depth - 1
    /\ sched_len \in 0 .. Depth
    /\ sched_nodes \in Seq(Node)
    /\ callback \in [Node -> BOOLEAN]
    /\ pc \in [Thread -> PCs]
    /\ node \in [Thread -> Node \cup {None}]
    /\ original_tail \in [Thread -> Node \cup {None}]
    /\ item \in [Thread -> Func \cup {None}]
    /\ ext_locks \in 0 .. MaxLocks
    /\ ret \in BOOLEAN

(* At most one thread runs callbacks at a time, although the pending state *)
(* is read without a lock (scheduler.c:243-250, 77-87).                    *)
OneRunner == \A t, u \in Runners : t = u

(* The scheduler is locked exactly as often as somebody holds it: the      *)
(* runner and the nested locks of interrupts and finalisers                *)
(* (scheduler.c:128-161).                                                  *)
LockCount ==
    /\ sched_state < 0 =>
         sched_state = -(ext_locks + (IF Runners = {} THEN 0 ELSE 1))
    /\ sched_state >= 0 => Runners = {} /\ ext_locks = 0

(* No callback is stranded and no poll is wasted: an unlocked scheduler is *)
(* pending exactly when a C node or a Python callback waits, so the VM's   *)
(* single test of sched_state (vm.c:1329) misses nothing.                  *)
PendingExact ==
    /\ sched_state = MP_SCHED_IDLE => sched_nodes = <<>> /\ sched_len = 0
    /\ sched_state = MP_SCHED_PENDING => sched_nodes # <<>> \/ sched_len > 0
    /\ sched_state <= 1

(* A node is linked exactly while its callback field is set, and once only *)
(* (scheduler.c:184-207): the list has no cycle.                           *)
NodesLinkedOnce ==
    /\ \A n \in Node : callback[n] <=> \E i \in 1 .. Len(sched_nodes) : sched_nodes[i] = n
    /\ \A i, j \in 1 .. Len(sched_nodes) :
         sched_nodes[i] = sched_nodes[j] => i = j

(* While a run of the C nodes is under way the tail it stops at is either  *)
(* the node being run or still linked, so that the loop ends               *)
(* (scheduler.c:91-105) however often callbacks reschedule themselves.     *)
RunWillEnd ==
    \A t \in Thread : pc[t] = "node" =>
        \/ node[t] = original_tail[t]
        \/ \E i \in 1 .. Len(sched_nodes) : sched_nodes[i] = original_tail[t]

(* The ring of callbacks is the bounded queue of CallbackQueue.            *)
Waiting == [k \in 1 .. sched_len |-> sched_queue[IDX_MASK(sched_idx + k - 1)]]
Queue == INSTANCE CallbackQueue WITH waiting <- Waiting, accepted <- ret

QueueSpec == Queue!Spec

(* Every accepted Python callback is eventually run, unless a soft reset   *)
(* empties the ring (scheduler.c:109-123, 143-157, runtime.c:79-88).       *)
CallbackRuns ==
    \A f \in Func :
        (\E k \in 1 .. sched_len : Waiting[k] = f)
            ~> (sched_len = 0 \/ \E t \in Thread : pc[t] = "python" /\ item[t] = f)

(* Every scheduled C node is eventually run, soft resets or not            *)
(* (scheduler.c:91-106, runtime.c:79-84).                                  *)
NodeRuns ==
    \A n \in Node : callback[n] ~> (\E t \in Thread : pc[t] = "node" /\ node[t] = n)

(* Nothing that was accepted is forgotten, by either of the two.           *)
EverythingRuns == CallbackRuns /\ NodeRuns
=============================================================================
