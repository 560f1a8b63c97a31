---- MODULE ThreadPort ----
(***************************************************************************)
(* Python threads on the esp32 (ports/esp32/mpthreadport.c), with          *)
(* thread_entry of py/modthread.c, the collector's walk over the threads   *)
(* and the soft reset of main.c.                                           *)
(*                                                                         *)
(* Two locks order the threads: the GIL, held while Python runs, and       *)
(* thread_mutex, for the linked list of threads.  A thread that ends takes *)
(* itself off the list without the GIL; the collector walks the list with  *)
(* both locks but sweeps with the GIL alone.  The list nodes live in the   *)
(* collected heap (a node stands for itself and the thread's arguments),   *)
(* but for the main thread's, and FreeRTOS may give the handle of a task   *)
(* that is gone to the next one.  All tasks have one priority and one      *)
(* core, so any interleaving of their steps can happen.                    *)
(***************************************************************************)
EXTENDS Integers

CONSTANTS Task, Main,     \* FreeRTOS task handles; the one of mp_task
          Node, Entry0,   \* heap cells for list nodes; thread_entry0
          Null

ASSUME TaskAssumption == Main \in Task /\ Null \notin Task
ASSUME NodeAssumption == Entry0 \notin Node /\ Null \notin Node \cup {Entry0}

Cell == Node \cup {Entry0}

VARIABLES gil, mutex,                   \* owners of the two semaphores
          thread, next, id, run_state,  \* the linked list
          heap,                         \* nodes allocated
          pc,                           \* where each task is
          arg,                          \* the arguments a task was given
          th,                           \* the list pointer each task holds
          marked, scanned               \* nodes, stacks traced by a collection

lists == <<thread, next, id, run_state>>
gc == <<marked, scanned>>
vars == <<gil, mutex, lists, heap, pc, arg, th, gc>>

Init ==
    /\ gil = Main /\ mutex = Null
    /\ thread = Entry0
    /\ next = [n \in Cell |-> Null]
    /\ id = [n \in Cell |-> IF n = Entry0 THEN Main ELSE Null]
    /\ run_state = [n \in Cell |-> IF n = Entry0 THEN "RUNNING" ELSE "NEW"]
    /\ heap = {}
    /\ pc = [t \in Task |-> IF t = Main THEN "python" ELSE "none"]
    /\ arg = [t \in Task |-> Null]
    /\ th = [t \in Task |-> Null]
    /\ marked = {} /\ scanned = {}

Goto(t, from, to) == pc[t] = from /\ pc' = [pc EXCEPT ![t] = to]

mp_thread_mutex_lock(t) == mutex = Null /\ mutex' = t
mp_thread_mutex_unlock == mutex' = Null
-----------------------------------------------------------------------------
(* The nodes from n on, n Null for none: the ones in every set of nodes    *)
(* that has n and, with a node, the next one.                              *)
Closed(S) == \A m \in S : next[m] # Null => next[m] \in S
After(n) ==
    {m \in Cell : \A S \in SUBSET Cell :
                     Closed(S) /\ (n # Null => n \in S) => m \in S}

(* mp_thread_create_ex: the node is allocated before the list is locked.   *)
NewNode(t, n) ==
    /\ Goto(t, "python", "create")
    /\ n \notin heap
    /\ heap' = heap \cup {n}
    /\ th' = [th EXCEPT ![t] = n]
    /\ UNCHANGED <<gil, mutex, lists, arg, gc>>

LockCreate(t) ==
    /\ Goto(t, "create", "spawn")
    /\ mp_thread_mutex_lock(t)
    /\ UNCHANGED <<gil, lists, heap, arg, th, gc>>

(* xTaskCreatePinnedToCore: task u may run before its node is on the list. *)
Spawn(t, u) ==
    /\ pc[t] = "spawn"
    /\ pc[u] = "none"
    /\ pc' = [pc EXCEPT ![t] = "link", ![u] = "born"]
    /\ id' = [id EXCEPT ![th[t]] = u]
    /\ arg' = [arg EXCEPT ![u] = th[t]]
    /\ UNCHANGED <<gil, mutex, thread, next, run_state, heap, th, gc>>

SpawnFails(t) ==
    /\ Goto(t, "spawn", "python")
    /\ mp_thread_mutex_unlock
    /\ th' = [th EXCEPT ![t] = Null]
    /\ UNCHANGED <<gil, lists, heap, arg, gc>>

Link(t) ==
    /\ Goto(t, "link", "python")
    /\ run_state' = [run_state EXCEPT ![th[t]] = "NEW"]
    /\ next' = [next EXCEPT ![th[t]] = thread]
    /\ thread' = th[t]
    /\ th' = [th EXCEPT ![t] = Null]
    /\ mp_thread_mutex_unlock
    /\ UNCHANGED <<gil, id, heap, arg, gc>>
-----------------------------------------------------------------------------
(* thread_entry: its state is set up from the arguments without the GIL.   *)
InitState(t) ==
    /\ Goto(t, "born", "enter")
    /\ UNCHANGED <<gil, mutex, lists, heap, arg, th, gc>>

GilEnter(t) ==
    /\ \/ Goto(t, "enter", "start")
       \/ Goto(t, "outside", "python")
    /\ gil = Null
    /\ gil' = t
    /\ UNCHANGED <<mutex, lists, heap, arg, th, gc>>

LockStart(t) ==
    /\ Goto(t, "start", "starting")
    /\ mp_thread_mutex_lock(t)
    /\ UNCHANGED <<gil, lists, heap, arg, th, gc>>

(* mp_thread_start and mp_thread_finish, with the list locked.             *)
mp_thread_start(t) ==
    /\ Goto(t, "starting", "python")
    /\ run_state' = [n \in Cell |->
           IF n \in After(thread) /\ id[n] = t THEN "RUNNING" ELSE run_state[n]]
    /\ mp_thread_mutex_unlock
    /\ UNCHANGED <<gil, thread, next, id, heap, arg, th, gc>>

(* A blocking call, or the VM's bounce of the GIL.                         *)
GilExit(t) ==
    /\ Goto(t, "python", "outside")
    /\ gil' = Null
    /\ UNCHANGED <<mutex, lists, heap, arg, th, gc>>

ThreadReturns(t) ==
    /\ t # Main
    /\ Goto(t, "python", "finish")
    /\ UNCHANGED <<gil, mutex, lists, heap, arg, th, gc>>

LockFinish(t) ==
    /\ Goto(t, "finish", "finishing")
    /\ mp_thread_mutex_lock(t)
    /\ UNCHANGED <<gil, lists, heap, arg, th, gc>>

mp_thread_finish(t) ==
    /\ Goto(t, "finishing", "exit")
    /\ run_state' = [n \in Cell |->
           IF n \in After(thread) /\ id[n] = t THEN "FINISHED" ELSE run_state[n]]
    /\ mp_thread_mutex_unlock
    /\ UNCHANGED <<gil, thread, next, id, heap, arg, th, gc>>

ExitGil(t) ==
    /\ Goto(t, "exit", "remove")
    /\ gil' = Null
    /\ UNCHANGED <<mutex, lists, heap, arg, th, gc>>

LockRemove_none(t) ==
    /\ Goto(t, "remove", "walk")
    /\ UNCHANGED mutex
    /\ th' = [th EXCEPT ![t] = Null]
    /\ UNCHANGED <<gil, lists, heap, arg, gc>>

LockRemove(t) ==
    /\ Goto(t, "remove", "walk")
    /\ mp_thread_mutex_lock(t)
    /\ th' = [th EXCEPT ![t] = Null]
    /\ UNCHANGED <<gil, lists, heap, arg, gc>>

Walk_stuck(t) == pc[t] = "walk" /\ UNCHANGED vars

(* freertos_entry, one round of the loop.  th is the node whose next       *)
(* pointer is looked at, Null for the head.  Having unlinked itself the    *)
(* loop goes on through the node after: there has to be one.               *)
Walk(t) ==
    LET prev == th[t]
        n == IF prev = Null THEN thread ELSE next[prev]
    IN  /\ pc[t] = "walk"
        /\ \/ /\ n = Null
              /\ pc' = [pc EXCEPT ![t] = "dying"]
              /\ mp_thread_mutex_unlock
              /\ th' = [th EXCEPT ![t] = Null]
              /\ UNCHANGED <<thread, next>>
           \/ /\ n # Null /\ id[n] # t
              /\ th' = [th EXCEPT ![t] = n]
              /\ UNCHANGED <<pc, mutex, thread, next>>
           \/ /\ n # Null /\ id[n] = t
              /\ thread' = IF prev = Null THEN next[n] ELSE thread
              /\ next' = [c \in Cell |-> IF c = prev THEN next[n] ELSE next[c]]
              /\ th' = [th EXCEPT ![t] = next[n]]
              /\ pc' = IF next[n] = Null THEN [pc EXCEPT ![t] = "crash"] ELSE pc
              /\ UNCHANGED mutex
        /\ UNCHANGED <<gil, id, run_state, heap, arg, gc>>

(* vTaskDelete(NULL): the handle may be given to another task.             *)
Die(t) ==
    /\ Goto(t, "dying", "none")
    /\ arg' = [arg EXCEPT ![t] = Null]
    /\ UNCHANGED <<gil, mutex, lists, heap, th, gc>>
-----------------------------------------------------------------------------
gc_collect(t) ==
    /\ Goto(t, "python", "collect")
    /\ marked' = {}
    /\ scanned' = {t}
    /\ UNCHANGED <<gil, mutex, lists, heap, arg, th>>

LockOthers(t) ==
    /\ Goto(t, "collect", "scan")
    /\ mp_thread_mutex_lock(t)
    /\ th' = [th EXCEPT ![t] = thread]
    /\ UNCHANGED <<gil, lists, heap, arg, gc>>

(* mp_thread_gc_others, one node: tracing it traces the ones after it.     *)
mp_thread_gc_others(t) ==
    /\ pc[t] = "scan"
    /\ \/ /\ th[t] = Null
          /\ pc' = [pc EXCEPT ![t] = "sweep"]
          /\ mp_thread_mutex_unlock
          /\ UNCHANGED <<th, gc>>
       \/ /\ th[t] # Null
          /\ marked' = marked \cup After(th[t])
          /\ scanned' = IF id[th[t]] # t /\ run_state[th[t]] = "RUNNING"
                        THEN scanned \cup {id[th[t]]} ELSE scanned
          /\ th' = [th EXCEPT ![t] = next[th[t]]]
          /\ UNCHANGED <<pc, mutex>>
    /\ UNCHANGED <<gil, lists, heap, arg>>

(* Cells that are no longer allocated hold nothing of use.                 *)
Free(cells) ==
    /\ heap' = heap \ cells
    /\ next' = [n \in Cell |-> IF n \in cells THEN Null ELSE next[n]]
    /\ id' = [n \in Cell |-> IF n \in cells THEN Null ELSE id[n]]
    /\ run_state' = [n \in Cell |-> IF n \in cells THEN "NEW" ELSE run_state[n]]

(* gc_collect_end: what was not traced is freed.                           *)
gc_sweep(t) ==
    /\ Goto(t, "sweep", "python")
    /\ Free(heap \ (marked \cup {arg[u] : u \in scanned}))
    /\ marked' = {} /\ scanned' = {}
    /\ UNCHANGED <<gil, mutex, thread, arg, th>>
-----------------------------------------------------------------------------
(* The soft reset: mp_thread_deinit, gc_sweep_all, mp_deinit, mp_init.     *)
SoftReset ==
    /\ Goto(Main, "python", "deinit")
    /\ UNCHANGED <<gil, mutex, lists, heap, arg, th, gc>>

LockDeinit_none ==
    /\ Goto(Main, "deinit", "delete")
    /\ UNCHANGED mutex
    /\ th' = [th EXCEPT ![Main] = thread]
    /\ UNCHANGED <<gil, lists, heap, arg, gc>>

LockDeinit ==
    /\ Goto(Main, "deinit", "delete")
    /\ mp_thread_mutex_lock(Main)
    /\ th' = [th EXCEPT ![Main] = thread]
    /\ UNCHANGED <<gil, lists, heap, arg, gc>>

(* mp_thread_deinit, one node: its task is deleted wherever it is.         *)
mp_thread_deinit ==
    LET n == th[Main] IN
    /\ pc[Main] = "delete"
    /\ \/ /\ n = Null
          /\ thread' = Entry0
          /\ pc' = [pc EXCEPT ![Main] = "sweep all"]
          /\ mp_thread_mutex_unlock
          /\ UNCHANGED <<arg, th>>
       \/ /\ n # Null
          /\ th' = [t \in Task |-> IF t = Main THEN next[n]
                                   ELSE IF t = id[n] THEN Null ELSE th[t]]
          /\ LET dead == {t \in {id[n]} : n # Entry0} IN
             /\ pc' = [t \in Task |-> IF t \in dead THEN "none" ELSE pc[t]]
             /\ arg' = [t \in Task |-> IF t \in dead THEN Null ELSE arg[t]]
          /\ UNCHANGED <<thread, mutex>>
    /\ UNCHANGED <<gil, next, id, run_state, heap, gc>>

gc_sweep_all ==
    /\ Goto(Main, "sweep all", "reset")
    /\ Free(heap)
    /\ UNCHANGED <<gil, mutex, thread, arg, th, gc>>

mp_deinit ==
    /\ Goto(Main, "reset", "boot")
    /\ gil' = Null
    /\ UNCHANGED <<mutex, lists, heap, arg, th, gc>>

(* mp_init makes the GIL anew, whoever holds it, and takes it.             *)
mp_init ==
    /\ Goto(Main, "boot", "python")
    /\ gil' = Main
    /\ UNCHANGED <<mutex, lists, heap, arg, th, gc>>
-----------------------------------------------------------------------------
(* Steps of a task that does what it has begun.                            *)
Locking(t) ==
    LockCreate(t) \/ LockStart(t) \/ LockFinish(t) \/ LockRemove(t) \/ LockOthers(t)

Proceed(t) ==
    \/ (\E u \in Task : Spawn(t, u)) \/ SpawnFails(t) \/ Link(t)
    \/ InitState(t) \/ mp_thread_start(t)
    \/ mp_thread_finish(t) \/ ExitGil(t) \/ Walk(t) \/ Die(t)
    \/ mp_thread_gc_others(t) \/ gc_sweep(t)

Reset == LockDeinit \/ mp_thread_deinit \/ gc_sweep_all \/ mp_deinit \/ mp_init

(* What the program asks for.                                              *)
Ask(t) == (\E n \in Node : NewNode(t, n)) \/ ThreadReturns(t) \/ gc_collect(t)

Next ==
    \/ \E t \in Task : Locking(t) \/ Proceed(t) \/ GilEnter(t) \/ GilExit(t) \/ Ask(t)
    \/ SoftReset \/ Reset

(* Steps that may have to wait for a semaphore.                            *)
Take(t) == Locking(t) \/ GilEnter(t) \/ (t = Main /\ Reset)

(* A task at its turn proceeds; a semaphore goes to the task that has      *)
(* waited longest (one priority); the VM bounces the GIL every 32 jumps.   *)
Fairness ==
    /\ \A t \in Task : WF_vars(Proceed(t)) /\ SF_vars(Take(t))
    /\ SF_vars(\E t \in Task : GilExit(t))

Spec == Init /\ [][Next]_vars
FairSpec == Spec /\ Fairness
-----------------------------------------------------------------------------
WithGil == {"python", "create", "spawn", "link", "start", "starting", "finish",
            "finishing", "exit", "collect", "scan", "sweep",
            "deinit", "delete", "sweep all", "reset"}
WithMutex == {"spawn", "link", "starting", "finishing", "walk", "scan", "delete"}

(* Type correctness.                                                       *)
TypeOK ==
    /\ gil \in Task \cup {Null} /\ mutex \in Task \cup {Null}
    /\ thread \in Cell
    /\ next \in [Cell -> Cell \cup {Null}]
    /\ id \in [Cell -> Task \cup {Null}]
    /\ run_state \in [Cell -> {"NEW", "RUNNING", "FINISHED"}]
    /\ heap \subseteq Node
    /\ pc \in [Task -> WithGil \cup WithMutex \cup {"none", "born", "enter",
                  "outside", "remove", "dying", "boot"}]
    /\ arg \in [Task -> Node \cup {Null}]
    /\ th \in [Task -> Cell \cup {Null}]
    /\ marked \subseteq Cell /\ scanned \subseteq Task

(* Python runs in one thread at a time, across soft resets too: mp_init    *)
(* makes the GIL anew and no thread may be left that still uses the old.   *)
OneInPython == \A t \in Task : pc[t] \in WithGil => gil = t

(* thread_mutex is free or its owner is alive and about to release it: no  *)
(* task is deleted inside of it, which would stop every later collection.  *)
MutexComesBack == mutex # Null => pc[mutex] \in WithMutex

(* The list ends with the main thread, which the loop of freertos_entry    *)
(* and the assertions of mp_thread_deinit rely on; its handles are those   *)
(* of different live tasks, although handles are used again.               *)
ListedAreAlive ==
    LET listed == After(thread) IN
    pc[Main] # "delete" =>
        /\ Entry0 \in listed /\ next[Entry0] = Null
        /\ \A n \in listed : id[n] \in Task /\ pc[id[n]] \notin {"none", "dying"}
        /\ \A m, n \in listed : id[m] = id[n] => m = n

(* Nothing is read after it was freed: not the list, which threads that    *)
(* end walk without the GIL while another one sweeps, and not the          *)
(* arguments of a thread that has yet to start.                            *)
NoUseAfterFree ==
    /\ pc[Main] \notin {"reset", "boot"} => After(thread) \subseteq heap \cup {Entry0}
    /\ \A t \in Task : pc[t] \in {"walk", "scan"} => th[t] \in heap \cup {Entry0, Null}
    /\ \A t \in Task : pc[t] \in {"born", "enter", "start", "starting", "python"}
                       => arg[t] \in heap \cup {Null}

(* When the collector begins to free, it has traced the stack of every     *)
(* thread that is in the middle of Python code.                            *)
StacksTraced ==
    \A t, u \in Task : pc[t] = "sweep" /\ pc[u] \in {"python", "outside"} => u \in scanned

(* The list of threads is safe to walk for those that end, collect and     *)
(* reset (mpthreadport.c:90-142, 200-240).                                 *)
ListSafe == TypeOK /\ ListedAreAlive /\ NoUseAfterFree /\ StacksTraced

(* Both locks survive the threads that held them (mpthreadport.c:219-240,  *)
(* mpthread.h).                                                            *)
LocksSafe == OneInPython /\ MutexComesBack

(* A thread that has returned is taken off the list and deleted, whatever  *)
(* collections, other threads and soft resets do.                          *)
FinishedGoes == \A t \in Task \ {Main} : (pc[t] = "finish") ~> (pc[t] = "none")

(* A new thread gets the GIL and runs, or a soft reset has deleted it.     *)
NewThreadRuns ==
    \A t \in Task \ {Main} : (pc[t] = "born") ~> (pc[t] \in {"python", "none"})

(* A collection gets past the list, for which it waits with the GIL held.  *)
Collecting == \E t \in Task : pc[t] \in {"collect", "scan"}
CollectionEnds == Collecting ~> ~Collecting

(* Threads start and end, and collections end.                             *)
ThreadsProgress == FinishedGoes /\ NewThreadRuns /\ CollectionEnds
====
