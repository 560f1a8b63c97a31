---- MODULE ThreadPort_proofs ----
(***************************************************************************)
(* Proofs about ThreadPort: whatever tasks start, end, collect and reset,  *)
(* the list of threads stays a list that ends with the main thread, every  *)
(* thread that is alive is on it, and both locks survive their owners.     *)
(*                                                                         *)
(* The list is reasoned about as a set: From(next, n) is the set of nodes  *)
(* from n on, and the lemmas of the first part say what linking, walking,  *)
(* unlinking and sweeping do to it.                                        *)
(***************************************************************************)
EXTENDS ThreadPort, TLAPS

(* After, as a function of the next pointers.                              *)
From(f, n) ==
    {m \in Cell : \A S \in SUBSET Cell :
        (\A x \in S : f[x] # Null => f[x] \in S) /\ (n # Null => n \in S) => m \in S}

Listed == From(next, thread)

Gone == {"none", "dying"}
ResetOnly == {"deinit", "delete", "sweep all", "reset", "boot"}
ThreadOnly == {"none", "born", "enter", "start", "starting", "finish",
               "finishing", "exit", "remove", "walk", "dying"}
Started == {"python", "create", "spawn", "link", "outside", "collect", "scan", "sweep"}

(* The node a live task has on the list.                                   *)
NodeOf(t) == IF t = Main THEN Entry0 ELSE arg[t]

(* The locks, and which task runs which code: after mp_thread_deinit only  *)
(* the main task is left.                                                  *)
LockInv ==
    /\ OneInPython
    /\ \A t \in Task : pc[t] \in WithMutex => mutex = t
    /\ MutexComesBack
    /\ \A t \in Task \ {Main} : pc[t] \notin ResetOnly
    /\ pc[Main] \notin ThreadOnly
    /\ pc[Main] \in {"sweep all", "reset", "boot"} => \A t \in Task \ {Main} : pc[t] \in Gone

(* The shape of the list: it ends with thread_entry0, no node is before    *)
(* itself or before two others, and each has a task of its own.            *)
ShapeInv ==
    /\ Entry0 \in Listed /\ next[Entry0] = Null /\ id[Entry0] = Main
    /\ \A n \in Node : id[n] # Main
    /\ Listed \subseteq heap \cup {Entry0}
    /\ \A m \in Listed : next[m] = Null => m = Entry0
    /\ \A m \in Listed : m \notin From(next, next[m])
    /\ \A m, n \in Listed : next[m] = next[n] /\ next[m] # Null => m = n
    /\ \A m \in Listed : id[m] \in Task
    /\ \A m, n \in Listed : id[m] = id[n] => m = n

(* Pointers into the list, and nodes that are not on it yet.               *)
PointerInv ==
    /\ \A t \in Task : pc[t] \in {"create", "spawn", "link"} => th[t] \in heap \ Listed
    /\ \A t \in Task : pc[t] = "link" =>
         /\ id[th[t]] \in Task \ {Main} /\ arg[id[th[t]]] = th[t]
         /\ pc[id[th[t]]] \in {"born", "enter"}
    /\ \A t \in Task : pc[t] \in {"walk", "scan", "delete"} => th[t] \in Listed \cup {Null}
    /\ \A t \in Task : pc[t] = "walk" =>
         \A n \in Listed : id[n] = t =>
             n \in From(next, IF th[t] = Null THEN thread ELSE next[th[t]])

(* The tasks on the list are alive, and every live task is on the list or  *)
(* is about to be put there.                                               *)
OwnInv ==
    /\ arg[Main] = Null
    /\ pc[Main] # "delete" =>
         \A n \in Listed \ {Entry0} : arg[id[n]] = n /\ pc[id[n]] \notin Gone
    /\ \A t \in Task \ {Main} : pc[t] \notin Gone \cup {"walk"} =>
         /\ arg[t] \in Node /\ id[arg[t]] = t
         /\ arg[t] \in Listed \/ \E c \in Task : pc[c] = "link" /\ th[c] = arg[t]
    /\ pc[Main] = "delete" =>
         \A t \in Task \ {Main} : pc[t] \notin Gone => arg[t] \in From(next, th[Main])

(* What a collection has traced.                                           *)
TraceInv ==
    /\ run_state[Entry0] = "RUNNING"
    /\ \A t \in Task \ {Main} : pc[t] \in Started => run_state[arg[t]] = "RUNNING"
    /\ \A t \in Task : pc[t] \in {"collect", "scan", "sweep"} => t \in scanned
    /\ \A t \in Task : pc[t] = "scan" =>
         /\ Listed \subseteq marked \cup From(next, th[t])
         /\ \A u \in Task : pc[u] \in {"python", "outside"} =>
              u \in scanned \/ NodeOf(u) \in From(next, th[t])
    /\ \A t \in Task : pc[t] = "sweep" =>
         /\ Listed \subseteq marked
         /\ \A u \in Task : pc[u] \in {"python", "outside"} => u \in scanned

(* The inductive invariant.                                                *)
ThreadInv == TypeOK /\ LockInv /\ ShapeInv /\ PointerInv /\ OwnInv /\ TraceInv
-----------------------------------------------------------------------------
(* The set of nodes from n on.                                             *)

Links == [Cell -> Cell \cup {Null}]

(* After is the set of nodes from n on, along next.                        *)
LEMMA AfterIsFrom ==
    ASSUME NEW n
    PROVE  After(n) = From(next, n)
BY DEF After, From, Closed

(* It has nodes only, and none from the end of the list on.                *)
LEMMA FromCells ==
    ASSUME NEW f, NEW n
    PROVE  From(f, n) \subseteq Cell
BY DEF From

(* There are none from the end of the list on.                             *)
LEMMA FromNull ==
    ASSUME NEW f
    PROVE  From(f, Null) = {}
<1>1. \A m \in From(f, Null) : m \in {}
    <2>1. {} \in SUBSET Cell
        OBVIOUS
    <2> QED
        BY <2>1 DEF From
<1> QED
    BY <1>1

(* It is the least set that has n and, with a node, the next one.          *)
LEMMA FromLeast ==
    ASSUME NEW f, NEW n, NEW S \in SUBSET Cell,
           n # Null => n \in S,
           \A x \in S : f[x] # Null => f[x] \in S
    PROVE  From(f, n) \subseteq S
BY DEF From

(* It has n.                                                               *)
LEMMA FromHead ==
    ASSUME NEW f, NEW n \in Cell
    PROVE  n \in From(f, n)
BY NodeAssumption DEF From, Cell

(* With a node it has the next one.                                        *)
LEMMA FromClosed ==
    ASSUME NEW f \in Links, NEW n, NEW m \in From(f, n), f[m] # Null
    PROVE  f[m] \in From(f, n)
<1>1. m \in Cell /\ f[m] \in Cell
    BY FromCells DEF Links
<1>2. \A S \in SUBSET Cell :
        (\A x \in S : f[x] # Null => f[x] \in S) /\ (n # Null => n \in S) => f[m] \in S
    BY DEF From
<1> QED
    BY <1>1, <1>2 DEF From

(* The nodes from a later node on are among them.                          *)
LEMMA FromTail ==
    ASSUME NEW f \in Links, NEW n, NEW m \in From(f, n) \cup {Null}
    PROVE  From(f, m) \subseteq From(f, n)
<1>1. From(f, n) \in SUBSET Cell
    BY FromCells
<1>2. \A x \in From(f, n) : f[x] # Null => f[x] \in From(f, n)
    BY FromClosed
<1> HIDE DEF From
<1> QED
    BY <1>1, <1>2, FromLeast

(* They are n and the nodes from the next one on.                          *)
LEMMA FromNext ==
    ASSUME NEW f \in Links, NEW n \in Cell
    PROVE  From(f, n) = {n} \cup From(f, f[n])
<1> DEFINE S == {n} \cup From(f, f[n])
<1>1. S \in SUBSET Cell
    BY FromCells
<1>2. \A x \in S : f[x] # Null => f[x] \in S
    <2>1. ASSUME f[n] # Null PROVE f[n] \in From(f, f[n])
        BY <2>1, FromHead DEF Links
    <2>2. \A x \in From(f, f[n]) : f[x] # Null => f[x] \in From(f, f[n])
        BY FromClosed
    <2> QED
        BY <2>1, <2>2
<1>3. From(f, n) \subseteq S
    <2>1. n \in S
        OBVIOUS
    <2> HIDE DEF S
    <2> QED
        BY <1>1, <1>2, <2>1, FromLeast
<1>4. n \in From(f, n)
    BY FromHead
<1>5. f[n] \in From(f, n) \cup {Null}
    BY <1>4, FromClosed
<1>6. From(f, f[n]) \subseteq From(f, n)
    BY <1>5, FromTail
<1> QED
    BY <1>3, <1>4, <1>6

(* It depends on the next pointers of its own nodes only.                  *)
LEMMA FromSame ==
    ASSUME NEW f \in Links, NEW g \in Links, NEW n \in Cell \cup {Null},
           \A m \in From(f, n) : g[m] = f[m]
    PROVE  From(g, n) = From(f, n)
<1>1. From(g, n) \subseteq From(f, n)
    <2>1. From(f, n) \in SUBSET Cell
        BY FromCells
    <2>2. n # Null => n \in From(f, n)
        BY FromHead
    <2>3. \A x \in From(f, n) : g[x] # Null => g[x] \in From(f, n)
        BY FromClosed
    <2> QED
        BY <2>1, <2>2, <2>3, FromLeast
<1>2. From(f, n) \subseteq From(g, n)
    <2> DEFINE S == From(f, n) \cap From(g, n)
    <2>1. S \in SUBSET Cell
        BY FromCells
    <2>2. n # Null => n \in S
        BY FromHead
    <2>3. \A x \in S : f[x] # Null => f[x] \in S
        BY FromClosed
    <2>4. From(f, n) \subseteq S
        <3> HIDE DEF S
        <3> QED
            BY <2>1, <2>2, <2>3, FromLeast
    <2> QED
        BY <2>4
<1> QED
    BY <1>1, <1>2

(* Unlinking node n, whose predecessor is p or which is the head: the list *)
(* loses n and nothing else, and no node comes to be before another.       *)
LEMMA FromUnlink ==
    ASSUME NEW f \in Links, NEW head \in Cell, NEW p \in From(f, head) \cup {Null},
           NEW n \in From(f, head), n = IF p = Null THEN head ELSE f[p],
           NEW g \in Links, g = [c \in Cell |-> IF c = p THEN f[n] ELSE f[c]],
           \A m \in From(f, head) : m \notin From(f, f[m]),
           \A m, k \in From(f, head) : f[m] = f[k] /\ f[m] # Null => m = k
    PROVE  /\ From(g, IF p = Null THEN f[n] ELSE head) = From(f, head) \ {n}
           /\ \A x \in Cell \cup {Null} : From(g, x) \subseteq From(f, x)
<1> DEFINE h == IF p = Null THEN f[n] ELSE head
           L == From(f, head)
<1>0. L \in SUBSET Cell /\ head \in L /\ n \in Cell /\ f[n] \in Cell \cup {Null}
    BY FromCells, FromHead DEF Links
<1>1. \A x \in L : f[x] # Null => f[x] \in L
    BY FromClosed
<1>2. p # Null => f[p] = n /\ p # n
    <2> SUFFICES ASSUME p # Null, p = n PROVE FALSE
        OBVIOUS
    <2>1. f[p] = p /\ p \in L
        OBVIOUS
    <2>2. p \in From(f, p)
        BY <1>0, FromHead
    <2> QED
        BY <2>1, <2>2
<1>3. f[n] # n
    BY <1>0, FromHead
<1>4. \A x \in L : f[x] = n => x = p
    <2> SUFFICES ASSUME NEW x \in L, f[x] = n PROVE x = p
        OBVIOUS
    <2>1. n # Null
        BY <1>0, NodeAssumption DEF Cell
    <2>2. CASE p = Null
        <3>1. x \in From(f, head)
            OBVIOUS
        <3> QED
            BY <2>2, <3>1
    <2>3. CASE p # Null
        BY <2>1, <2>3
    <2> QED
        BY <2>2, <2>3
<1>5. From(g, h) \subseteq L \ {n}
    <2> DEFINE S == L \ {n}
    <2>1. S \in SUBSET Cell
        BY <1>0
    <2>2. h # Null => h \in S
        <3>1. CASE p = Null
            BY <3>1, <1>0, <1>1, <1>3
        <3>2. CASE p # Null
            <4>1. head # n
                BY <3>2, <1>2
            <4> QED
                BY <3>2, <4>1, <1>0
        <3> QED
            BY <3>1, <3>2
    <2>3. \A x \in S : g[x] # Null => g[x] \in S
        BY <1>0, <1>1, <1>3, <1>4
    <2> HIDE DEF h, S
    <2>4. From(g, h) \subseteq S
        BY <2>1, <2>2, <2>3, FromLeast
    <2> QED
        BY <2>4 DEF S
<1>6. L \ {n} \subseteq From(g, h)
    <2> DEFINE G == From(g, h)
    <2>1. G \in SUBSET Cell /\ (\A x \in G : g[x] # Null => g[x] \in G)
        BY FromCells, FromClosed
    <2>2. h # Null => h \in G
        BY <1>0, FromHead
    <2>3. CASE p = Null
        <3>1. \A x \in G \cup {n} : f[x] # Null => f[x] \in G \cup {n}
            BY <2>1, <2>2, <2>3, <1>0, NodeAssumption DEF Cell
        <3>2. G \cup {n} \in SUBSET Cell /\ head \in G \cup {n}
            BY <2>1, <2>3, <1>0
        <3>3. L \subseteq G \cup {n}
            <4> HIDE DEF G
            <4> QED
                BY <3>1, <3>2, FromLeast
        <3> QED
            BY <3>3
    <2>4. CASE p # Null /\ p \in G
        <3>1. \A x \in G \cup {n} : f[x] # Null => f[x] \in G \cup {n}
            BY <2>1, <2>4, <1>0, <1>2
        <3>2. G \cup {n} \in SUBSET Cell /\ head \in G \cup {n}
            BY <2>1, <2>2, <2>4, <1>0, NodeAssumption DEF Cell
        <3>3. L \subseteq G \cup {n}
            <4> HIDE DEF G
            <4> QED
                BY <3>1, <3>2, FromLeast
        <3> QED
            BY <3>3
    <2>5. CASE p # Null /\ p \notin G
        <3>1. \A x \in G : f[x] # Null => f[x] \in G
            BY <2>1, <2>5
        <3>2. head \in G
            BY <2>2, <2>5, NodeAssumption DEF Cell
        <3>3. L \subseteq G
            <4> HIDE DEF G
            <4> QED
                BY <2>1, <3>1, <3>2, FromLeast
        <3> QED
            BY <2>5, <3>3
    <2> QED
        BY <2>3, <2>4, <2>5
<1>7. ASSUME NEW x \in Cell \cup {Null}
      PROVE  From(g, x) \subseteq From(f, x)
    <2> DEFINE S == From(f, x)
    <2>1. S \in SUBSET Cell /\ (x # Null => x \in S)
        BY FromCells, FromHead
    <2>2. \A y \in S : f[y] # Null => f[y] \in S
        BY FromClosed
    <2>3. \A y \in S : g[y] # Null => g[y] \in S
        BY <2>1, <2>2, <1>0, <1>2, NodeAssumption DEF Cell
    <2> HIDE DEF S
    <2>4. From(g, x) \subseteq S
        BY <2>1, <2>3, FromLeast
    <2> QED
        BY <2>4 DEF S
<1> QED
    BY <1>5, <1>6, <1>7
-----------------------------------------------------------------------------
(* The steps.                                                              *)

(* A task goes on to its next step, and the list, the pointers into it and *)
(* the arguments stay as they are.                                         *)
LEMMA MoveKeeps ==
    ASSUME ThreadInv, NEW t \in Task, NEW to,
           UNCHANGED <<lists, heap, arg, th>>,
           \A u \in Task : pc'[u] = IF u = t THEN to ELSE pc[u],
           pc[t] \notin {"none", "dying", "walk", "delete", "link"},
           to \notin {"none", "dying", "walk", "scan", "delete", "link"},
           to \in {"create", "spawn"} => pc[t] \in {"create", "spawn"},
           pc[t] \in {"born", "enter"} =>
               to \in {"born", "enter"} \/ \A u \in Task : pc[u] # "link"
    PROVE  ShapeInv' /\ PointerInv' /\ OwnInv'
<1>1. Listed' = Listed /\ thread' = thread /\ next' = next /\ id' = id /\ heap' = heap
      /\ arg' = arg /\ th' = th
    BY DEF Listed, lists
<1>2. ShapeInv'
    BY <1>1 DEF ThreadInv, ShapeInv
<1>3. PointerInv'
    <2>1. PointerInv
        BY DEF ThreadInv
    <2>2. ASSUME NEW u \in Task
          PROVE  /\ pc'[u] \in {"create", "spawn", "link"} => pc[u] \in {"create", "spawn", "link"}
                 /\ pc'[u] = "link" => pc[u] = "link"
                 /\ pc'[u] \in {"walk", "scan", "delete"} => pc[u] \in {"walk", "scan", "delete"}
                 /\ pc'[u] = "walk" => pc[u] = "walk"
        OBVIOUS
    <2>3. ASSUME NEW u \in Task, pc'[u] = "link"
          PROVE  /\ id[th[u]] \in Task \ {Main} /\ arg[id[th[u]]] = th[u]
                 /\ pc'[id[th[u]]] \in {"born", "enter"}
        BY <2>1, <2>2, <2>3 DEF PointerInv
    <2> QED
        BY <1>1, <2>1, <2>2, <2>3 DEF PointerInv
<1>4. OwnInv'
    <2>1. OwnInv
        BY DEF ThreadInv
    <2>2. \A u \in Task : pc'[u] \in {"none", "dying"} <=> pc[u] \in {"none", "dying"}
        OBVIOUS
    <2>3. \A u \in Task : (pc'[u] = "link" <=> pc[u] = "link") /\ (pc'[u] = "walk" <=> pc[u] = "walk")
                          /\ (pc'[u] = "delete" <=> pc[u] = "delete")
        OBVIOUS
    <2>4. \A n \in Listed : id[n] \in Task
        BY DEF ThreadInv, ShapeInv
    <2>5. Main \in Task
        BY TaskAssumption
    <2> QED
        BY <1>1, <2>1, <2>2, <2>3, <2>4, <2>5 DEF OwnInv, Gone
<1> QED
    BY <1>2, <1>3, <1>4

(* What was traced stays traced while no collection goes on.               *)
LEMMA MoveKeepsTrace ==
    ASSUME ThreadInv, NEW t \in Task, NEW to,
           UNCHANGED <<lists, arg, th, gc>>,
           \A u \in Task : pc'[u] = IF u = t THEN to ELSE pc[u],
           to \notin {"collect", "scan", "sweep"},
           to \in Started => t = Main \/ pc[t] \in Started,
           \/ to \in {"python", "outside"} => pc[t] \in {"python", "outside"}
           \/ \A u \in Task : pc[u] \notin {"scan", "sweep"}
    PROVE  TraceInv'
<1>1. Listed' = Listed /\ next' = next /\ run_state' = run_state /\ arg' = arg
      /\ th' = th /\ marked' = marked /\ scanned' = scanned
    BY DEF Listed, lists, gc
<1>2. \A u \in Task : NodeOf(u)' = NodeOf(u)
    BY <1>1 DEF NodeOf
<1>3. TraceInv
    BY DEF ThreadInv
<1>4. \A u \in Task \ {Main} : pc'[u] \in Started => pc[u] \in Started
    OBVIOUS
<1>5. \A u \in Task : /\ pc'[u] \in {"collect", "scan", "sweep"} => pc'[u] = pc[u]
                      /\ pc'[u] = "scan" => pc[u] = "scan"
                      /\ pc'[u] = "sweep" => pc[u] = "sweep"
    OBVIOUS
<1>6. ASSUME NEW u \in Task, pc'[u] \in {"scan", "sweep"}
      PROVE  \A v \in Task : pc'[v] \in {"python", "outside"} => pc[v] \in {"python", "outside"}
    BY <1>5, <1>6
<1> QED
    BY <1>1, <1>2, <1>3, <1>4, <1>5, <1>6 DEF TraceInv

(* The creator locks the list for its new node.                            *)
LEMMA LockCreateKeeps ==
    ASSUME ThreadInv, NEW t \in Task, LockCreate(t)
    PROVE  ThreadInv'
<1>1. TypeOK'
    BY TaskAssumption DEF ThreadInv, TypeOK, WithGil, WithMutex, lists, gc,
       mp_thread_mutex_lock, LockCreate, Goto
<1>2. LockInv'
    BY TaskAssumption DEF ThreadInv, TypeOK, LockInv, OneInPython, MutexComesBack,
       WithGil, WithMutex, ResetOnly, ThreadOnly, Gone, mp_thread_mutex_lock, LockCreate, Goto
<1>3. /\ t \in Task /\ pc[t] = "create"
      /\ \A u \in Task : pc'[u] = IF u = t THEN "spawn" ELSE pc[u]
      /\ UNCHANGED <<lists, heap, arg, th, gc>>
    BY TaskAssumption DEF ThreadInv, TypeOK, LockCreate, Goto
<1>4. ShapeInv' /\ PointerInv' /\ OwnInv'
    BY <1>3, MoveKeeps
<1>5. TraceInv'
    BY <1>3, MoveKeepsTrace DEF Started
<1> QED
    BY <1>1, <1>2, <1>4, <1>5 DEF ThreadInv

(* A new task sets itself up without the GIL.                              *)
LEMMA InitStateKeeps ==
    ASSUME ThreadInv, NEW t \in Task, InitState(t)
    PROVE  ThreadInv'
<1>1. TypeOK'
    BY TaskAssumption DEF ThreadInv, TypeOK, WithGil, WithMutex, lists, gc,
       mp_thread_mutex_lock, InitState, Goto
<1>2. LockInv'
    BY TaskAssumption DEF ThreadInv, TypeOK, LockInv, OneInPython, MutexComesBack,
       WithGil, WithMutex, ResetOnly, ThreadOnly, Gone, mp_thread_mutex_lock, InitState, Goto
<1>3. /\ t \in Task /\ pc[t] = "born"
      /\ \A u \in Task : pc'[u] = IF u = t THEN "enter" ELSE pc[u]
      /\ UNCHANGED <<lists, heap, arg, th, gc>>
    BY TaskAssumption DEF ThreadInv, TypeOK, InitState, Goto
<1>4. ShapeInv' /\ PointerInv' /\ OwnInv'
    BY <1>3, MoveKeeps
<1>5. TraceInv'
    BY <1>3, MoveKeepsTrace DEF Started
<1> QED
    BY <1>1, <1>2, <1>4, <1>5 DEF ThreadInv

(* A new task locks the list to find its node.                             *)
LEMMA LockStartKeeps ==
    ASSUME ThreadInv, NEW t \in Task, LockStart(t)
    PROVE  ThreadInv'
<1>1. TypeOK'
    BY TaskAssumption DEF ThreadInv, TypeOK, WithGil, WithMutex, lists, gc,
       mp_thread_mutex_lock, LockStart, Goto
<1>2. LockInv'
    BY TaskAssumption DEF ThreadInv, TypeOK, LockInv, OneInPython, MutexComesBack,
       WithGil, WithMutex, ResetOnly, ThreadOnly, Gone, mp_thread_mutex_lock, LockStart, Goto
<1>3. /\ t \in Task /\ pc[t] = "start"
      /\ \A u \in Task : pc'[u] = IF u = t THEN "starting" ELSE pc[u]
      /\ UNCHANGED <<lists, heap, arg, th, gc>>
    BY TaskAssumption DEF ThreadInv, TypeOK, LockStart, Goto
<1>4. ShapeInv' /\ PointerInv' /\ OwnInv'
    BY <1>3, MoveKeeps
<1>5. TraceInv'
    BY <1>3, MoveKeepsTrace DEF Started
<1> QED
    BY <1>1, <1>2, <1>4, <1>5 DEF ThreadInv

(* The GIL is released, by a task in Python code.                          *)
LEMMA GilExitKeeps ==
    ASSUME ThreadInv, NEW t \in Task, GilExit(t)
    PROVE  ThreadInv'
<1>1. TypeOK'
    BY TaskAssumption DEF ThreadInv, TypeOK, WithGil, WithMutex, lists, gc,
       mp_thread_mutex_lock, GilExit, Goto
<1>2. LockInv'
    BY TaskAssumption DEF ThreadInv, TypeOK, LockInv, OneInPython, MutexComesBack,
       WithGil, WithMutex, ResetOnly, ThreadOnly, Gone, mp_thread_mutex_lock, GilExit, Goto
<1>3. /\ t \in Task /\ pc[t] = "python"
      /\ \A u \in Task : pc'[u] = IF u = t THEN "outside" ELSE pc[u]
      /\ UNCHANGED <<lists, heap, arg, th, gc>>
    BY TaskAssumption DEF ThreadInv, TypeOK, GilExit, Goto
<1>4. ShapeInv' /\ PointerInv' /\ OwnInv'
    BY <1>3, MoveKeeps
<1>5. TraceInv'
    BY <1>3, MoveKeepsTrace DEF Started
<1> QED
    BY <1>1, <1>2, <1>4, <1>5 DEF ThreadInv

(* The thread's function returns.                                          *)
LEMMA ThreadReturnsKeeps ==
    ASSUME ThreadInv, NEW t \in Task, ThreadReturns(t)
    PROVE  ThreadInv'
<1>1. TypeOK'
    BY TaskAssumption DEF ThreadInv, TypeOK, WithGil, WithMutex, lists, gc,
       mp_thread_mutex_lock, ThreadReturns, Goto
<1>2. LockInv'
    BY TaskAssumption, ZenonT(30) DEF ThreadInv, TypeOK, LockInv, OneInPython, MutexComesBack,
       WithGil, WithMutex, ResetOnly, ThreadOnly, Gone, mp_thread_mutex_lock, ThreadReturns, Goto
<1>3. /\ t \in Task /\ pc[t] = "python"
      /\ \A u \in Task : pc'[u] = IF u = t THEN "finish" ELSE pc[u]
      /\ UNCHANGED <<lists, heap, arg, th, gc>>
    BY TaskAssumption DEF ThreadInv, TypeOK, ThreadReturns, Goto
<1>4. ShapeInv' /\ PointerInv' /\ OwnInv'
    BY <1>3, MoveKeeps
<1>5. TraceInv'
    BY <1>3, MoveKeepsTrace DEF Started
<1> QED
    BY <1>1, <1>2, <1>4, <1>5 DEF ThreadInv

(* It locks the list to mark its node.                                     *)
LEMMA LockFinishKeeps ==
    ASSUME ThreadInv, NEW t \in Task, LockFinish(t)
    PROVE  ThreadInv'
<1>1. TypeOK'
    BY TaskAssumption DEF ThreadInv, TypeOK, WithGil, WithMutex, lists, gc,
       mp_thread_mutex_lock, LockFinish, Goto
<1>2. LockInv'
    BY TaskAssumption DEF ThreadInv, TypeOK, LockInv, OneInPython, MutexComesBack,
       WithGil, WithMutex, ResetOnly, ThreadOnly, Gone, mp_thread_mutex_lock, LockFinish, Goto
<1>3. /\ t \in Task /\ pc[t] = "finish"
      /\ \A u \in Task : pc'[u] = IF u = t THEN "finishing" ELSE pc[u]
      /\ UNCHANGED <<lists, heap, arg, th, gc>>
    BY TaskAssumption DEF ThreadInv, TypeOK, LockFinish, Goto
<1>4. ShapeInv' /\ PointerInv' /\ OwnInv'
    BY <1>3, MoveKeeps
<1>5. TraceInv'
    BY <1>3, MoveKeepsTrace DEF Started
<1> QED
    BY <1>1, <1>2, <1>4, <1>5 DEF ThreadInv

(* It leaves Python for good.                                              *)
LEMMA ExitGilKeeps ==
    ASSUME ThreadInv, NEW t \in Task, ExitGil(t)
    PROVE  ThreadInv'
<1>1. TypeOK'
    BY TaskAssumption DEF ThreadInv, TypeOK, WithGil, WithMutex, lists, gc,
       mp_thread_mutex_lock, ExitGil, Goto
<1>2. LockInv'
    BY TaskAssumption DEF ThreadInv, TypeOK, LockInv, OneInPython, MutexComesBack,
       WithGil, WithMutex, ResetOnly, ThreadOnly, Gone, mp_thread_mutex_lock, ExitGil, Goto
<1>3. /\ t \in Task /\ pc[t] = "exit"
      /\ \A u \in Task : pc'[u] = IF u = t THEN "remove" ELSE pc[u]
      /\ UNCHANGED <<lists, heap, arg, th, gc>>
    BY TaskAssumption DEF ThreadInv, TypeOK, ExitGil, Goto
<1>4. ShapeInv' /\ PointerInv' /\ OwnInv'
    BY <1>3, MoveKeeps
<1>5. TraceInv'
    BY <1>3, MoveKeepsTrace DEF Started
<1> QED
    BY <1>1, <1>2, <1>4, <1>5 DEF ThreadInv

(* The main task begins a soft reset.                                      *)
LEMMA SoftResetKeeps ==
    ASSUME ThreadInv, SoftReset
    PROVE  ThreadInv'
<1>1. TypeOK'
    BY TaskAssumption DEF ThreadInv, TypeOK, WithGil, WithMutex, lists, gc,
       mp_thread_mutex_lock, SoftReset, Goto
<1>2. LockInv'
    BY TaskAssumption DEF ThreadInv, TypeOK, LockInv, OneInPython, MutexComesBack,
       WithGil, WithMutex, ResetOnly, ThreadOnly, Gone, mp_thread_mutex_lock, SoftReset, Goto
<1>3. /\ Main \in Task /\ pc[Main] = "python"
      /\ \A u \in Task : pc'[u] = IF u = Main THEN "deinit" ELSE pc[u]
      /\ UNCHANGED <<lists, heap, arg, th, gc>>
    BY TaskAssumption DEF ThreadInv, TypeOK, SoftReset, Goto
<1>4. ShapeInv' /\ PointerInv' /\ OwnInv'
    BY <1>3, MoveKeeps
<1>5. TraceInv'
    BY <1>3, MoveKeepsTrace DEF Started
<1> QED
    BY <1>1, <1>2, <1>4, <1>5 DEF ThreadInv

(* mp_deinit releases the GIL.                                             *)
LEMMA mp_deinitKeeps ==
    ASSUME ThreadInv, mp_deinit
    PROVE  ThreadInv'
<1>1. TypeOK'
    BY TaskAssumption DEF ThreadInv, TypeOK, WithGil, WithMutex, lists, gc,
       mp_thread_mutex_lock, mp_deinit, Goto
<1>2. LockInv'
    BY TaskAssumption DEF ThreadInv, TypeOK, LockInv, OneInPython, MutexComesBack,
       WithGil, WithMutex, ResetOnly, ThreadOnly, Gone, mp_thread_mutex_lock, mp_deinit, Goto
<1>3. /\ Main \in Task /\ pc[Main] = "reset"
      /\ \A u \in Task : pc'[u] = IF u = Main THEN "boot" ELSE pc[u]
      /\ UNCHANGED <<lists, heap, arg, th, gc>>
    BY TaskAssumption DEF ThreadInv, TypeOK, mp_deinit, Goto
<1>4. ShapeInv' /\ PointerInv' /\ OwnInv'
    BY <1>3, MoveKeeps
<1>5. TraceInv'
    BY <1>3, MoveKeepsTrace DEF Started
<1> QED
    BY <1>1, <1>2, <1>4, <1>5 DEF ThreadInv

(* The GIL is free and is taken: nobody was in Python code.                *)
LEMMA GilEnterKeeps ==
    ASSUME ThreadInv, NEW t \in Task, GilEnter(t)
    PROVE  ThreadInv'
<1> DEFINE to == IF pc[t] = "enter" THEN "start" ELSE "python"
<1>1. TypeOK'
    BY DEF ThreadInv, TypeOK, WithGil, WithMutex, lists, gc, GilEnter, Goto
<1>2. /\ pc[t] \in {"enter", "outside"} /\ (pc[t] = "outside" => to = "python")
      /\ to \in {"start", "python"} /\ (to = "python" => pc[t] = "outside")
      /\ \A u \in Task : pc'[u] = IF u = t THEN to ELSE pc[u]
      /\ UNCHANGED <<lists, heap, arg, th, gc, mutex>>
      /\ gil = Null /\ gil' = t
    BY DEF ThreadInv, TypeOK, GilEnter, Goto
<1>3. \A u \in Task : pc[u] \notin WithGil
    BY <1>2, TaskAssumption DEF ThreadInv, LockInv, OneInPython
<1> HIDE DEF to
<1>4. LockInv'
    <2>1. OneInPython'
        BY <1>2, <1>3 DEF OneInPython
    <2>2. \A u \in Task : (pc'[u] \in WithMutex <=> pc[u] \in WithMutex)
        BY <1>2 DEF WithMutex
    <2>3. (\A u \in Task : pc[u] \in WithMutex => mutex = u)' /\ MutexComesBack'
        BY <1>2, <2>2, TaskAssumption DEF ThreadInv, LockInv, MutexComesBack, TypeOK
    <2>4. /\ \A u \in Task \ {Main} : pc'[u] \notin ResetOnly
          /\ pc'[Main] \notin ThreadOnly
          /\ pc'[Main] \in {"sweep all", "reset", "boot"} => \A u \in Task \ {Main} : pc'[u] \in Gone
        BY <1>2, TaskAssumption DEF ThreadInv, LockInv, ResetOnly, ThreadOnly, Gone
    <2> QED
        BY <2>1, <2>3, <2>4 DEF LockInv
<1>5. ShapeInv' /\ PointerInv' /\ OwnInv'
    BY <1>2, <1>3, MoveKeeps DEF WithGil
<1>6. TraceInv'
    BY <1>2, <1>3, MoveKeepsTrace DEF Started, WithGil
<1> QED
    BY <1>1, <1>4, <1>5, <1>6 DEF ThreadInv

(* mp_init makes the GIL anew: no task is left that held the old one.      *)
LEMMA mp_initKeeps ==
    ASSUME ThreadInv, mp_init
    PROVE  ThreadInv'
<1>1. TypeOK'
    BY TaskAssumption DEF ThreadInv, TypeOK, WithGil, WithMutex, lists, gc,
       mp_init, Goto
<1>2. LockInv'
    BY TaskAssumption DEF ThreadInv, TypeOK, LockInv, OneInPython, MutexComesBack,
       WithGil, WithMutex, ResetOnly, ThreadOnly, Gone, mp_init, Goto
<1>3. /\ Main \in Task /\ pc[Main] = "boot"
      /\ \A u \in Task : pc'[u] = IF u = Main THEN "python" ELSE pc[u]
      /\ UNCHANGED <<lists, heap, arg, th, gc>>
    BY TaskAssumption DEF ThreadInv, TypeOK, mp_init, Goto
<1>4. ShapeInv' /\ PointerInv' /\ OwnInv'
    BY <1>3, MoveKeeps
<1>5. \A u \in Task : pc[u] \notin {"scan", "sweep"}
    BY <1>3 DEF ThreadInv, LockInv, Gone
<1>6. TraceInv'
    BY <1>3, <1>5, MoveKeepsTrace
<1> QED
    BY <1>1, <1>2, <1>4, <1>6 DEF ThreadInv

(* A collection begins.                                                    *)
LEMMA gc_collectKeeps ==
    ASSUME ThreadInv, NEW t \in Task, gc_collect(t)
    PROVE  ThreadInv'
<1>1. TypeOK'
    BY DEF ThreadInv, TypeOK, WithGil, WithMutex, lists, gc_collect, Goto
<1>2. LockInv'
    BY TaskAssumption DEF ThreadInv, TypeOK, LockInv, OneInPython, MutexComesBack,
       WithGil, WithMutex, ResetOnly, ThreadOnly, Gone, gc_collect, Goto
<1>3. /\ pc[t] = "python"
      /\ \A u \in Task : pc'[u] = IF u = t THEN "collect" ELSE pc[u]
      /\ UNCHANGED <<lists, heap, arg, th>>
    BY DEF ThreadInv, TypeOK, gc_collect, Goto
<1>4. ShapeInv' /\ PointerInv' /\ OwnInv'
    BY <1>3, MoveKeeps
<1>5. TraceInv'
    BY DEF ThreadInv, TypeOK, LockInv, OneInPython, WithGil, WithMutex,
       TraceInv, Started, lists, gc_collect, Goto
<1> QED
    BY <1>1, <1>2, <1>4, <1>5 DEF ThreadInv

(* A thread that ends, a collection and a soft reset lock the list to walk *)
(* it: nobody else is inside of it.                                        *)
LEMMA LockRemoveKeeps ==
    ASSUME ThreadInv, NEW t \in Task, LockRemove(t)
    PROVE  ThreadInv'
<1>1. TypeOK'
    BY DEF ThreadInv, TypeOK, WithGil, WithMutex, lists, gc, LockRemove, Goto, mp_thread_mutex_lock
<1>2. LockInv'
    BY TaskAssumption DEF ThreadInv, TypeOK, LockInv, OneInPython, MutexComesBack,
       WithGil, WithMutex, ResetOnly, ThreadOnly, Gone, LockRemove, Goto, mp_thread_mutex_lock
<1>3. /\ pc[t] = "remove" /\ t # Main
      /\ \A u \in Task : pc'[u] = IF u = t THEN "walk" ELSE pc[u]
      /\ \A u \in Task : th'[u] = IF u = t THEN Null ELSE th[u]
      /\ UNCHANGED <<lists, heap, arg, gc>>
      /\ Listed' = Listed
    BY DEF ThreadInv, TypeOK, LockInv, ThreadOnly, LockRemove, Goto, Listed, lists
<1>4. ShapeInv'
    BY <1>3 DEF ThreadInv, ShapeInv, lists
<1>5. PointerInv'
    BY <1>3, TaskAssumption DEF ThreadInv, PointerInv, lists, Listed
<1>6. OwnInv'
    <2>1. \A n \in Listed : id[n] \in Task
        BY DEF ThreadInv, ShapeInv
    <2>2. /\ arg'[Main] = Null
          /\ pc'[Main] # "delete" => pc[Main] # "delete"
          /\ pc'[Main] = "delete" => pc[Main] = "delete"
          /\ th'[Main] = th[Main]
        BY <1>3, TaskAssumption DEF ThreadInv, OwnInv
    <2>3. \A u \in Task \ {Main} : pc'[u] \notin Gone \cup {"walk"} => pc[u] \notin Gone \cup {"walk"}
        BY <1>3 DEF Gone
    <2>4. \A u \in Task : pc'[u] \in Gone <=> pc[u] \in Gone
        BY <1>3 DEF Gone
    <2>5. \A c \in Task : pc[c] = "link" => pc'[c] = "link" /\ th'[c] = th[c]
        BY <1>3
    <2> QED
        BY <1>3, <2>1, <2>2, <2>3, <2>4, <2>5 DEF ThreadInv, OwnInv, lists
<1>7. TraceInv'
    <2>1. \A u \in Task : NodeOf(u)' = NodeOf(u)
        BY <1>3 DEF NodeOf
    <2> QED
        BY <1>3, <2>1 DEF ThreadInv, TraceInv, Started, lists, gc
<1> QED
    BY <1>1, <1>2, <1>4, <1>5, <1>6, <1>7 DEF ThreadInv

(* A collection starts with the whole list before it.                      *)
LEMMA LockOthersKeeps ==
    ASSUME ThreadInv, NEW t \in Task, LockOthers(t)
    PROVE  ThreadInv'
<1>1. TypeOK'
    BY DEF ThreadInv, TypeOK, WithGil, WithMutex, lists, gc, LockOthers, Goto, mp_thread_mutex_lock
<1>2. LockInv'
    BY TaskAssumption DEF ThreadInv, TypeOK, LockInv, OneInPython, MutexComesBack,
       WithGil, WithMutex, ResetOnly, ThreadOnly, Gone, LockOthers, Goto, mp_thread_mutex_lock
<1>3. /\ pc[t] = "collect"
      /\ \A u \in Task : pc'[u] = IF u = t THEN "scan" ELSE pc[u]
      /\ \A u \in Task : th'[u] = IF u = t THEN thread ELSE th[u]
      /\ UNCHANGED <<lists, heap, arg, gc>>
      /\ Listed' = Listed /\ thread \in Cell
    BY DEF ThreadInv, TypeOK, LockOthers, Goto, Listed, lists
<1>a. \A u \in Task : pc[u] \in WithGil => u = t
    BY <1>3, TaskAssumption DEF ThreadInv, LockInv, OneInPython, WithGil
<1>4. ShapeInv'
    BY <1>3 DEF ThreadInv, ShapeInv, lists
<1>5. PointerInv'
    <2>1. thread \in Listed
        BY <1>3, FromHead DEF Listed
    <2> QED
        BY <1>3, <2>1, TaskAssumption DEF ThreadInv, PointerInv, lists
<1>6. OwnInv'
    <2>1. \A n \in Listed : id[n] \in Task
        BY DEF ThreadInv, ShapeInv
    <2>2. /\ arg'[Main] = Null
          /\ pc[Main] # "delete" /\ pc'[Main] # "delete"
        <3>1. arg[Main] = Null
            BY DEF ThreadInv, OwnInv
        <3> QED
            BY <1>3, <1>a, <3>1, TaskAssumption DEF WithGil
    <2>3. \A u \in Task \ {Main} : pc'[u] \notin Gone \cup {"walk"} => pc[u] \notin Gone \cup {"walk"}
        BY <1>3 DEF Gone
    <2>4. \A u \in Task : pc'[u] \in Gone <=> pc[u] \in Gone
        BY <1>3 DEF Gone
    <2>5. \A c \in Task : pc[c] = "link" => pc'[c] = "link" /\ th'[c] = th[c]
        BY <1>3
    <2> QED
        BY <1>3, <2>1, <2>2, <2>3, <2>4, <2>5 DEF ThreadInv, OwnInv, lists
<1>7. TraceInv'
    <2>1. \A u \in Task : pc[u] = "outside" => NodeOf(u)' \in Listed
        <3>1. \A c \in Task : pc[c] # "link"
            BY <1>3, <1>a DEF WithGil
        <3>2. Entry0 \in Listed
            BY DEF ThreadInv, ShapeInv
        <3>3. \A u \in Task \ {Main} : pc[u] = "outside" => arg[u] \in Listed
            BY <3>1 DEF ThreadInv, OwnInv, Gone
        <3> QED
            BY <1>3, <3>2, <3>3 DEF NodeOf
    <2>2. \A u \in Task : pc'[u] = "scan" => u = t
        BY <1>3, <1>a DEF WithGil
    <2>3. \A u \in Task : pc'[u] # "sweep" /\ pc'[u] # "python"
        BY <1>3, <1>a DEF WithGil
    <2>4. From(next, th[t])' = Listed
        BY <1>3 DEF Listed, lists
    <2>5. (\A u \in Task \ {Main} : pc[u] \in Started => run_state[arg[u]] = "RUNNING")'
        BY <1>3 DEF ThreadInv, TraceInv, Started, lists
    <2>6. (\A u \in Task : pc[u] \in {"collect", "scan", "sweep"} => u \in scanned)'
        BY <1>3 DEF ThreadInv, TraceInv, gc
    <2>7. (\A u \in Task : pc[u] = "scan" =>
             /\ Listed \subseteq marked \cup From(next, th[u])
             /\ \A v \in Task : pc[v] \in {"python", "outside"} =>
                  v \in scanned \/ NodeOf(v) \in From(next, th[u]))'
        BY <1>3, <2>1, <2>2, <2>3, <2>4
    <2> QED
        BY <1>3, <2>3, <2>5, <2>6, <2>7 DEF ThreadInv, TraceInv, lists
<1> QED
    BY <1>1, <1>2, <1>4, <1>5, <1>6, <1>7 DEF ThreadInv

(* A soft reset starts with the whole list before it.                      *)
LEMMA LockDeinitKeeps ==
    ASSUME ThreadInv, LockDeinit
    PROVE  ThreadInv'
<1>1. TypeOK'
    BY TaskAssumption DEF ThreadInv, TypeOK, WithGil, WithMutex, lists, gc,
       LockDeinit, Goto, mp_thread_mutex_lock
<1>2. LockInv'
    BY TaskAssumption DEF ThreadInv, TypeOK, LockInv, OneInPython, MutexComesBack,
       WithGil, WithMutex, ResetOnly, ThreadOnly, Gone, LockDeinit, Goto, mp_thread_mutex_lock
<1>3. /\ Main \in Task /\ pc[Main] = "deinit" /\ mutex = Null
      /\ \A u \in Task : pc'[u] = IF u = Main THEN "delete" ELSE pc[u]
      /\ \A u \in Task : th'[u] = IF u = Main THEN thread ELSE th[u]
      /\ UNCHANGED <<lists, heap, arg, gc>>
      /\ Listed' = Listed /\ thread \in Cell
    BY TaskAssumption DEF ThreadInv, TypeOK, LockDeinit, Goto, Listed, lists, mp_thread_mutex_lock
<1>a. \A u \in Task : /\ pc[u] \in WithGil => u = Main
                      /\ pc[u] \notin WithMutex
    BY <1>3, TaskAssumption DEF ThreadInv, LockInv, OneInPython, WithGil
<1>4. ShapeInv'
    BY <1>3 DEF ThreadInv, ShapeInv, lists
<1>5. PointerInv'
    <2>1. thread \in Listed
        BY <1>3, FromHead DEF Listed
    <2> QED
        BY <1>3, <2>1, TaskAssumption DEF ThreadInv, PointerInv, lists
<1>6. OwnInv'
    <2>1. \A u \in Task \ {Main} : pc'[u] \notin Gone =>
              arg[u] \in Node /\ id[arg[u]] = u /\ arg[u] \in Listed
        BY <1>3, <1>a DEF ThreadInv, OwnInv, WithMutex
    <2>2. From(next, th[Main])' = Listed
        BY <1>3 DEF Listed, lists
    <2>3. arg'[Main] = Null /\ pc'[Main] = "delete"
        BY <1>3, TaskAssumption DEF ThreadInv, OwnInv
    <2> QED
        BY <1>3, <2>1, <2>2, <2>3 DEF OwnInv, lists
<1>7. TraceInv'
    <2>1. \A u \in Task : pc'[u] \notin {"collect", "scan", "sweep"}
        BY <1>3, <1>a DEF WithGil
    <2> QED
        BY <1>3, <2>1 DEF ThreadInv, TraceInv, Started, lists, gc
<1> QED
    BY <1>1, <1>2, <1>4, <1>5, <1>6, <1>7 DEF ThreadInv

(* vTaskDelete: a task that has taken itself off the list is gone.         *)
LEMMA DieKeeps ==
    ASSUME ThreadInv, NEW t \in Task, Die(t)
    PROVE  ThreadInv'
<1>1. TypeOK'
    BY DEF ThreadInv, TypeOK, WithGil, WithMutex, lists, gc, Die, Goto
<1>2. LockInv'
    BY TaskAssumption DEF ThreadInv, TypeOK, LockInv, OneInPython, MutexComesBack,
       WithGil, WithMutex, ResetOnly, ThreadOnly, Gone, Die, Goto
<1>3. /\ pc[t] = "dying" /\ t # Main
      /\ \A u \in Task : pc'[u] = IF u = t THEN "none" ELSE pc[u]
      /\ \A u \in Task : arg'[u] = IF u = t THEN Null ELSE arg[u]
      /\ UNCHANGED <<lists, heap, th, gc>>
      /\ Listed' = Listed
    BY DEF ThreadInv, TypeOK, LockInv, ThreadOnly, Die, Goto, Listed, lists
<1>4. ShapeInv'
    BY <1>3 DEF ThreadInv, ShapeInv, lists
<1>5. PointerInv'
    BY <1>3, TaskAssumption DEF ThreadInv, PointerInv, lists
<1>6. OwnInv'
    <2>1. \A n \in Listed : id[n] \in Task
        BY DEF ThreadInv, ShapeInv
    <2>2. /\ arg'[Main] = Null
          /\ pc'[Main] # "delete" => pc[Main] # "delete"
          /\ pc'[Main] = "delete" => pc[Main] = "delete"
          /\ th'[Main] = th[Main]
        BY <1>3, TaskAssumption DEF ThreadInv, OwnInv
    <2>3. \A u \in Task : pc'[u] \notin Gone => pc[u] \notin Gone /\ u # t
        BY <1>3 DEF Gone
    <2>4. \A u \in Task : pc[u] \notin Gone => pc'[u] \notin Gone /\ u # t
        BY <1>3 DEF Gone
    <2>5. \A c \in Task : pc[c] = "link" => pc'[c] = "link" /\ th'[c] = th[c]
        BY <1>3
    <2> QED
        BY <1>3, <2>1, <2>2, <2>3, <2>4, <2>5 DEF ThreadInv, OwnInv, lists
<1>7. TraceInv'
    <2>1. \A u \in Task : pc[u] # "dying" => NodeOf(u)' = NodeOf(u)
        BY <1>3 DEF NodeOf
    <2> QED
        BY <1>3, <2>1 DEF ThreadInv, TraceInv, Started, lists, gc
<1> QED
    BY <1>1, <1>2, <1>4, <1>5, <1>6, <1>7 DEF ThreadInv

(* mp_thread_create_ex: until it is linked, the node is the creator's.     *)
LEMMA NewNodeKeeps ==
    ASSUME ThreadInv, NEW t \in Task, NEW n \in Node, NewNode(t, n)
    PROVE  ThreadInv'
<1>1. TypeOK'
    BY DEF ThreadInv, TypeOK, WithGil, WithMutex, lists, gc, NewNode, Goto, Cell
<1>2. LockInv'
    BY TaskAssumption DEF ThreadInv, TypeOK, LockInv, OneInPython, MutexComesBack,
       WithGil, WithMutex, ResetOnly, ThreadOnly, Gone, NewNode, Goto
<1>3. /\ pc[t] = "python" /\ n \notin heap /\ heap' = heap \cup {n}
      /\ \A u \in Task : pc'[u] = IF u = t THEN "create" ELSE pc[u]
      /\ \A u \in Task : th'[u] = IF u = t THEN n ELSE th[u]
      /\ UNCHANGED <<lists, arg, gc>>
      /\ Listed' = Listed
    BY DEF ThreadInv, TypeOK, NewNode, Goto, Listed, lists
<1>a. \A u \in Task : pc[u] \in WithGil => u = t
    BY <1>3, TaskAssumption DEF ThreadInv, LockInv, OneInPython, WithGil
<1>4. ShapeInv'
    BY <1>3 DEF ThreadInv, ShapeInv, lists
<1>5. PointerInv'
    <2>1. n \notin Listed
        BY <1>3, NodeAssumption DEF ThreadInv, ShapeInv
    <2>2. \A u \in Task : pc'[u] = "walk" => pc[u] = "walk" /\ th'[u] = th[u]
        BY <1>3
    <2> QED
        BY <1>3, <2>1, <2>2, TaskAssumption DEF ThreadInv, PointerInv, lists
<1>6. OwnInv'
    <2>1. \A m \in Listed : id[m] \in Task
        BY DEF ThreadInv, ShapeInv
    <2>2. /\ arg'[Main] = Null
          /\ pc[Main] # "delete" /\ pc'[Main] # "delete"
        <3>1. arg[Main] = Null
            BY DEF ThreadInv, OwnInv
        <3> QED
            BY <1>3, <1>a, <3>1, TaskAssumption DEF WithGil
    <2>3. \A u \in Task \ {Main} : pc'[u] \notin Gone \cup {"walk"} => pc[u] \notin Gone \cup {"walk"}
        BY <1>3 DEF Gone
    <2>4. \A u \in Task : pc'[u] \in Gone <=> pc[u] \in Gone
        BY <1>3 DEF Gone
    <2>5. \A c \in Task : pc[c] = "link" => pc'[c] = "link" /\ th'[c] = th[c]
        BY <1>3
    <2> QED
        BY <1>3, <2>1, <2>2, <2>3, <2>4, <2>5 DEF ThreadInv, OwnInv, lists
<1>7. TraceInv'
    <2>1. \A u \in Task : pc'[u] \notin {"collect", "scan", "sweep"}
        BY <1>3, <1>a DEF WithGil
    <2> QED
        BY <1>3, <2>1 DEF ThreadInv, TraceInv, Started, lists, gc
<1> QED
    BY <1>1, <1>2, <1>4, <1>5, <1>6, <1>7 DEF ThreadInv

(* The new task has the node that its creator is about to link.            *)
LEMMA SpawnKeeps ==
    ASSUME ThreadInv, NEW t \in Task, NEW s \in Task, Spawn(t, s)
    PROVE  ThreadInv'
<1>1. TypeOK'
    <2>1. th[t] \in Node
        BY DEF ThreadInv, TypeOK, PointerInv, Spawn
    <2> QED
        BY <2>1 DEF ThreadInv, TypeOK, WithGil, WithMutex, lists, gc, Spawn, Cell
<1>2. LockInv'
    BY TaskAssumption, ZenonT(30) DEF ThreadInv, TypeOK, LockInv, OneInPython, MutexComesBack,
       WithGil, WithMutex, ResetOnly, ThreadOnly, Gone, Spawn
<1>3. /\ pc[t] = "spawn" /\ pc[s] = "none" /\ s # Main /\ s # t
      /\ \A u \in Task : pc'[u] = IF u = s THEN "born" ELSE IF u = t THEN "link" ELSE pc[u]
      /\ \A m \in Cell : id'[m] = IF m = th[t] THEN s ELSE id[m]
      /\ \A u \in Task : arg'[u] = IF u = s THEN th[t] ELSE arg[u]
      /\ thread' = thread /\ next' = next /\ run_state' = run_state
      /\ UNCHANGED <<heap, th, gc>>
      /\ Listed' = Listed
    BY DEF ThreadInv, TypeOK, LockInv, ThreadOnly, Spawn, Listed
<1>a. \A u \in Task : pc[u] \in WithGil => u = t
    BY <1>3, TaskAssumption DEF ThreadInv, LockInv, OneInPython, WithGil
<1>b. th[t] \in Node /\ th[t] \notin Listed /\ th[t] \in heap
    BY <1>3 DEF ThreadInv, TypeOK, PointerInv
<1>c. Listed \subseteq Cell /\ Node \subseteq Cell /\ Entry0 \in Cell
    BY FromCells DEF Listed, Cell
<1>d. \A m \in Listed : id'[m] = id[m] /\ id[m] \in Task
    BY <1>3, <1>b, <1>c DEF ThreadInv, ShapeInv
<1>4. ShapeInv'
    <2>1. (\A m \in Node : id[m] # Main)'
        BY <1>3, <1>c DEF ThreadInv, ShapeInv
    <2> QED
        BY <1>3, <1>d, <2>1 DEF ThreadInv, ShapeInv
<1>5. PointerInv'
    <2>1. \A u \in Task : /\ pc'[u] \in {"create", "spawn", "link"} => u = t
                          /\ pc'[u] \in {"walk", "scan", "delete"} => pc[u] \in {"walk", "scan", "delete"}
                          /\ pc'[u] = "walk" => pc[u] = "walk"
        BY <1>3, <1>a DEF WithGil
    <2>2. id'[th[t]] = s /\ arg'[s] = th[t] /\ pc'[s] = "born"
        BY <1>3, <1>b, <1>c
    <2> QED
        BY <1>3, <1>b, <1>d, <2>1, <2>2 DEF ThreadInv, PointerInv
<1>6. OwnInv'
    <2>1. arg'[Main] = Null /\ pc[Main] # "delete" /\ pc'[Main] # "delete"
        <3>1. arg[Main] = Null
            BY DEF ThreadInv, OwnInv
        <3> QED
            BY <1>3, <1>a, <3>1, TaskAssumption DEF WithGil
    <2>2. \A m \in Listed \ {Entry0} : arg'[id'[m]] = m /\ pc'[id'[m]] \notin Gone
        <3>1. \A m \in Listed \ {Entry0} : arg[id[m]] = m /\ pc[id[m]] \notin Gone
            BY <2>1 DEF ThreadInv, OwnInv
        <3> QED
            BY <1>3, <1>d, <3>1 DEF Gone
    <2>3. ASSUME NEW u \in Task \ {Main}, pc'[u] \notin Gone \cup {"walk"}
          PROVE  /\ arg'[u] \in Node /\ id'[arg'[u]] = u
                 /\ arg'[u] \in Listed \/ \E c \in Task : pc'[c] = "link" /\ th[c] = arg'[u]
        <3>1. CASE u = s
            <4>1. arg'[u] = th[t] /\ id'[th[t]] = s /\ pc'[t] = "link"
                BY <1>3, <1>b, <1>c, <3>1
            <4> QED
                BY <4>1, <1>b, <3>1
        <3>2. CASE u # s
            <4>1. pc[u] \notin Gone \cup {"walk"} /\ arg'[u] = arg[u]
                BY <1>3, <2>3, <3>2 DEF Gone
            <4>2. arg[u] \in Node /\ id[arg[u]] = u /\ arg[u] \in Listed
                BY <4>1, <1>3, <1>a, ZenonT(30) DEF ThreadInv, OwnInv, WithGil
            <4> QED
                BY <4>1, <4>2, <1>d
        <3> QED
            BY <3>1, <3>2
    <2> QED
        BY <1>3, <2>1, <2>2, <2>3 DEF OwnInv
<1>7. TraceInv'
    <2>1. \A u \in Task : pc'[u] \notin {"collect", "scan", "sweep"}
        BY <1>3, <1>a DEF WithGil
    <2>2. \A u \in Task \ {Main} : pc'[u] \in Started => pc[u] \in Started /\ arg'[u] = arg[u]
        BY <1>3 DEF Started
    <2> QED
        BY <1>3, <2>1, <2>2 DEF ThreadInv, TraceInv, gc
<1> QED
    BY <1>1, <1>2, <1>4, <1>5, <1>6, <1>7 DEF ThreadInv

(* No task: the node is garbage.                                           *)
LEMMA SpawnFailsKeeps ==
    ASSUME ThreadInv, NEW t \in Task, SpawnFails(t)
    PROVE  ThreadInv'
<1>1. TypeOK'
    BY DEF ThreadInv, TypeOK, WithGil, WithMutex, lists, gc, SpawnFails, Goto, mp_thread_mutex_unlock
<1>2. LockInv'
    BY TaskAssumption DEF ThreadInv, TypeOK, LockInv, OneInPython, MutexComesBack,
       WithGil, WithMutex, ResetOnly, ThreadOnly, Gone, SpawnFails, Goto, mp_thread_mutex_unlock
<1>3. /\ pc[t] = "spawn"
      /\ \A u \in Task : pc'[u] = IF u = t THEN "python" ELSE pc[u]
      /\ \A u \in Task : th'[u] = IF u = t THEN Null ELSE th[u]
      /\ UNCHANGED <<lists, heap, arg, gc>>
      /\ Listed' = Listed
    BY DEF ThreadInv, TypeOK, SpawnFails, Goto, Listed, lists
<1>a. \A u \in Task : pc[u] \in WithGil => u = t
    BY <1>3, TaskAssumption DEF ThreadInv, LockInv, OneInPython, WithGil
<1>4. ShapeInv'
    BY <1>3 DEF ThreadInv, ShapeInv, lists
<1>5. PointerInv'
    BY <1>3, TaskAssumption DEF ThreadInv, PointerInv, lists
<1>6. OwnInv'
    <2>1. \A m \in Listed : id[m] \in Task
        BY DEF ThreadInv, ShapeInv
    <2>2. /\ arg'[Main] = Null
          /\ pc[Main] # "delete" /\ pc'[Main] # "delete"
        <3>1. arg[Main] = Null
            BY DEF ThreadInv, OwnInv
        <3> QED
            BY <1>3, <1>a, <3>1, TaskAssumption DEF WithGil
    <2>3. \A u \in Task \ {Main} : pc'[u] \notin Gone \cup {"walk"} => pc[u] \notin Gone \cup {"walk"}
        BY <1>3 DEF Gone
    <2>4. \A u \in Task : pc'[u] \in Gone <=> pc[u] \in Gone
        BY <1>3 DEF Gone
    <2>5. \A c \in Task : pc[c] = "link" => pc'[c] = "link" /\ th'[c] = th[c]
        BY <1>3
    <2> QED
        BY <1>3, <2>1, <2>2, <2>3, <2>4, <2>5 DEF ThreadInv, OwnInv, lists
<1>7. TraceInv'
    <2>1. \A u \in Task : pc'[u] \notin {"collect", "scan", "sweep"}
        BY <1>3, <1>a DEF WithGil
    <2> QED
        BY <1>3, <2>1 DEF ThreadInv, TraceInv, Started, lists, gc
<1> QED
    BY <1>1, <1>2, <1>4, <1>5, <1>6, <1>7 DEF ThreadInv

(* The node of the new task becomes the head of the list.                  *)
LEMMA LinkKeeps ==
    ASSUME ThreadInv, NEW t \in Task, Link(t)
    PROVE  ThreadInv'
<1> DEFINE h == th[t]
           s == id[h]
<1>3. /\ pc[t] = "link" /\ h \in Node /\ h \in heap /\ h \notin Listed /\ h \in Cell
      /\ s \in Task /\ s # Main /\ arg[s] = h /\ pc[s] \in {"born", "enter"}
      /\ \A u \in Task : pc'[u] = IF u = t THEN "python" ELSE pc[u]
      /\ \A u \in Task : th'[u] = IF u = t THEN Null ELSE th[u]
      /\ \A m \in Cell : next'[m] = IF m = h THEN thread ELSE next[m]
      /\ \A m \in Cell : run_state'[m] = IF m = h THEN "NEW" ELSE run_state[m]
      /\ thread' = h /\ thread \in Cell
      /\ UNCHANGED <<gil, id, heap, arg, gc>>
    BY DEF ThreadInv, TypeOK, PointerInv, Link, Goto, Cell
<1>1. TypeOK'
    BY <1>3 DEF ThreadInv, TypeOK, WithGil, WithMutex, gc, Link, Goto, mp_thread_mutex_unlock
<1>2. LockInv'
    BY TaskAssumption DEF ThreadInv, TypeOK, LockInv, OneInPython, MutexComesBack,
       WithGil, WithMutex, ResetOnly, ThreadOnly, Gone, Link, Goto, mp_thread_mutex_unlock
<1>a. \A u \in Task : pc[u] \in WithGil \cup WithMutex => u = t
    BY <1>3, TaskAssumption DEF ThreadInv, LockInv, OneInPython, WithGil, WithMutex
<1>b. next \in Links /\ next' \in Links
    BY <1>1 DEF ThreadInv, TypeOK, Links
<1>c. Listed \subseteq Cell
    BY FromCells DEF Listed
<1>d. \A m \in Listed \cup {Null} : From(next', m) = From(next, m)
    <2> SUFFICES ASSUME NEW m \in Listed \cup {Null} PROVE From(next', m) = From(next, m)
        OBVIOUS
    <2>1. From(next, m) \subseteq Listed
        BY <1>b, FromTail DEF Listed
    <2>2. \A x \in From(next, m) : next'[x] = next[x]
        BY <2>1, <1>3, <1>c
    <2>3. m \in Cell \cup {Null}
        BY <1>c
    <2> QED
        BY <1>b, <2>2, <2>3, FromSame
<1>e. thread \in Listed
    BY <1>3, FromHead DEF Listed
<1>f. Listed' = {h} \cup Listed
    <2>1. Listed' = {h} \cup From(next', next'[h])
        BY <1>b, <1>3, FromNext DEF Listed
    <2>2. next'[h] = thread
        BY <1>3
    <2>3. From(next', thread) = Listed
        BY <1>d, <1>e DEF Listed
    <2> QED
        BY <2>1, <2>2, <2>3
<1>g. \A m \in Listed : next'[m] = next[m] /\ m # h
    BY <1>3, <1>c
<1>h. pc[Main] # "delete" /\ pc'[Main] # "delete"
    BY <1>3, <1>a, TaskAssumption DEF WithGil
<1>i. \A m \in Listed \ {Entry0} : arg[id[m]] = m /\ pc[id[m]] \notin Gone
    BY <1>h DEF ThreadInv, OwnInv
<1>j. \A m \in Listed : id[m] # s
    <2>1. id[Entry0] = Main
        BY DEF ThreadInv, ShapeInv
    <2> QED
        BY <1>i, <1>3, <1>g, <2>1
<1>k. \A u \in Task : pc'[u] = IF u = t THEN "python" ELSE pc[u]
    BY <1>3
<1> HIDE DEF h, s
<1>4. ShapeInv'
    <2>0. ShapeInv /\ id' = id /\ heap' = heap
        BY <1>3 DEF ThreadInv
    <2>1. (Entry0 \in Listed /\ next[Entry0] = Null /\ id[Entry0] = Main)'
        BY <2>0, <1>f, <1>g DEF ShapeInv
    <2>2. (Listed \subseteq heap \cup {Entry0})'
        BY <2>0, <1>f, <1>3 DEF ShapeInv
    <2>3. (\A m \in Listed : next[m] = Null => m = Entry0)'
        <3>1. next'[h] = thread /\ thread # Null
            BY <1>3, NodeAssumption DEF Cell
        <3> QED
            BY <2>0, <1>f, <1>g, <3>1 DEF ShapeInv
    <2>4. (\A m \in Listed : m \notin From(next, next[m]))'
        <3>1. h \notin From(next', next'[h])
            BY <1>3, <1>d, <1>e DEF Listed
        <3>2. ASSUME NEW m \in Listed PROVE m \notin From(next', next'[m])
            <4>1. next'[m] = next[m] /\ next[m] \in Listed \cup {Null}
                BY <1>b, <1>g, FromClosed DEF Listed
            <4> QED
                BY <4>1, <1>d, <2>0 DEF ShapeInv
        <3> QED
            BY <3>1, <3>2, <1>f
    <2>5. (\A m, k \in Listed : next[m] = next[k] /\ next[m] # Null => m = k)'
        <3>1. ASSUME NEW m \in Listed PROVE next[m] # thread
            BY <3>1, <2>0 DEF ShapeInv, Listed
        <3>2. next'[h] = thread
            BY <1>3
        <3> QED
            BY <2>0, <1>f, <1>g, <3>1, <3>2 DEF ShapeInv
    <2>6. (\A m \in Listed : id[m] \in Task)' /\ (\A m, k \in Listed : id[m] = id[k] => m = k)'
        BY <2>0, <1>f, <1>j, <1>3 DEF ShapeInv, s
    <2> QED
        BY <2>0, <2>1, <2>2, <2>3, <2>4, <2>5, <2>6 DEF ShapeInv
<1>5. PointerInv'
    <2>1. \A u \in Task : pc'[u] \notin {"create", "spawn", "link", "walk", "scan", "delete"}
        BY <1>k, <1>a DEF WithGil, WithMutex
    <2> QED
        BY <2>1 DEF PointerInv
<1>6. OwnInv'
    <2>0. OwnInv /\ arg' = arg /\ id' = id
        BY <1>3 DEF ThreadInv
    <2>1. \A u \in Task : pc'[u] \in Gone <=> pc[u] \in Gone
        BY <1>3 DEF Gone
    <2>2. \A m \in Listed : id[m] \in Task
        BY DEF ThreadInv, ShapeInv
    <2>3. \A m \in Listed' \ {Entry0} : arg[id[m]] = m /\ pc'[id[m]] \notin Gone
        BY <1>f, <1>i, <1>3, <2>1, <2>2 DEF s, Gone
    <2>4. ASSUME NEW u \in Task \ {Main}, pc'[u] \notin Gone \cup {"walk"}
          PROVE  arg[u] \in Node /\ id[arg[u]] = u /\ arg[u] \in Listed'
        <3>1. pc[u] \notin Gone \cup {"walk"}
            BY <1>3, <2>4 DEF Gone
        <3>2. \A c \in Task : pc[c] = "link" => th[c] = h
            BY <1>a DEF WithGil, h
        <3> QED
            BY <2>0, <3>1, <3>2, <1>f DEF OwnInv
    <2> QED
        BY <2>0, <2>3, <2>4, <1>h DEF OwnInv
<1>7. TraceInv'
    <2>0. TraceInv /\ arg' = arg
        BY <1>3 DEF ThreadInv
    <2>1. \A u \in Task : pc'[u] \notin {"collect", "scan", "sweep"}
        BY <1>k, <1>a DEF WithGil
    <2>2. run_state'[Entry0] = "RUNNING"
        BY <2>0, <1>3, NodeAssumption DEF TraceInv, Cell
    <2>3. ASSUME NEW u \in Task \ {Main}, pc'[u] \in Started PROVE run_state'[arg[u]] = "RUNNING"
        <3>1. pc[u] \in Started /\ u # s
            BY <1>3, <2>3 DEF Started
        <3>2. arg[u] \in Node /\ id[arg[u]] = u
            BY <3>1 DEF ThreadInv, OwnInv, Started, Gone
        <3>3. arg[u] # h /\ arg[u] \in Cell
            BY <3>1, <3>2 DEF s, Cell
        <3> QED
            BY <2>0, <3>1, <3>3, <1>3 DEF TraceInv
    <2> QED
        BY <2>0, <2>1, <2>2, <2>3 DEF TraceInv
<1> QED
    BY <1>1, <1>2, <1>4, <1>5, <1>6, <1>7 DEF ThreadInv

(* mp_thread_start and mp_thread_finish mark the task's own node only.     *)
LEMMA mp_thread_startKeeps ==
    ASSUME ThreadInv, NEW t \in Task, mp_thread_start(t)
    PROVE  ThreadInv'
<1>1. TypeOK'
    BY DEF ThreadInv, TypeOK, WithGil, WithMutex, gc, mp_thread_start, Goto, mp_thread_mutex_unlock
<1>2. LockInv'
    BY TaskAssumption DEF ThreadInv, TypeOK, LockInv, OneInPython, MutexComesBack,
       WithGil, WithMutex, ResetOnly, ThreadOnly, Gone, mp_thread_start, Goto, mp_thread_mutex_unlock
<1>3. /\ pc[t] = "starting" /\ t # Main
      /\ \A u \in Task : pc'[u] = IF u = t THEN "python" ELSE pc[u]
      /\ \A m \in Cell : run_state'[m] = IF m \in Listed /\ id[m] = t THEN "RUNNING" ELSE run_state[m]
      /\ UNCHANGED <<thread, next, id, heap, arg, th, gc>>
      /\ Listed' = Listed
    BY AfterIsFrom DEF ThreadInv, TypeOK, LockInv, ThreadOnly, mp_thread_start, Goto, Listed
<1>a. \A u \in Task : pc[u] \in WithGil \cup WithMutex => u = t
    BY <1>3, TaskAssumption DEF ThreadInv, LockInv, OneInPython, WithGil, WithMutex
<1>b. pc[Main] # "delete" /\ pc'[Main] # "delete"
    BY <1>3, <1>a, TaskAssumption DEF WithGil
<1>4. ShapeInv'
    BY <1>3 DEF ThreadInv, ShapeInv
<1>5. PointerInv'
    <2>1. \A u \in Task : pc'[u] \notin {"create", "spawn", "link", "walk", "scan", "delete"}
        BY <1>3, <1>a DEF WithGil, WithMutex
    <2> QED
        BY <2>1 DEF PointerInv
<1>6. OwnInv'
    <2>1. \A m \in Listed : id[m] \in Task
        BY DEF ThreadInv, ShapeInv
    <2>2. \A u \in Task : pc'[u] \in Gone <=> pc[u] \in Gone
        BY <1>3 DEF Gone
    <2>3. \A u \in Task \ {Main} : pc'[u] \notin Gone \cup {"walk"} => pc[u] \notin Gone \cup {"walk"}
        BY <1>3 DEF Gone
    <2>4. \A c \in Task : pc[c] # "link"
        BY <1>3, <1>a DEF WithGil
    <2> QED
        BY <1>3, <1>b, <2>1, <2>2, <2>3, <2>4 DEF ThreadInv, OwnInv
<1>7. TraceInv'
    <2>0. TraceInv
        BY DEF ThreadInv
    <2>1. \A u \in Task : pc'[u] \notin {"collect", "scan", "sweep"}
        BY <1>3, <1>a DEF WithGil
    <2>2. run_state'[Entry0] = "RUNNING"
        BY <2>0, <1>3 DEF TraceInv, Cell
    <2>3. ASSUME NEW u \in Task \ {Main}, pc'[u] \in Started PROVE run_state'[arg[u]] = "RUNNING"
        <3>1. arg[u] \in Cell /\ id[arg[u]] = u /\ arg[u] \in Listed
            BY <1>3, <1>a, <2>3, ZenonT(30) DEF ThreadInv, OwnInv, Started, Gone, WithGil, Cell
        <3> QED
            BY <1>3, <2>0, <2>3, <3>1 DEF TraceInv, Started
    <2> QED
        BY <1>3, <2>1, <2>2, <2>3 DEF TraceInv
<1> QED
    BY <1>1, <1>2, <1>4, <1>5, <1>6, <1>7 DEF ThreadInv

(* A thread that ends is no longer traced.                                 *)
LEMMA mp_thread_finishKeeps ==
    ASSUME ThreadInv, NEW t \in Task, mp_thread_finish(t)
    PROVE  ThreadInv'
<1>1. TypeOK'
    BY DEF ThreadInv, TypeOK, WithGil, WithMutex, gc, mp_thread_finish, Goto, mp_thread_mutex_unlock
<1>2. LockInv'
    BY TaskAssumption DEF ThreadInv, TypeOK, LockInv, OneInPython, MutexComesBack,
       WithGil, WithMutex, ResetOnly, ThreadOnly, Gone, mp_thread_finish, Goto, mp_thread_mutex_unlock
<1>3. /\ pc[t] = "finishing" /\ t # Main
      /\ \A u \in Task : pc'[u] = IF u = t THEN "exit" ELSE pc[u]
      /\ \A m \in Cell : run_state'[m] = IF m \in Listed /\ id[m] = t THEN "FINISHED" ELSE run_state[m]
      /\ UNCHANGED <<thread, next, id, heap, arg, th, gc>>
      /\ Listed' = Listed
    BY AfterIsFrom DEF ThreadInv, TypeOK, LockInv, ThreadOnly, mp_thread_finish, Goto, Listed
<1>a. \A u \in Task : pc[u] \in WithGil \cup WithMutex => u = t
    BY <1>3, TaskAssumption DEF ThreadInv, LockInv, OneInPython, WithGil, WithMutex
<1>b. pc[Main] # "delete" /\ pc'[Main] # "delete"
    BY <1>3, <1>a, TaskAssumption DEF WithGil
<1>4. ShapeInv'
    BY <1>3 DEF ThreadInv, ShapeInv
<1>5. PointerInv'
    <2>1. \A u \in Task : pc'[u] \notin {"create", "spawn", "link", "walk", "scan", "delete"}
        BY <1>3, <1>a DEF WithGil, WithMutex
    <2> QED
        BY <2>1 DEF PointerInv
<1>6. OwnInv'
    <2>1. \A m \in Listed : id[m] \in Task
        BY DEF ThreadInv, ShapeInv
    <2>2. \A u \in Task : pc'[u] \in Gone <=> pc[u] \in Gone
        BY <1>3 DEF Gone
    <2>3. \A u \in Task \ {Main} : pc'[u] \notin Gone \cup {"walk"} => pc[u] \notin Gone \cup {"walk"}
        BY <1>3 DEF Gone
    <2>4. \A c \in Task : pc[c] # "link"
        BY <1>3, <1>a DEF WithGil
    <2> QED
        BY <1>3, <1>b, <2>1, <2>2, <2>3, <2>4 DEF ThreadInv, OwnInv
<1>7. TraceInv'
    <2>0. TraceInv
        BY DEF ThreadInv
    <2>1. \A u \in Task : pc'[u] \notin {"collect", "scan", "sweep"}
        BY <1>3, <1>a DEF WithGil
    <2>2. run_state'[Entry0] = "RUNNING"
        <3>1. id[Entry0] = Main
            BY DEF ThreadInv, ShapeInv
        <3> QED
            BY <2>0, <3>1, <1>3 DEF TraceInv, Cell
    <2>3. ASSUME NEW u \in Task \ {Main}, pc'[u] \in Started PROVE run_state'[arg[u]] = "RUNNING"
        <3>1. pc[u] \in Started /\ u # t
            BY <1>3, <2>3 DEF Started
        <3>2. arg[u] \in Cell /\ id[arg[u]] = u
            BY <3>1 DEF ThreadInv, OwnInv, Started, Gone, Cell
        <3> QED
            BY <1>3, <2>0, <3>1, <3>2 DEF TraceInv
    <2> QED
        BY <1>3, <2>1, <2>2, <2>3 DEF TraceInv
<1> QED
    BY <1>1, <1>2, <1>4, <1>5, <1>6, <1>7 DEF ThreadInv

(* A thread that ends walks the list.                                      *)
Walker(t) ==
    /\ t # Main /\ pc[t] = "walk"
    /\ \A u \in Task : pc[u] \in WithMutex => u = t
    /\ pc[Main] # "delete"

(* It is alone with the list.                                              *)
LEMMA WalkerAlone ==
    ASSUME ThreadInv, NEW t \in Task, pc[t] = "walk"
    PROVE  Walker(t)
BY TaskAssumption DEF ThreadInv, LockInv, WithMutex, ThreadOnly, Walker

(* At the end of the list it has been found, and the task may be deleted.  *)
LEMMA WalkEndKeeps ==
    ASSUME ThreadInv, NEW t \in Task, Walker(t), th[t] # Null, next[th[t]] = Null,
           pc' = [pc EXCEPT ![t] = "dying"], mutex' = Null,
           th' = [th EXCEPT ![t] = Null],
           UNCHANGED <<gil, lists, heap, arg, gc>>
    PROVE  ThreadInv'
<1>1. TypeOK'
    BY DEF ThreadInv, TypeOK, WithGil, WithMutex, lists, gc
<1>2. LockInv'
    BY TaskAssumption DEF ThreadInv, TypeOK, LockInv, OneInPython, MutexComesBack,
       WithGil, WithMutex, ResetOnly, ThreadOnly, Gone, Walker
<1>3. /\ \A u \in Task : pc'[u] = IF u = t THEN "dying" ELSE pc[u]
      /\ \A u \in Task : th'[u] = IF u = t THEN Null ELSE th[u]
      /\ UNCHANGED <<lists, heap, arg, gc>>
      /\ Listed' = Listed
    BY DEF ThreadInv, TypeOK, Listed, lists
<1>4. ShapeInv'
    BY <1>3 DEF ThreadInv, ShapeInv, lists
<1>5. PointerInv'
    <2>1. \A u \in Task : pc'[u] \in {"create", "spawn", "link", "walk", "scan", "delete"} =>
              u # t /\ pc'[u] = pc[u] /\ th'[u] = th[u]
        BY <1>3
    <2>2. \A u \in Task : pc[u] \in {"born", "enter"} => pc'[u] = pc[u]
        BY <1>3 DEF Walker
    <2> QED
        BY <1>3, <2>1, <2>2 DEF ThreadInv, PointerInv, lists
<1>6. OwnInv'
    <2>0. \A m \in Listed : id[m] \in Task
        BY DEF ThreadInv, ShapeInv
    <2>1. \A m \in Listed : id[m] # t
        BY FromNull DEF ThreadInv, PointerInv, Walker
    <2>2. arg'[Main] = Null /\ pc'[Main] # "delete"
        BY <1>3, TaskAssumption DEF ThreadInv, OwnInv, Walker
    <2>3. \A m \in Listed \ {Entry0} : arg'[id'[m]] = m /\ pc'[id'[m]] \notin Gone
        BY <1>3, <2>0, <2>1 DEF ThreadInv, OwnInv, Walker, lists
    <2>4. \A u \in Task \ {Main} : pc'[u] \notin Gone \cup {"walk"} => pc[u] \notin Gone \cup {"walk"}
        BY <1>3 DEF Gone
    <2>5. \A c \in Task : pc[c] = "link" => pc'[c] = "link" /\ th'[c] = th[c]
        BY <1>3 DEF Walker
    <2> QED
        BY <1>3, <2>2, <2>3, <2>4, <2>5 DEF ThreadInv, OwnInv, lists
<1>7. TraceInv'
    <2>1. \A u \in Task : NodeOf(u)' = NodeOf(u)
        BY <1>3 DEF NodeOf
    <2> QED
        BY <1>3, <2>1 DEF ThreadInv, TraceInv, Started, lists, gc
<1> QED
    BY <1>1, <1>2, <1>4, <1>5, <1>6, <1>7 DEF ThreadInv

(* Past another task's node.                                               *)
LEMMA WalkPastKeeps ==
    ASSUME ThreadInv, NEW t \in Task, Walker(t),
           NEW n, n = IF th[t] = Null THEN thread ELSE next[th[t]], n # Null, id[n] # t,
           th' = [th EXCEPT ![t] = n],
           UNCHANGED <<gil, mutex, lists, heap, pc, arg, gc>>
    PROVE  ThreadInv'
<1>a. n \in Listed /\ n \in Cell /\ next \in Links
    <2>1. next \in Links /\ thread \in Cell
        BY DEF ThreadInv, TypeOK, Links
    <2>2. thread \in Listed
        BY <2>1, FromHead DEF Listed
    <2>3. th[t] # Null => th[t] \in Listed
        BY DEF ThreadInv, PointerInv, Walker
    <2>4. n \in Listed
        BY <2>1, <2>2, <2>3, FromClosed DEF Listed
    <2> QED
        BY <2>1, <2>4, FromCells DEF Listed
<1>1. TypeOK'
    BY <1>a DEF ThreadInv, TypeOK, lists, gc
<1>2. LockInv'
    BY DEF ThreadInv, LockInv, OneInPython, MutexComesBack
<1>3. /\ \A u \in Task : th'[u] = IF u = t THEN n ELSE th[u]
      /\ UNCHANGED <<lists, heap, pc, arg, gc>>
      /\ Listed' = Listed
    BY DEF ThreadInv, TypeOK, Listed, lists
<1>4. ShapeInv'
    BY <1>3 DEF ThreadInv, ShapeInv, lists
<1>5. PointerInv'
    <2>1. \A m \in Listed : id[m] = t => m \in From(next, next[n])
        <3>1. From(next, n) = {n} \cup From(next, next[n])
            BY <1>a, FromNext
        <3> QED
            BY <3>1 DEF ThreadInv, PointerInv, Walker
    <2>2. n # Null
        OBVIOUS
    <2>3. \A u \in Task : pc[u] \in {"walk", "scan", "delete"} => u = t
        BY DEF Walker, WithMutex
    <2>4. (\A u \in Task : pc[u] = "walk" =>
             \A m \in Listed : id[m] = u =>
                 m \in From(next, IF th[u] = Null THEN thread ELSE next[th[u]]))'
        BY <1>3, <2>1, <2>2, <2>3 DEF lists
    <2>5. (\A u \in Task : pc[u] \in {"create", "spawn", "link"} => th[u] \in heap \ Listed)'
        BY <1>3 DEF ThreadInv, PointerInv, Walker, lists
    <2>6. (\A u \in Task : pc[u] = "link" =>
             /\ id[th[u]] \in Task \ {Main} /\ arg[id[th[u]]] = th[u]
             /\ pc[id[th[u]]] \in {"born", "enter"})'
        BY <1>3 DEF ThreadInv, PointerInv, Walker, lists
    <2>7. (\A u \in Task : pc[u] \in {"walk", "scan", "delete"} => th[u] \in Listed \cup {Null})'
        BY <1>3, <1>a, <2>3
    <2> QED
        BY <2>4, <2>5, <2>6, <2>7 DEF PointerInv
<1>6. OwnInv'
    <2>1. \A c \in Task : pc[c] = "link" => pc'[c] = "link" /\ th'[c] = th[c]
        BY <1>3 DEF Walker
    <2> QED
        BY <1>3, <2>1 DEF ThreadInv, OwnInv, Walker, lists
<1>7. TraceInv'
    <2>1. \A u \in Task : NodeOf(u)' = NodeOf(u)
        BY <1>3 DEF NodeOf
    <2>2. \A u \in Task : pc[u] = "scan" => th'[u] = th[u]
        BY <1>3 DEF Walker
    <2> QED
        BY <1>3, <2>1, <2>2 DEF ThreadInv, TraceInv, Started, lists, gc
<1> QED
    BY <1>1, <1>2, <1>4, <1>5, <1>6, <1>7 DEF ThreadInv

(* Its own node is unlinked; there is a node after it to go on with.       *)
LEMMA WalkUnlinkKeeps ==
    ASSUME ThreadInv, NEW t \in Task, Walker(t),
           NEW n, n = IF th[t] = Null THEN thread ELSE next[th[t]], n # Null, id[n] = t,
           thread' = IF th[t] = Null THEN next[n] ELSE thread,
           next' = [c \in Cell |-> IF c = th[t] THEN next[n] ELSE next[c]],
           th' = [th EXCEPT ![t] = next[n]],
           pc' = IF next[n] = Null THEN [pc EXCEPT ![t] = "crash"] ELSE pc,
           UNCHANGED <<gil, mutex, id, run_state, heap, arg, gc>>
    PROVE  ThreadInv'
<1> DEFINE p == th[t]
<1>a. n \in Listed /\ n \in Cell /\ next \in Links /\ p \in Listed \cup {Null} /\ thread \in Cell
    <2>1. next \in Links /\ thread \in Cell
        BY DEF ThreadInv, TypeOK, Links
    <2>2. thread \in Listed
        BY <2>1, FromHead DEF Listed
    <2>3. p \in Listed \cup {Null}
        BY DEF ThreadInv, PointerInv, Walker
    <2>4. n \in Listed
        BY <2>1, <2>2, <2>3, FromClosed DEF Listed
    <2> QED
        BY <2>1, <2>3, <2>4, FromCells DEF Listed
<1>b. n # Entry0 /\ next[n] # Null /\ next[n] \in Listed /\ next[n] \in Cell /\ next[n] # n
    <2>1. n # Entry0
        BY DEF ThreadInv, ShapeInv, Walker
    <2>2. next[n] # Null
        BY <1>a, <2>1 DEF ThreadInv, ShapeInv
    <2>3. next[n] \in Cell
        BY <1>a, <2>2 DEF Links
    <2>4. next[n] \in Listed
        BY <1>a, <2>2, FromClosed DEF Listed
    <2>5. next[n] # n
        BY <1>a, <2>3, FromHead DEF ThreadInv, ShapeInv
    <2> QED
        BY <2>1, <2>2, <2>3, <2>4, <2>5
<1>1. TypeOK'
    BY <1>a, <1>b DEF ThreadInv, TypeOK, gc
<1>3. /\ pc' = pc /\ id' = id /\ heap' = heap /\ arg' = arg /\ run_state' = run_state
      /\ marked' = marked /\ scanned' = scanned
      /\ \A u \in Task : th'[u] = IF u = t THEN next[n] ELSE th[u]
      /\ next' \in Links
    BY <1>1, <1>b DEF ThreadInv, TypeOK, Links, gc
<1>2. LockInv'
    BY <1>3 DEF ThreadInv, LockInv, OneInPython, MutexComesBack
<1>c. /\ Listed' = Listed \ {n}
      /\ \A x \in Cell \cup {Null} : From(next', x) \subseteq From(next, x)
    <2>1. /\ \A m \in Listed : m \notin From(next, next[m])
          /\ \A m, k \in Listed : next[m] = next[k] /\ next[m] # Null => m = k
        BY DEF ThreadInv, ShapeInv
    <2>2. thread' = (IF p = Null THEN next[n] ELSE thread)
        OBVIOUS
    <2>3. /\ From(next', IF p = Null THEN next[n] ELSE thread) = From(next, thread) \ {n}
          /\ \A x \in Cell \cup {Null} : From(next', x) \subseteq From(next, x)
        BY <1>a, <1>3, <2>1, FromUnlink, SMTT(30) DEF Listed
    <2> QED
        BY <2>2, <2>3 DEF Listed
<1>d. /\ Listed \subseteq Cell
      /\ \A m \in Cell : m # p => next'[m] = next[m]
      /\ p # Null => p \in Listed /\ p \in Cell /\ next[p] = n /\ next'[p] = next[n]
      /\ Null \notin Cell
    BY <1>a, FromCells, NodeAssumption DEF Listed, Cell
<1>e. Entry0 # p /\ Entry0 \in Listed /\ next[Entry0] = Null
    BY <1>d DEF ThreadInv, ShapeInv
<1> HIDE DEF p
<1>4. ShapeInv'
    <2>0. ShapeInv
        BY DEF ThreadInv
    <2>1. (Entry0 \in Listed /\ next[Entry0] = Null /\ id[Entry0] = Main)'
        BY <2>0, <1>b, <1>c, <1>d, <1>e, <1>3 DEF ShapeInv
    <2>2. (Listed \subseteq heap \cup {Entry0})' /\ (\A m \in Node : id[m] # Main)'
        BY <2>0, <1>c, <1>3 DEF ShapeInv
    <2>3. (\A m \in Listed : next[m] = Null => m = Entry0)'
        BY <2>0, <1>b, <1>c, <1>d DEF ShapeInv
    <2>4. ASSUME NEW m \in Listed' PROVE m \notin From(next', next'[m])
        <3>1. m \in Listed /\ m \in Cell /\ m # n
            BY <1>c, <1>d
        <3>2. next'[m] \in Cell \cup {Null}
            BY <3>1, <1>3 DEF Links
        <3>3. m \notin From(next, next[m])
            BY <3>1, <2>0 DEF ShapeInv
        <3>4. CASE m = p
            <4>1. next[m] = n /\ next'[m] = next[n]
                BY <3>4, <3>1, <1>d
            <4>2. From(next, next[n]) \subseteq From(next, n)
                BY <1>a, FromNext
            <4> QED
                BY <3>2, <3>3, <4>1, <4>2, <1>c
        <3>5. CASE m # p
            BY <3>1, <3>2, <3>3, <3>5, <1>c, <1>d
        <3> QED
            BY <3>4, <3>5
    <2>5. (\A m, k \in Listed : next[m] = next[k] /\ next[m] # Null => m = k)'
        <3> SUFFICES ASSUME NEW m \in Listed', NEW k \in Listed', next'[m] = next'[k], next'[m] # Null
                     PROVE  m = k
            OBVIOUS
        <3>1. m \in Listed /\ k \in Listed /\ m \in Cell /\ k \in Cell /\ m # n /\ k # n
            BY <1>c, <1>d
        <3>2. \A x, y \in Listed : next[x] = next[y] /\ next[x] # Null => x = y
            BY <2>0 DEF ShapeInv
        <3>3. CASE m # p /\ k # p
            BY <3>1, <3>2, <3>3, <1>d
        <3>4. CASE m = p /\ k # p
            BY <3>1, <3>2, <3>4, <1>a, <1>b, <1>d
        <3>5. CASE k = p /\ m # p
            BY <3>1, <3>2, <3>5, <1>a, <1>b, <1>d
        <3> QED
            BY <3>3, <3>4, <3>5
    <2>6. (\A m \in Listed : id[m] \in Task)' /\ (\A m, k \in Listed : id[m] = id[k] => m = k)'
        BY <2>0, <1>c, <1>3 DEF ShapeInv
    <2> QED
        BY <2>1, <2>2, <2>3, <2>4, <2>5, <2>6 DEF ShapeInv
<1>5. PointerInv'
    <2>1. \A u \in Task : pc[u] \in {"walk", "scan", "delete"} => u = t
        BY DEF Walker, WithMutex
    <2>2. \A m \in Listed' : id[m] # t
        BY <1>a, <1>c DEF ThreadInv, ShapeInv
    <2>3. (\A u \in Task : pc[u] = "walk" =>
             \A m \in Listed : id[m] = u =>
                 m \in From(next, IF th[u] = Null THEN thread ELSE next[th[u]]))'
        BY <1>3, <2>1, <2>2
    <2>4. (\A u \in Task : pc[u] \in {"walk", "scan", "delete"} => th[u] \in Listed \cup {Null})'
        BY <1>3, <1>b, <1>c, <2>1
    <2>5. (\A u \in Task : pc[u] \in {"create", "spawn", "link"} => th[u] \in heap \ Listed)'
        BY <1>3, <1>c DEF ThreadInv, PointerInv, Walker
    <2>6. (\A u \in Task : pc[u] = "link" =>
             /\ id[th[u]] \in Task \ {Main} /\ arg[id[th[u]]] = th[u]
             /\ pc[id[th[u]]] \in {"born", "enter"})'
        BY <1>3 DEF ThreadInv, PointerInv, Walker
    <2> QED
        BY <2>3, <2>4, <2>5, <2>6 DEF PointerInv
<1>6. OwnInv'
    <2>0. OwnInv
        BY DEF ThreadInv
    <2>1. \A c \in Task : pc[c] = "link" => pc'[c] = "link" /\ th'[c] = th[c]
        BY <1>3 DEF Walker
    <2>2. \A u \in Task : id[arg[u]] = u /\ arg[u] \in Listed /\ u # t => arg[u] \in Listed'
        BY <1>c
    <2>3. \A u \in Task : pc[u] # "walk" => u # t
        BY DEF Walker
    <2> QED
        BY <1>3, <1>c, <2>0, <2>1, <2>2, <2>3 DEF OwnInv, Walker
<1>7. TraceInv'
    <2>1. \A u \in Task : pc[u] # "scan"
        BY DEF Walker, WithMutex
    <2> QED
        BY <1>3, <1>c, <2>1 DEF ThreadInv, TraceInv, Started
<1> QED
    BY <1>1, <1>2, <1>4, <1>5, <1>6, <1>7 DEF ThreadInv

(* One round of the loop of freertos_entry.                                *)
LEMMA WalkKeeps ==
    ASSUME ThreadInv, NEW t \in Task, Walk(t)
    PROVE  ThreadInv'
<1> DEFINE n == IF th[t] = Null THEN thread ELSE next[th[t]]
<1>1. Walker(t)
    BY WalkerAlone DEF Walk
<1>2. thread # Null
    BY NodeAssumption DEF ThreadInv, TypeOK, Cell
<1>3. CASE n = Null
    <2>1. th[t] # Null /\ next[th[t]] = Null
        BY <1>2, <1>3
    <2> QED
        BY <1>1, <1>3, <2>1, WalkEndKeeps DEF Walk, mp_thread_mutex_unlock, lists
<1>4. CASE n # Null /\ id[n] # t
    <2>1. th' = [th EXCEPT ![t] = n] /\ UNCHANGED <<gil, mutex, lists, heap, pc, arg, gc>>
        BY <1>4 DEF Walk, lists
    <2> HIDE DEF n
    <2>2. n = IF th[t] = Null THEN thread ELSE next[th[t]]
        BY DEF n
    <2> QED
        BY <1>1, <1>4, <2>1, <2>2, WalkPastKeeps
<1>5. CASE n # Null /\ id[n] = t
    <2>1. /\ thread' = IF th[t] = Null THEN next[n] ELSE thread
          /\ next' = [c \in Cell |-> IF c = th[t] THEN next[n] ELSE next[c]]
          /\ th' = [th EXCEPT ![t] = next[n]]
          /\ pc' = IF next[n] = Null THEN [pc EXCEPT ![t] = "crash"] ELSE pc
          /\ UNCHANGED <<gil, mutex, id, run_state, heap, arg, gc>>
        BY <1>5 DEF Walk
    <2> HIDE DEF n
    <2>2. n = IF th[t] = Null THEN thread ELSE next[th[t]]
        BY DEF n
    <2> QED
        BY <1>1, <1>5, <2>1, <2>2, WalkUnlinkKeeps
<1> QED
    BY <1>3, <1>4, <1>5

(* A collection traces the list from its position on; the stacks of those  *)
(* that it has passed are traced, when they run.                           *)
LEMMA mp_thread_gc_othersKeeps ==
    ASSUME ThreadInv, NEW t \in Task, mp_thread_gc_others(t)
    PROVE  ThreadInv'
<1>a. \A u \in Task : pc[u] \in WithGil \cup WithMutex => u = t
    BY TaskAssumption DEF ThreadInv, LockInv, OneInPython, WithGil, WithMutex, mp_thread_gc_others
<1>b. pc[t] = "scan" /\ UNCHANGED <<gil, lists, heap, arg>> /\ Listed' = Listed
      /\ next \in Links /\ Listed \subseteq Cell
    BY FromCells DEF ThreadInv, TypeOK, Links, mp_thread_gc_others, Listed, lists
<1>c. \A m \in Listed : id[m] \in Task
    BY DEF ThreadInv, ShapeInv
<1>d. \A c \in Task : pc[c] # "link"
    BY <1>a, <1>b DEF WithGil
<1>e. arg[Main] = Null /\ pc[Main] # "delete"
    BY <1>a, <1>b, TaskAssumption DEF ThreadInv, OwnInv, WithGil
<1>f. \A u \in Task : NodeOf(u)' = NodeOf(u)
    BY <1>b DEF NodeOf
<1>4. ShapeInv'
    BY <1>b DEF ThreadInv, ShapeInv, lists
<1>5. CASE th[t] = Null
    <2>1. TypeOK'
        BY <1>5 DEF ThreadInv, TypeOK, WithGil, WithMutex, lists, gc, mp_thread_gc_others, mp_thread_mutex_unlock
    <2>2. /\ \A u \in Task : pc'[u] = IF u = t THEN "sweep" ELSE pc[u]
          /\ UNCHANGED <<lists, heap, arg, th, gc>>
        BY <1>5 DEF ThreadInv, TypeOK, mp_thread_gc_others
    <2>3. LockInv'
        <3>1. mutex' = Null /\ gil' = gil
            BY <1>5 DEF mp_thread_gc_others, mp_thread_mutex_unlock
        <3>2. OneInPython' /\ MutexComesBack'
            BY <2>2, <3>1, <1>b DEF ThreadInv, LockInv, OneInPython, MutexComesBack, WithGil
        <3>3. (\A u \in Task : pc[u] \in WithMutex => mutex = u)'
            BY <2>2, <1>a DEF WithMutex
        <3>4. (\A u \in Task \ {Main} : pc[u] \notin ResetOnly)' /\ (pc[Main] \notin ThreadOnly)'
            BY <2>2, TaskAssumption DEF ThreadInv, LockInv, ResetOnly, ThreadOnly
        <3>5. pc'[Main] \notin {"sweep all", "reset", "boot"}
            BY <2>2, <1>b, TaskAssumption DEF ThreadInv, LockInv, Gone, ResetOnly
        <3> QED
            BY <3>2, <3>3, <3>4, <3>5 DEF LockInv
    <2>4. ShapeInv' /\ PointerInv' /\ OwnInv'
        BY <1>b, <2>2, MoveKeeps
    <2>5. TraceInv'
        <3>0. TraceInv
            BY DEF ThreadInv
        <3>1. \A u \in Task : pc'[u] # "scan" /\ (pc'[u] = "sweep" => u = t)
            BY <1>a, <1>b, <2>2 DEF WithGil
        <3>2. From(next, th[t]) = {}
            BY <1>5, FromNull
        <3>3. Listed' \subseteq marked'
            BY <3>0, <3>2, <1>b, <2>2 DEF TraceInv, gc
        <3>4. \A u \in Task : pc'[u] \in {"python", "outside"} => u \in scanned'
            BY <3>0, <3>2, <1>b, <2>2 DEF TraceInv, gc
        <3>5. (run_state[Entry0] = "RUNNING")' /\ t \in scanned'
            BY <3>0, <1>b, <2>2 DEF TraceInv, lists, gc
        <3>6. (\A u \in Task \ {Main} : pc[u] \in Started => run_state[arg[u]] = "RUNNING")'
            BY <3>0, <1>b, <2>2 DEF TraceInv, lists, Started
        <3>7. (\A u \in Task : pc[u] \in {"collect", "scan", "sweep"} => u \in scanned)'
            BY <3>5, <1>a, <1>b, <2>2 DEF WithGil
        <3> QED
            BY <3>1, <3>3, <3>4, <3>5, <3>6, <3>7 DEF TraceInv
    <2> QED
        BY <2>1, <2>3, <2>4, <2>5 DEF ThreadInv
<1>6. CASE th[t] # Null
    <2> DEFINE n == th[t]
    <2>1. n \in Listed /\ n \in Cell /\ next[n] \in Listed \cup {Null}
        BY <1>6, <1>b, FromClosed DEF ThreadInv, PointerInv, Listed
    <2>2. /\ pc' = pc /\ mutex' = mutex
          /\ marked' = marked \cup From(next, n)
          /\ scanned' = IF id[n] # t /\ run_state[n] = "RUNNING" THEN scanned \cup {id[n]} ELSE scanned
          /\ \A u \in Task : th'[u] = IF u = t THEN next[n] ELSE th[u]
        BY <1>6, AfterIsFrom DEF ThreadInv, TypeOK, mp_thread_gc_others
    <2>3. From(next, n) = {n} \cup From(next, next[n])
        BY <1>b, <2>1, FromNext
    <2>4. TypeOK'
        <3>1. From(next, n) \subseteq Cell /\ id[n] \in Task /\ next[n] \in Cell \cup {Null}
            BY <1>b, <1>c, <2>1, FromCells
        <3>2. marked' \subseteq Cell /\ scanned' \subseteq Task
            BY <2>2, <3>1 DEF ThreadInv, TypeOK
        <3>3. th' \in [Task -> Cell \cup {Null}]
            BY <1>6, <3>1 DEF ThreadInv, TypeOK, mp_thread_gc_others
        <3> QED
            BY <1>b, <2>2, <3>2, <3>3 DEF ThreadInv, TypeOK, lists
    <2>5. LockInv'
        BY <1>b, <2>2 DEF ThreadInv, LockInv, OneInPython, MutexComesBack
    <2>6. PointerInv'
        <3>1. \A u \in Task : pc[u] \in {"create", "spawn", "link", "walk", "scan", "delete"} => u = t
            BY <1>a DEF WithGil, WithMutex
        <3>2. \A u \in Task : pc[u] \notin {"create", "spawn", "link", "walk"}
            BY <3>1, <1>b
        <3>3. th'[t] \in Listed' \cup {Null}
            BY <1>b, <2>1, <2>2
        <3> QED
            BY <2>2, <3>1, <3>2, <3>3 DEF PointerInv
    <2>7. OwnInv'
        <3>0. OwnInv /\ pc' = pc /\ arg' = arg /\ id' = id
            BY <1>b, <2>2 DEF ThreadInv, lists
        <3> QED
            BY <3>0, <1>b, <1>d, <1>e DEF OwnInv
    <2>8. TraceInv'
        <3>0. TraceInv /\ next' = next /\ run_state' = run_state /\ arg' = arg
            BY <1>b DEF ThreadInv, lists
        <3>1. \A u \in Task : pc[u] \in {"collect", "scan", "sweep", "python"} => u = t
            BY <1>a DEF WithGil
        <3>2. \A u \in Task : pc[u] # "sweep"
            BY <3>1, <1>b
        <3>3. t \in scanned
            BY <3>0, <1>b DEF TraceInv
        <3>4. scanned \subseteq scanned'
            BY <2>2
        <3>5. Listed \subseteq marked' \cup From(next, th'[t])
            <4>1. Listed \subseteq marked \cup From(next, n)
                BY <3>0, <1>b DEF TraceInv
            <4> QED
                BY <4>1, <2>2
        <3>6. ASSUME NEW u \in Task, pc[u] = "outside"
              PROVE  u \in scanned' \/ NodeOf(u) \in From(next, th'[t])
            <4>1. u \in scanned \/ NodeOf(u) \in From(next, n)
                BY <3>0, <3>6, <1>b DEF TraceInv
            <4>2. id[NodeOf(u)] = u /\ run_state[NodeOf(u)] = "RUNNING" /\ u # t
                <5>1. CASE u = Main
                    BY <5>1, <3>0, <3>6, <1>b DEF ThreadInv, ShapeInv, TraceInv, NodeOf
                <5>2. CASE u # Main
                    BY <5>2, <3>0, <3>6, <1>b DEF ThreadInv, OwnInv, TraceInv, NodeOf, Gone, Started
                <5> QED
                    BY <5>1, <5>2
            <4>3. CASE u \in scanned
                BY <4>3, <3>4
            <4>4. CASE NodeOf(u) = n
                BY <4>4, <4>2, <2>2
            <4>5. CASE NodeOf(u) \in From(next, next[n])
                BY <4>5, <2>2
            <4> QED
                BY <4>1, <4>3, <4>4, <4>5, <2>3
        <3>7. (\A u \in Task : pc[u] = "scan" =>
                 /\ Listed \subseteq marked \cup From(next, th[u])
                 /\ \A v \in Task : pc[v] \in {"python", "outside"} =>
                      v \in scanned \/ NodeOf(v) \in From(next, th[u]))'
            BY <1>b, <1>f, <2>2, <3>0, <3>1, <3>3, <3>4, <3>5, <3>6
        <3>8. (\A u \in Task : pc[u] \in {"collect", "scan", "sweep"} => u \in scanned)'
            BY <2>2, <3>1, <3>3, <3>4
        <3>9. /\ (run_state[Entry0] = "RUNNING")'
              /\ (\A u \in Task \ {Main} : pc[u] \in Started => run_state[arg[u]] = "RUNNING")'
            BY <2>2, <3>0 DEF TraceInv
        <3> QED
            BY <2>2, <3>2, <3>7, <3>8, <3>9 DEF TraceInv
    <2> QED
        BY <1>4, <2>4, <2>5, <2>6, <2>7, <2>8 DEF ThreadInv
<1> QED
    BY <1>5, <1>6

(* Freeing cells that are not on the list leaves the list as it is.        *)
LEMMA FreeKeepsList ==
    ASSUME ThreadInv, NEW cells \in SUBSET heap, Free(cells), cells \cap Listed = {},
           thread' = thread
    PROVE  /\ ShapeInv'
           /\ Listed' = Listed
           /\ \A m \in Listed : /\ next'[m] = next[m] /\ id'[m] = id[m]
                                /\ run_state'[m] = run_state[m]
           /\ \A m \in Listed \cup {Null} : From(next', m) = From(next, m)
<1>1. /\ Listed \subseteq Cell /\ next \in Links /\ next' \in Links
      /\ Entry0 \in Listed /\ Entry0 \notin cells /\ thread \in Cell
    <2>1. Listed \subseteq Cell
        BY FromCells DEF Listed
    <2> QED
        BY <2>1, NodeAssumption DEF ThreadInv, TypeOK, ShapeInv, Links, Free
<1>2. \A m \in Listed : /\ next'[m] = next[m] /\ id'[m] = id[m]
                        /\ run_state'[m] = run_state[m]
    BY <1>1 DEF Free
<1>3. \A m \in Listed \cup {Null} : From(next', m) = From(next, m)
    <2> SUFFICES ASSUME NEW m \in Listed \cup {Null} PROVE From(next', m) = From(next, m)
        OBVIOUS
    <2>1. From(next, m) \subseteq Listed
        BY <1>1, FromTail DEF Listed
    <2>2. \A x \in From(next, m) : next'[x] = next[x]
        BY <2>1, <1>2
    <2>3. m \in Cell \cup {Null}
        BY <1>1
    <2> QED
        BY <1>1, <2>2, <2>3, FromSame
<1>4. Listed' = Listed
    <2>1. thread \in Listed
        BY <1>1, FromHead DEF Listed
    <2> QED
        BY <2>1, <1>3 DEF Listed
<1>5. ShapeInv'
    <2>0. ShapeInv /\ heap' = heap \ cells
        BY DEF ThreadInv, Free
    <2>1. (\A n \in Node : id[n] # Main)'
        BY <2>0, TaskAssumption DEF ShapeInv, Free, Cell
    <2>2. (Listed \subseteq heap \cup {Entry0})'
        BY <2>0, <1>4 DEF ShapeInv
    <2>3. ASSUME NEW m \in Listed PROVE m \notin From(next', next'[m])
        <3>1. next[m] \in Listed \cup {Null}
            BY <1>1, FromClosed DEF Listed
        <3> QED
            BY <3>1, <1>2, <1>3, <2>0 DEF ShapeInv
    <2> QED
        BY <1>1, <1>2, <1>4, <2>0, <2>1, <2>2, <2>3 DEF ShapeInv
<1> QED
    BY <1>2, <1>3, <1>4, <1>5

(* The sweep frees no node of the list: all of it was traced.              *)
LEMMA gc_sweepKeeps ==
    ASSUME ThreadInv, NEW t \in Task, gc_sweep(t)
    PROVE  ThreadInv'
<1> DEFINE cells == heap \ (marked \cup {arg[u] : u \in scanned})
<1>a. /\ pc[t] = "sweep" /\ Free(cells) /\ cells \in SUBSET heap /\ thread' = thread
      /\ \A u \in Task : pc'[u] = IF u = t THEN "python" ELSE pc[u]
      /\ gil' = gil /\ mutex' = mutex /\ arg' = arg /\ th' = th
    BY DEF gc_sweep, Goto, ThreadInv, TypeOK
<1>b. cells \cap Listed = {}
    BY <1>a DEF ThreadInv, TraceInv
<1>1. TypeOK'
    BY DEF ThreadInv, TypeOK, WithGil, WithMutex, gc_sweep, Goto, Free
<1> HIDE DEF cells
<1>c. \A u \in Task : pc[u] \in WithGil => u = t
    BY <1>a, TaskAssumption DEF ThreadInv, LockInv, OneInPython, WithGil
<1>d. pc[Main] # "delete" /\ pc'[Main] # "delete" /\ \A c \in Task : pc[c] # "link"
    BY <1>a, <1>c, TaskAssumption DEF WithGil
<1>2. LockInv'
    <2>1. OneInPython' /\ MutexComesBack' /\ (\A u \in Task : pc[u] \in WithMutex => mutex = u)'
        <3>1. \A u \in Task : pc'[u] \in WithMutex <=> pc[u] \in WithMutex
            BY <1>a DEF WithMutex
        <3>2. OneInPython'
            BY <1>a, <1>c DEF ThreadInv, LockInv, OneInPython, WithGil
        <3>3. MutexComesBack' /\ (\A u \in Task : pc[u] \in WithMutex => mutex = u)'
            BY <1>a, <3>1 DEF ThreadInv, LockInv, MutexComesBack, TypeOK
        <3> QED
            BY <3>2, <3>3
    <2>2. (\A u \in Task \ {Main} : pc[u] \notin ResetOnly)' /\ (pc[Main] \notin ThreadOnly)'
        BY <1>a, TaskAssumption DEF ThreadInv, LockInv, ResetOnly, ThreadOnly
    <2>3. pc'[Main] \notin {"sweep all", "reset", "boot"}
        BY <1>a, TaskAssumption DEF ThreadInv, LockInv, Gone, ResetOnly
    <2> QED
        BY <2>1, <2>2, <2>3 DEF LockInv
<1>3. /\ ShapeInv' /\ Listed' = Listed
      /\ \A m \in Listed : next'[m] = next[m] /\ id'[m] = id[m] /\ run_state'[m] = run_state[m]
      /\ \A m \in Listed \cup {Null} : From(next', m) = From(next, m)
    BY <1>a, <1>b, FreeKeepsList
<1>4. PointerInv'
    <2>1. \A u \in Task : pc'[u] \notin {"create", "spawn", "link", "scan", "delete"}
        BY <1>a, <1>c DEF WithGil
    <2>2. \A u \in Task : pc'[u] = "walk" => pc[u] = "walk"
        BY <1>a
    <2>3. ASSUME NEW u \in Task, pc'[u] = "walk", NEW m \in Listed', id'[m] = u
          PROVE  m \in From(next', IF th'[u] = Null THEN thread' ELSE next'[th'[u]])
        <3> DEFINE x == IF th[u] = Null THEN thread ELSE next[th[u]]
        <3>0. th[u] \in Listed \cup {Null} /\ next \in Links /\ thread \in Cell
            BY <2>2, <2>3 DEF ThreadInv, PointerInv, TypeOK, Links
        <3>1. x \in Listed \cup {Null}
            BY <3>0, FromHead, FromClosed DEF Listed
        <3>2. m \in From(next, x)
            BY <1>3, <2>2, <2>3 DEF ThreadInv, PointerInv
        <3>3. x = IF th'[u] = Null THEN thread' ELSE next'[th'[u]]
            BY <1>a, <1>3, <3>0
        <3> QED
            BY <1>3, <3>1, <3>2, <3>3
    <2>4. \A u \in Task : pc'[u] = "walk" => th'[u] \in Listed' \cup {Null}
        BY <1>a, <1>3, <2>2 DEF ThreadInv, PointerInv
    <2> QED
        BY <2>1, <2>3, <2>4 DEF PointerInv
<1>5. OwnInv'
    <2>0. OwnInv /\ \A m \in Listed : id[m] \in Task
        BY DEF ThreadInv, ShapeInv
    <2>1. \A u \in Task : pc'[u] \in Gone <=> pc[u] \in Gone
        BY <1>a DEF Gone
    <2>2. \A u \in Task \ {Main} : pc'[u] \notin Gone \cup {"walk"} => pc[u] \notin Gone \cup {"walk"}
        BY <1>a DEF Gone
    <2> QED
        BY <1>a, <1>3, <1>d, <2>0, <2>1, <2>2 DEF OwnInv
<1>6. TraceInv'
    <2>1. \A u \in Task : pc'[u] \notin {"collect", "scan", "sweep"}
        BY <1>a, <1>c DEF WithGil
    <2>2. run_state'[Entry0] = "RUNNING"
        BY <1>3 DEF ThreadInv, ShapeInv, TraceInv
    <2>3. ASSUME NEW u \in Task \ {Main}, pc'[u] \in Started PROVE run_state'[arg[u]] = "RUNNING"
        <3>1. pc[u] \in Started
            BY <1>a, <2>3 DEF Started
        <3>2. arg[u] \in Listed
            BY <3>1, <1>d DEF ThreadInv, OwnInv, Started, Gone
        <3> QED
            BY <3>1, <3>2, <1>3 DEF ThreadInv, TraceInv
    <2> QED
        BY <1>a, <2>1, <2>2, <2>3 DEF TraceInv
<1> QED
    BY <1>1, <1>2, <1>3, <1>4, <1>5, <1>6 DEF ThreadInv

(* The soft reset deletes every task on the list but the main one ...      *)
LEMMA mp_thread_deinitKeeps ==
    ASSUME ThreadInv, mp_thread_deinit
    PROVE  ThreadInv'
<1>a. /\ pc[Main] = "delete" /\ Main \in Task /\ mutex = Main
      /\ \A u \in Task : pc[u] \in WithGil \cup WithMutex => u = Main
    BY TaskAssumption DEF ThreadInv, LockInv, OneInPython, WithGil, WithMutex, mp_thread_deinit
<1>b. /\ UNCHANGED <<gil, next, id, run_state, heap, gc>>
      /\ next \in Links
    BY DEF mp_thread_deinit, ThreadInv, TypeOK, Links
<1>1. CASE th[Main] = Null
    <2>1. \A u \in Task \ {Main} : pc[u] \in Gone
        BY <1>1, <1>a, FromNull DEF ThreadInv, OwnInv
    <2>2. /\ thread' = Entry0 /\ mutex' = Null /\ arg' = arg /\ th' = th
          /\ pc' = [pc EXCEPT ![Main] = "sweep all"]
        BY <1>1 DEF mp_thread_deinit, mp_thread_mutex_unlock
    <2>3. \A u \in Task : pc'[u] = IF u = Main THEN "sweep all" ELSE pc[u]
        BY <2>2 DEF ThreadInv, TypeOK
    <2>4. next[Entry0] = Null /\ id[Entry0] = Main /\ run_state[Entry0] = "RUNNING"
        BY DEF ThreadInv, ShapeInv, TraceInv
    <2>5. Listed' = {Entry0}
        <3>1. Listed' = From(next, Entry0) /\ Entry0 \in Cell
            BY <1>b, <2>2 DEF Listed, Cell
        <3>2. From(next, Entry0) = {Entry0} \cup From(next, Null)
            BY <1>b, <2>4, <3>1, FromNext
        <3> QED
            BY <3>1, <3>2, FromNull
    <2>6. TypeOK'
        BY <1>b, <2>2 DEF ThreadInv, TypeOK, WithGil, WithMutex, gc, Cell
    <2>a. \A u \in Task \ {Main} : pc'[u] \in Gone
        BY <2>1, <2>3
    <2>b. pc'[Main] = "sweep all"
        BY <1>a, <2>3
    <2>7. LockInv'
        <3>1. OneInPython'
            BY <1>a, <1>b, <2>a DEF ThreadInv, LockInv, OneInPython, WithGil, Gone
        <3> QED
            BY <2>2, <2>a, <2>b, <3>1 DEF LockInv, MutexComesBack, WithMutex, ResetOnly, ThreadOnly, Gone
    <2>8. ShapeInv'
        <3>1. next'[Entry0] = Null /\ id'[Entry0] = Main
            BY <1>b, <2>4
        <3>2. Entry0 \notin From(next', Null)
            BY FromNull
        <3>3. (\A n \in Node : id[n] # Main)'
            BY <1>b DEF ThreadInv, ShapeInv
        <3> QED
            BY <1>a, <2>5, <3>1, <3>2, <3>3 DEF ShapeInv
    <2>9. PointerInv'
        BY <2>1, <2>3 DEF PointerInv, Gone
    <2>10. OwnInv'
        BY <2>2, <2>5, <2>a, <2>b DEF ThreadInv, OwnInv
    <2>11. TraceInv'
        BY <1>a, <1>b, <2>1, <2>3, <2>4 DEF TraceInv, Gone, Started
    <2> QED
        BY <2>6, <2>7, <2>8, <2>9, <2>10, <2>11 DEF ThreadInv
<1>2. CASE th[Main] # Null
    <2> DEFINE n == th[Main]
               dead == {u \in {id[n]} : n # Entry0}
    <2>1. n \in Listed /\ n \in Cell /\ next[n] \in Listed \cup {Null}
        <3>1. n \in Listed
            BY <1>2, <1>a DEF ThreadInv, PointerInv
        <3> QED
            BY <1>b, <3>1, FromCells, FromClosed DEF Listed
    <2>2. Main \notin dead /\ \A u \in dead : u = id[n]
        BY <2>1 DEF ThreadInv, ShapeInv, Cell
    <2>3. /\ thread' = thread /\ mutex' = mutex
          /\ \A u \in Task : pc'[u] = IF u \in dead THEN "none" ELSE pc[u]
          /\ \A u \in Task : arg'[u] = IF u \in dead THEN Null ELSE arg[u]
          /\ th'[Main] = next[n]
        BY <1>2, <1>a DEF mp_thread_deinit
    <2>4. TypeOK'
        <3>1. th' \in [Task -> Cell \cup {Null}]
            <4>1. next[n] \in Cell \cup {Null}
                BY <1>b, <2>1 DEF Links
            <4>2. th' = [u \in Task |-> IF u = Main THEN next[n] ELSE IF u = id[n] THEN Null ELSE th[u]]
                BY <1>2 DEF mp_thread_deinit
            <4> QED
                BY <4>1, <4>2 DEF ThreadInv, TypeOK
        <3>2. pc' \in [Task -> WithGil \cup WithMutex \cup {"none", "born", "enter",
                  "outside", "remove", "dying", "boot"}]
            <4>1. pc' = [u \in Task |-> IF u \in dead THEN "none" ELSE pc[u]]
                BY <1>2 DEF mp_thread_deinit
            <4> QED
                BY <4>1 DEF ThreadInv, TypeOK
        <3>3. arg' \in [Task -> Node \cup {Null}]
            <4>1. arg' = [u \in Task |-> IF u \in dead THEN Null ELSE arg[u]]
                BY <1>2 DEF mp_thread_deinit
            <4> QED
                BY <4>1 DEF ThreadInv, TypeOK
        <3> QED
            BY <1>b, <2>3, <3>1, <3>2, <3>3 DEF ThreadInv, TypeOK, gc
    <2> HIDE DEF dead
    <2>5. pc'[Main] = "delete"
        BY <1>a, <2>2, <2>3
    <2>6. \A u \in Task : u # Main => /\ pc'[u] \notin WithGil \cup WithMutex
                                      /\ pc'[u] \in {pc[u], "none"}
        BY <1>a, <2>3 DEF WithGil, WithMutex
    <2>7. LockInv'
        BY <1>a, <1>b, <2>3, <2>5, <2>6 DEF ThreadInv, LockInv, OneInPython, MutexComesBack,
           WithGil, WithMutex, ResetOnly, ThreadOnly
    <2>8. Listed' = Listed
        BY <1>b, <2>3 DEF Listed
    <2>9. ShapeInv'
        BY <1>b, <2>8 DEF ThreadInv, ShapeInv
    <2>10. PointerInv'
        <3>1. \A u \in Task : /\ pc'[u] \in {"walk", "scan", "delete"} => u = Main
                              /\ pc'[u] \notin {"create", "spawn", "link", "walk"}
            BY <2>5, <2>6 DEF WithGil, WithMutex
        <3> QED
            BY <2>1, <2>3, <2>8, <3>1 DEF PointerInv
    <2>11. OwnInv'
        <3>0. OwnInv /\ \A c \in Task : pc[c] # "link"
            BY <1>a DEF ThreadInv, WithGil
        <3>1. ASSUME NEW u \in Task \ {Main}, pc'[u] \notin Gone
              PROVE  /\ arg'[u] = arg[u] /\ arg[u] \in Node /\ id[arg[u]] = u /\ arg[u] \in Listed
                     /\ arg[u] \in From(next, next[n])
            <4>1. u \notin dead /\ pc[u] \notin Gone /\ pc[u] # "walk"
                BY <1>a, <2>3, <3>1 DEF Gone, WithMutex
            <4>2. arg[u] \in Node /\ id[arg[u]] = u /\ arg[u] \in Listed /\ arg[u] \in From(next, n)
                BY <4>1, <3>0, <1>a DEF OwnInv
            <4>3. arg[u] # n
                BY <4>1, <4>2, NodeAssumption DEF dead
            <4>4. From(next, n) = {n} \cup From(next, next[n])
                BY <1>b, <2>1, FromNext
            <4> QED
                BY <2>3, <4>1, <4>2, <4>3, <4>4
        <3>2. arg'[Main] = Null
            BY <1>a, <2>2, <2>3, <3>0 DEF OwnInv
        <3> QED
            BY <1>b, <2>3, <2>5, <2>8, <3>1, <3>2 DEF OwnInv
    <2>12. TraceInv'
        <3>1. \A u \in Task : pc'[u] \notin {"collect", "scan", "sweep"}
            BY <2>5, <2>6 DEF WithGil
        <3>2. \A u \in Task \ {Main} : pc'[u] \in Started => pc[u] \in Started /\ arg'[u] = arg[u]
            BY <2>3 DEF Started
        <3> QED
            BY <1>b, <3>1, <3>2 DEF ThreadInv, TraceInv
    <2> QED
        BY <2>4, <2>7, <2>9, <2>10, <2>11, <2>12 DEF ThreadInv
<1> QED
    BY <1>1, <1>2

(* ... so that nothing of the list is in the heap when it is freed.        *)
LEMMA gc_sweep_allKeeps ==
    ASSUME ThreadInv, gc_sweep_all
    PROVE  ThreadInv'
<1>a. /\ pc[Main] = "sweep all" /\ Main \in Task /\ Free(heap) /\ thread' = thread
      /\ \A u \in Task : pc'[u] = IF u = Main THEN "reset" ELSE pc[u]
      /\ gil' = gil /\ mutex' = mutex /\ arg' = arg /\ th' = th
      /\ \A u \in Task \ {Main} : pc[u] \in Gone
    BY TaskAssumption DEF gc_sweep_all, Goto, ThreadInv, TypeOK, LockInv
<1>1. TypeOK'
    BY TaskAssumption DEF ThreadInv, TypeOK, WithGil, WithMutex, gc, gc_sweep_all, Goto, Free
<1>b. Listed = {Entry0} /\ heap \cap Listed = {}
    <2>1. \A m \in Listed \ {Entry0} : m \in Node /\ id[m] \in Task /\ id[m] # Main /\ pc[id[m]] \notin Gone
        <3>1. \A m \in Listed \ {Entry0} : m \in Node
            BY FromCells DEF Listed, Cell
        <3> QED
            BY <3>1, <1>a DEF ThreadInv, ShapeInv, OwnInv
    <2>2. Listed = {Entry0}
        BY <1>a, <2>1 DEF ThreadInv, ShapeInv
    <2> QED
        BY <2>2, NodeAssumption DEF ThreadInv, TypeOK
<1>2. LockInv'
    BY <1>a, TaskAssumption DEF ThreadInv, LockInv, OneInPython, MutexComesBack, TypeOK,
       WithGil, WithMutex, ResetOnly, ThreadOnly, Gone
<1>3. /\ ShapeInv' /\ Listed' = Listed
      /\ \A m \in Listed : next'[m] = next[m] /\ id'[m] = id[m] /\ run_state'[m] = run_state[m]
    BY <1>a, <1>b, FreeKeepsList
<1>4. PointerInv'
    BY <1>a DEF PointerInv, Gone
<1>5. OwnInv'
    BY <1>a, <1>b, <1>3 DEF ThreadInv, OwnInv, Gone
<1>6. TraceInv'
    BY <1>a, <1>b, <1>3 DEF ThreadInv, TraceInv, Gone, Started
<1> QED
    BY <1>1, <1>2, <1>3, <1>4, <1>5, <1>6 DEF ThreadInv
-----------------------------------------------------------------------------
(* The program starts with the main thread alone.                          *)
LEMMA ThreadInit == Init => ThreadInv
<1> SUFFICES ASSUME Init PROVE ThreadInv
    OBVIOUS
<1>1. TypeOK
    BY TaskAssumption DEF Init, TypeOK, WithGil, WithMutex, Cell
<1>2. LockInv
    BY TaskAssumption DEF Init, LockInv, OneInPython, MutexComesBack, WithGil, WithMutex,
       ResetOnly, ThreadOnly, Gone
<1>3. Listed = {Entry0}
    <2>1. next \in Links /\ Entry0 \in Cell /\ next[Entry0] = Null /\ thread = Entry0
        BY DEF Init, Links, Cell
    <2>2. From(next, Entry0) = {Entry0} \cup From(next, Null)
        BY <2>1, FromNext
    <2> QED
        BY <2>1, <2>2, FromNull DEF Listed
<1>4. ShapeInv
    <2>1. next[Entry0] = Null /\ id[Entry0] = Main /\ Main \in Task
        BY TaskAssumption DEF Init, Cell
    <2>2. \A n \in Node : id[n] # Main
        BY TaskAssumption, NodeAssumption DEF Init, Cell
    <2>3. Entry0 \notin From(next, Null)
        BY FromNull
    <2> QED
        BY <1>3, <2>1, <2>2, <2>3 DEF ShapeInv
<1>5. PointerInv
    BY DEF Init, PointerInv
<1>6. OwnInv
    BY <1>3, TaskAssumption DEF Init, OwnInv, Gone
<1>7. TraceInv
    BY DEF Init, TraceInv, Started, Cell
<1> QED
    BY <1>1, <1>2, <1>4, <1>5, <1>6, <1>7 DEF ThreadInv

(* Every step preserves the invariant.                                     *)
LEMMA ThreadNext == ThreadInv /\ [Next]_vars => ThreadInv'
<1> SUFFICES ASSUME ThreadInv, [Next]_vars PROVE ThreadInv'
    OBVIOUS
<1>1. ASSUME NEW t \in Task, Locking(t) PROVE ThreadInv'
    BY <1>1, LockCreateKeeps, LockStartKeeps, LockFinishKeeps, LockRemoveKeeps,
       LockOthersKeeps DEF Locking
<1>2. ASSUME NEW t \in Task, Proceed(t) PROVE ThreadInv'
    BY <1>2, SpawnKeeps, SpawnFailsKeeps, LinkKeeps, InitStateKeeps, mp_thread_startKeeps,
       mp_thread_finishKeeps, ExitGilKeeps, WalkKeeps, DieKeeps,
       mp_thread_gc_othersKeeps, gc_sweepKeeps DEF Proceed
<1>3. ASSUME NEW t \in Task, Ask(t) PROVE ThreadInv'
    BY <1>3, NewNodeKeeps, ThreadReturnsKeeps, gc_collectKeeps DEF Ask
<1>4. CASE SoftReset \/ Reset
    BY <1>4, SoftResetKeeps, LockDeinitKeeps, mp_thread_deinitKeeps, gc_sweep_allKeeps,
       mp_deinitKeeps, mp_initKeeps DEF Reset
<1>5. CASE UNCHANGED vars
    <2>1. /\ gil' = gil /\ mutex' = mutex /\ thread' = thread /\ next' = next /\ id' = id
          /\ run_state' = run_state /\ heap' = heap /\ pc' = pc /\ arg' = arg /\ th' = th
          /\ marked' = marked /\ scanned' = scanned
        BY <1>5 DEF vars, lists, gc
    <2>2. TypeOK' /\ LockInv'
        BY <2>1 DEF ThreadInv, TypeOK, LockInv, OneInPython, MutexComesBack
    <2>3. Listed' = Listed /\ \A u \in Task : NodeOf(u)' = NodeOf(u)
        BY <2>1 DEF Listed, NodeOf
    <2>4. ShapeInv'
        BY <2>1, <2>3 DEF ThreadInv, ShapeInv
    <2>5. PointerInv'
        BY <2>1, <2>3 DEF ThreadInv, PointerInv
    <2>6. OwnInv'
        BY <2>1, <2>3 DEF ThreadInv, OwnInv
    <2>7. TraceInv'
        BY <2>1, <2>3 DEF ThreadInv, TraceInv
    <2> QED
        BY <2>2, <2>4, <2>5, <2>6, <2>7 DEF ThreadInv
<1> QED
    BY <1>1, <1>2, <1>3, <1>4, <1>5, GilEnterKeeps, GilExitKeeps DEF Next

(* The inductive invariant holds in every state.                           *)
THEOREM ThreadsAlwaysSound == Spec => []ThreadInv
<1>1. Init => ThreadInv
    BY ThreadInit
<1>2. ThreadInv /\ [Next]_vars => ThreadInv'
    BY ThreadNext
<1> QED
    BY <1>1, <1>2, PTL DEF Spec

(* Python runs in one thread at a time across soft resets, and no task is  *)
(* deleted while it has the list locked (mpthreadport.c:219-240): for any  *)
(* number of tasks and nodes, and any interleaving of their steps.         *)
THEOREM LocksAlwaysSafe == Spec => []LocksSafe
<1>1. ThreadInv => LocksSafe
    BY DEF ThreadInv, LockInv, LocksSafe
<1> QED
    BY <1>1, ThreadsAlwaysSound, PTL

(* The list can be walked: it ends with the main thread, its tasks are     *)
(* alive and different although handles are used again, nothing on it or   *)
(* held by a walker was freed, and a collection has traced the stack of    *)
(* every thread in Python code before it frees (mpthreadport.c:80-240).    *)
THEOREM ListAlwaysSafe == Spec => []ListSafe
<1>1. ASSUME ThreadInv PROVE ListSafe
    <2>1. After(thread) = Listed
        BY AfterIsFrom DEF Listed
    <2>2. ListedAreAlive
        <3>1. pc[Main] \notin {"none", "dying"}
            BY <1>1 DEF ThreadInv, LockInv, ThreadOnly
        <3>2. ShapeInv /\ OwnInv
            BY <1>1 DEF ThreadInv
        <3> QED
            BY <2>1, <3>1, <3>2 DEF ListedAreAlive, ShapeInv, OwnInv, Gone
    <2>3. NoUseAfterFree
        <3>1. Listed \subseteq heap \cup {Entry0}
            BY <1>1 DEF ThreadInv, ShapeInv
        <3>2. \A t \in Task : pc[t] \in {"walk", "scan"} => th[t] \in heap \cup {Entry0, Null}
            BY <1>1, <3>1 DEF ThreadInv, PointerInv
        <3>3. ASSUME NEW t \in Task, pc[t] \in {"born", "enter", "start", "starting", "python"}
              PROVE  arg[t] \in heap \cup {Null}
            <4>1. CASE t = Main
                BY <1>1, <4>1 DEF ThreadInv, OwnInv
            <4>2. CASE t # Main
                <5>1. arg[t] \in Node
                      /\ (arg[t] \in Listed \/ \E c \in Task : pc[c] = "link" /\ th[c] = arg[t])
                    BY <1>1, <3>3, <4>2 DEF ThreadInv, OwnInv, Gone
                <5>2. \A c \in Task : pc[c] = "link" => th[c] \in heap
                    BY <1>1 DEF ThreadInv, PointerInv
                <5> QED
                    BY <5>1, <5>2, <3>1, NodeAssumption
            <4> QED
                BY <4>1, <4>2
        <3> QED
            BY <2>1, <3>1, <3>2, <3>3 DEF NoUseAfterFree
    <2>4. StacksTraced
        BY <1>1 DEF ThreadInv, TraceInv, StacksTraced
    <2> QED
        BY <1>1, <2>2, <2>3, <2>4 DEF ListSafe, ThreadInv
<1> QED
    BY <1>1, ThreadsAlwaysSound, PTL
====
