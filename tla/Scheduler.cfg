SPECIFICATION MCSpec
CONSTANTS
    f1 = f1
    f2 = f2
    n1 = n1
    n2 = n2
    t1 = t1
    t2 = t2
    timer1 = timer1
    timer2 = timer2
    Timer <- MCTimer
    TimerDepth = 1
    None = None
    Depth = 2
    MaxLocks = 1
    Func <- MCFunc
    Node <- MCNode
    Thread <- MCThread
INVARIANTS
    OneRunner
    PendingExact
    NodesLinkedOnce
    TimersSound
PROPERTIES
    QueueSpec
    EverythingRuns
    TimersServe
