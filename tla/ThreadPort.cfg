SPECIFICATION FairSpec
CONSTANTS
    main = main
    t1 = t1
    t2 = t2
    n1 = n1
    n2 = n2
    n3 = n3
    Entry0 = Entry0
    Null = Null
    Main = main
    Task <- MCTask
    Node <- MCNode
INVARIANTS
    ListSafe
    LocksSafe
PROPERTIES
    ThreadsProgress
