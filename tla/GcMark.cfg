SPECIFICATION MCSpec
CONSTANTS
    N = 5
    StackSize = 1
    Content <- MCContent
    Finalisable <- MCFinalisable
    MaxRequest = 200000
    MaxSystem = 4000000
    Stride = 371
    MaxHeap = 250
INVARIANTS
    MarkedIsReachable
    FinalisersOfGarbage
    RequestFits
PROPERTIES
    CollectionEnds
