SPECIFICATION Spec
CONSTANTS
    a1 = a1
    a2 = a2
    a3 = a3
    None = None
    App <- MCApp
    Shipped <- MCShipped
    MaxPushes = 4
INVARIANT
    MenuIsCurrent
