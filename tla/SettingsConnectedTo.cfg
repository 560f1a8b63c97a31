SPECIFICATION MCSpec
CONSTANTS
    text = text
    NotANumber = text
    WordMin <- MCWordMin
    WordMax = 7
    MsPerMinute = 2
    MaxMinutes = 3
    Entries <- MCEntries
    InitialSetting = 2
    MaxIdle = 8
    n1 = n1
    n2 = n2
    p1 = p1
    p2 = p2
    None = None
    Network = {n1, n2}
    Password = {p1, p2}
    Right <- MCRight
    Rows = 1
    Width = 4
    Reconnects <- MCReconnects
    MaxEvents = 2
    MaxTries = 4
INVARIANTS
    ConnectedToNamed
