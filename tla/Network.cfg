SPECIFICATION MCSpec
CONSTANTS
    a1 = a1
    a2 = a2
    a3 = a3
    None = None
    App <- MCApp
    Shipped <- MCShipped
    MaxPushes = 4
    Size = 4
    MaxLen = 3
    Byte = {0, 1}
    boot = boot
    chat1 = chat1
    chat2 = chat2
    Boot = {boot}
    Chat = {chat1, chat2}
    HdrLen = 2
    PeerLen = 1
    MaxData = 2
    recv_buffer_size = 10
    Magic = 9
    Messages <- MCMessages
    End <- MCEnd
    MaxPackets = 2
    sender1 = sender1
    sender2 = sender2
    peer1 = peer1
    peer2 = peer2
    Sender = {sender1, sender2}
    Peer = {peer1, peer2}
    MaxSends = 5
    MaxLost = 1
INVARIANTS
    ListedAppsRun
    NothingLost
    RingStable
    PacketsInOrder
    SendCounts
PROPERTIES
    IsByteQueue
    ResultIsTrue
    RadioProgress
