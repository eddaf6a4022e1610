SPECIFICATION FairSpec
CONSTANTS
    s1 = s1
    s2 = s2
    u1 = u1
    None = None
    Conns <- MCConns
    UdpConns <- MCUdpConns
    MaxConnId = 2
    MaxRestarts = 1
INVARIANTS
    TypeOK
    OwnWorkConn
    PendingSound
    WaiterReachable
    AnswerNotLost
PROPERTIES
    Settles
    RendezvousSpec
