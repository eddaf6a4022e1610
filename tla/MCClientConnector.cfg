SPECIFICATION FairSpec
CONSTANTS
    Conns = {k1, k2}
    PingEvery = 1
    CheckEvery = 3
    HEARTBEAT_TIMEOUT = 6
    AuthWait = 2
    FirstDelay = 1
    MaxDelay = 3
    Latency = 1
    SendStall = 4
    MaxFaults = 2
    None = None
INVARIANTS
    DeadNoticed
PROPERTIES
    NoFalseTimeout
    Reconnects
