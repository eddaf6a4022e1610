SPECIFICATION FairSpec
CONSTANTS
    Sources = {s1, s2}
    Packets = 3
    Empty = {2}
    Room = 1
    None = None
INVARIANTS
    TypeOK
    OneSourcePerSession
    EntriesAlive
    WorkersReachable
PROPERTIES
    TasksEnd
    SessionsEnd
CHECK_DEADLOCK FALSE
