SPECIFICATION Spec
CONSTANTS
    Sources = {s1, s2}
    Packets = 3
    Empty = {2}
    Room = 1
    None = None
INVARIANTS
    OneSessionPerSource
CHECK_DEADLOCK FALSE
