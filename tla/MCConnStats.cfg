SPECIFICATION StatsSpec
CONSTANTS
    Conns = {c1, c2, c3}
    MaxChunks = 2
    MaxEntries = 2
INVARIANTS
    CountNear
    TrafficAccounted
SYMMETRY Symmetry
CHECK_DEADLOCK FALSE
