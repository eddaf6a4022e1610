SPECIFICATION Spec
CONSTANTS
    Clients = {c1, c2}
    Connecting = {c1}
    Rules = {r1}
    Versions = {v1, v2}
    Calls = {a1, a2}
    Users = {u1}
    MaxQueue = 3
    None = None
INVARIANTS
    TypeOK
    InSync
    SettledRequestsServed
SYMMETRY Symmetry
