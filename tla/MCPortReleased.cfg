SPECIFICATION Spec
CONSTANTS
    Rules = {r1, r2}
    PortTypes = {"udp"}
    Ports = {80}
    Domains = {d1}
    Calls = {a1, a2}
    WhenDisturbed = FALSE
    None = None
INVARIANTS
    PortReleased
SYMMETRY Symmetry
