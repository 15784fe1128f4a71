SPECIFICATION Spec
CONSTANTS
    Keys = {k1, k2}
    Callers = {c1, c2}
    Rpcs = {r1, r2, r3}
    Models = {m0}
    DefaultModel = m0
    None = None
    ReadFaults = FALSE
    Untimed = {}
SYMMETRY Symmetry
INVARIANTS
    SingleFlight
    LiveIsSupervised
PROPERTIES
    SessionIsKept
