SPECIFICATION Spec
CONSTANTS
    Indexes = {i1, i2}
    Projects = {p1}
    Starters = {s1, s2}
    Cancellers = {}
    MaxChunks = 1
    BatchSize = 1
    Faults = {}
    None = None
INVARIANTS
    AtMostOneActive
CHECK_DEADLOCK FALSE
