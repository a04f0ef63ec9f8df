SPECIFICATION Spec
CONSTANTS
    Indexes = {i1, i2, i3}
    Projects = {p1}
    Starters = {s1, s2}
    Cancellers = {c1}
    MaxChunks = 1
    BatchSize = 1
    Faults = {"enqueue", "pipeline", "database", "restart", "delete"}
    None = None
SYMMETRY Symmetry
INVARIANTS
    NoMoreRunsThanCalls
PROPERTIES
    JobsAreLostByErrorsOnly
CHECK_DEADLOCK FALSE
