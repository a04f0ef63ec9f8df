SPECIFICATION Spec
CONSTANTS
    Indexes = {i1}
    Projects = {p1}
    Starters = {s1}
    Cancellers = {c1}
    MaxChunks = 1
    BatchSize = 1
    Faults = {}
    None = None
PROPERTIES
    CancelOfTerminalIsNoOp
CHECK_DEADLOCK FALSE
