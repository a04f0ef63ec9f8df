SPECIFICATION Spec
CONSTANTS
    Projects = {p1, p2}
    Deleters = {d1, d2, d3}
    Faults = {"save", "insert", "commit", "unlink", "drop", "crash"}
    None = None
INVARIANTS
    TypeOK
    RowHasItsFile
    DeletedLeavesNoFile
    AcknowledgedDelete
PROPERTIES
    ImplementsLife
CHECK_DEADLOCK FALSE
