SPECIFICATION Spec
CONSTANTS
    Projects = {p1, p2, p3}
    Deleters = {d1}
    Faults = {"insert"}
    None = None
INVARIANTS
    FailedCreateIsCleanedUp
CHECK_DEADLOCK FALSE
