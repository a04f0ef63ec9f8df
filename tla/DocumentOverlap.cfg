SPECIFICATION Spec
CONSTANTS
    Bodies <- MCBodies
    MaxChars = 12
    OverlapChars = 20
    None = None
INVARIANTS
    OverlapIsCarried
CHECK_DEADLOCK FALSE
