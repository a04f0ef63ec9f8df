SPECIFICATION Spec
CONSTANTS
    Bodies <- MCBodies
    MaxChars = 12
    OverlapChars = 20
    None = None
INVARIANTS
    TypeOK
    EveryTextIsIndexed
    ChunksFit
    SectionsStayTogether
CHECK_DEADLOCK FALSE
