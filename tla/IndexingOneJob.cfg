SPECIFICATION FairSpec
CONSTANTS
    Indexes = {i1}
    Projects = {p1}
    Starters = {s1}
    Cancellers = {c1, c2}
    MaxChunks = 3
    BatchSize = 2
    Faults = {"enqueue", "pipeline", "embed", "miscount", "empty", "die", "restart", "database", "delete"}
    None = None
INVARIANTS
    TypeOK
    ReadyIsComplete
    CancelledIsClean
    NoWorkBehindAVerdict
    AbandonedOnlyIfEmptyOrCancelled
PROPERTIES
    OnlyStaleCancelReopens
    ProgressGoesBackOnlyByCancel
    CancelPreventsReady
    DeletedBeforeReadNeverReady
    ImplementsLifecycle
    EveryIndexGetsAVerdict
    CancelIsHonoured
CHECK_DEADLOCK FALSE
