SPECIFICATION Spec
CONSTANTS
    Projects = {p1, p2}
    Chats = {c1, c2}
    Replies = {r1, r2}
    NumIndexes = 2
    Faults = {"context", "llm", "disconnect", "reopen"}
    None = None
SYMMETRY Symmetry
INVARIANTS
    TypeOK
    NoOrphans
    AnswersFollowTheirQuestion
    MetricsAreOwn
    AnswersCiteTheirProject
    SeenAnswersAreKept
CHECK_DEADLOCK FALSE
