SPECIFICATION Spec
CONSTANTS
    a1 = a1
    a2 = a2
    a3 = a3
    b1 = b1
    A = A
    B = B
    Indexes = {A, B}
    Chunks = {a1, a2, a3, b1}
    IndexOf <- MCIndexOf
    Position <- MCPosition
    Unit = 2
    Texts <- MCTexts
    Blank = {""}
    KeyOf <- MCKeyOf
    AcronymsOf <- MCAcronymsOf
    Question = "ppo on AB"
    RewriterAnswers <- MCRewriterAnswers
    Similarities <- MCSimilarities
    Ranks <- MCRanks
    MaxRewrites = 2
    Requests <- MCRequests
    MaxTopK = 3
    MaxTopN = 3
    RerankerAnswers <- MCRerankerAnswers
    None = None
INVARIANTS
    TypeOK
    ContextIsOwn
    ContextIsFull
    QuestionIsSearchedOnce
    MergeIsDetermined
    BetterMatchesComeFirst
    CitationsNameTheContext
PROPERTIES
    RerankOnlyReorders
CHECK_DEADLOCK FALSE
