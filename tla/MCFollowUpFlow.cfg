CONSTANTS
    NULL = NULL
    Token = {w1, w2, pub}
    Task = {t1, t2}
    Ref = {r1}
    S3CheckLimit = 2
    LlmGenerationLimit = 1
    FallbackLimit = 1
    PrunaSubmitLimit = 1
    ResultMessageLimit = 1
    Worker = {w1, w2}
    Publisher = {pub}
    Heads = 1
    CommentAttempts = 1
    TitleAttempts = 1
    MayCrash = {w1, w2, pub}
    MaxFaults = 2
SPECIFICATION Spec
SYMMETRY Symmetry
CHECK_DEADLOCK FALSE
INVARIANTS
    FollowUpInvariant
    SpentWithinLimits
    ImageOrFallback
    MessageForWork
PROPERTIES
    KeepsContract
