CONSTANTS
    NULL = NULL
    Token = {w1, pub}
    Task = {t1, t2}
    Ref = {r1}
    S3CheckLimit = 2
    LlmGenerationLimit = 2
    FallbackLimit = 1
    PrunaSubmitLimit = 1
    ResultMessageLimit = 2
    Worker = {w1}
    Publisher = {pub}
    Heads = 1
    CommentAttempts = 2
    TitleAttempts = 1
    MayCrash = {w1, pub}
    MaxFaults = 1
SPECIFICATION FairSpec
CHECK_DEADLOCK FALSE
PROPERTIES
    EventuallyFinished
    ResultDelivered
