CONSTANTS
    NULL = NULL
    Token = {w1, d1, pub}
    Task = {t1, t2}
    Ref = {r1}
    S3CheckLimit = 1
    LlmGenerationLimit = 1
    FallbackLimit = 1
    PrunaSubmitLimit = 2
    ResultMessageLimit = 1
    Worker = {w1}
    Watchdog = {d1}
    Hook = {}
    Publisher = pub
    MayContradict = FALSE
    MayCrash = {w1, d1}
    MaxFaults = 2
SPECIFICATION FairSpec
CHECK_DEADLOCK FALSE
PROPERTIES
    EventuallySettled
    SlotReturned
    FollowUpPublished
