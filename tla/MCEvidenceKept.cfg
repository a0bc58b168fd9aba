CONSTANTS
    NULL = NULL
    Token = {w1, d1, pub}
    Task = {t1, t2}
    Ref = {r1}
    S3CheckLimit = 1
    LlmGenerationLimit = 1
    FallbackLimit = 1
    PrunaSubmitLimit = 2
    ResultMessageLimit = 1
    Worker = {w1}
    Watchdog = {d1}
    Hook = {h1}
    Publisher = pub
    MayContradict = TRUE
    MayCrash = {}
    MaxFaults = 0
SPECIFICATION Spec
SYMMETRY Symmetry
CHECK_DEADLOCK FALSE
INVARIANTS
    EvidenceKept
