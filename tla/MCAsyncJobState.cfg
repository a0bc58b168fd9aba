CONSTANTS
    NULL = NULL
    Token = {k1, k2, k3}
    Task = {t1, t2, t3}
    Ref = {r1, r2}
    S3CheckLimit = 1
    LlmGenerationLimit = 1
    FallbackLimit = 1
    PrunaSubmitLimit = 3
    ResultMessageLimit = 2
SPECIFICATION Spec
SYMMETRY Symmetry
CHECK_DEADLOCK FALSE
INVARIANTS
    NextActionMatchesStatus
    AttemptChain
    SlotHasOwner
    IInv
PROPERTIES
    GenerationOnlyWhenAllowed
    FirstRecordWins
    ImplementsContract
