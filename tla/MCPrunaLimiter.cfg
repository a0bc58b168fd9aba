CONSTANTS
    Job = {j1, j2, j3}
    MaxGen = 2
    MaxInFlight = 2
    MaxSends = 1
    MinInterval = 1
    SendHold = 3
    SendMargin = 1
    HttpTimeout = 1
    MaxGuidance = 1
    LeaseOutlastsRequest = TRUE
SPECIFICATION FairSpec
INVARIANTS
    InFlightWithinLimit
    HttpWithinLimit
    LimiterIInv
PROPERTIES
    GrantsSpaced
    GrantsGoOn
