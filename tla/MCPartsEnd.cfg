CONSTANTS
    Part = {"vton", "warmup", "loops", "smoke"}
    Request = {r1, r2, r3, r4, r5}
    MaxRunning = 2
    MaxWaiting = 2
    NULL = NULL
    Call = {c1, c2}
    Closer = {a1, a2}
    Cooldown = 1
    RetryInterval = 1
    TimeoutRetryInterval = 2
    Window = 4
    MaxStarts = 2
    Consumer = {request}
    Publisher = publisher
    Watchdog = watchdog
    MaxBatch = 2
    Fit = {f1, f2}
    Task = {t1, t2}
    FitPlaces = 1
    DailyLimit = 3
    Legacy = 1
    Ref = {u1, u2}
    Http = {0, 200, 400, 401, 402, 409, 429, 500}
    Seconds = {2, 99}
    TooLarge = 99
    MaxEntries = 2
    MaxTries = 3
    MaxMissRetries = 1
    MaxInitFailures = 2
    MaxSnapshotFailures = 1
    MaxBoxes = 2
    Containers = {0, 1, 3, 21}
SPECIFICATION FairSpec
CHECK_DEADLOCK FALSE
PROPERTIES
    PartsEnd
