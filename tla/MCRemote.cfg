CONSTANTS
    Request = {r1, r2}
    MaxRunning = 1
    MaxWaiting = 1
    Total = 2
    Margin = 1
SPECIFICATION FairSpec
CHECK_DEADLOCK FALSE
INVARIANTS
    RemoteInvariant
PROPERTIES
    NoUploadForNobody
    RemoteEnds
