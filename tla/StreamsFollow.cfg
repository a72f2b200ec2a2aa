SPECIFICATION FairSpec
CONSTANTS
    f1 = f1
    Followers = {f1}
    MaxLog = 4
    LateOutput = TRUE
    MaxFailures = 2
    MaxFaults = 3
INVARIANTS
    TypeOK
    NoLostWakeup
    PrintedInOrder
    NeverOrphaned
PROPERTIES
    FollowerReturns
