SPECIFICATION FairSpec
CONSTANTS
    t1 = t1
    t2 = t2
    t3 = t3
    p1 = p1
    Nothing = Nothing
    Torn = Torn
    Transfers = {t1, t2}
    Pushes = {t1}
    Paths = {p1}
    Path <- OnePath
    Faults = {"crash", "swap", "disconnect", "lost_request", "late_request", "lost_reply"}
    MaxFaults = 2
INVARIANTS
    TypeOK
PROPERTIES
    ImplementsPromise
    OncePerService
    OnlyFaultsOrphan
\* Once every transfer is resolved nothing need ever happen.
CHECK_DEADLOCK FALSE
