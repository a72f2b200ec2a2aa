SPECIFICATION Spec
CONSTANTS
    c1 = c1
    c2 = c2
    k1 = k1
    Commands = {c1}
    Clients = {k1}
    Target <- TargetSame
    Faults = {"crash", "swap", "disconnect", "lost_request", "lost_reply", "lost_lease", "lost_reconcile", "late_request", "outage"}
    MaxFaults = 3
    MaxControl = 3
    MaxEvents = 2
INVARIANTS
    TypeOK
    LogInOrder
    NothingSkipped
PROPERTIES
    ImplementsLife
\* Once every command is resolved nothing need ever happen.
CHECK_DEADLOCK FALSE
