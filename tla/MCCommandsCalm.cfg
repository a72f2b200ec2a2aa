SPECIFICATION Spec
CONSTANTS
    c1 = c1
    c2 = c2
    k1 = k1
    Commands = {c1, c2}
    Clients = {k1}
    Target <- TargetSame
    Faults = {"crash", "swap", "disconnect", "lost_request", "lost_reply"}
    MaxFaults = 2
    MaxControl = 2
    MaxEvents = 2
INVARIANTS
    ReconcileSparesWork
    ExitIsLast
    RunningIsHeld
SYMMETRY Symmetric
\* Once every command is resolved nothing need ever happen.
CHECK_DEADLOCK FALSE
