SPECIFICATION CalmSpec
CONSTANTS
    c1 = c1
    c2 = c2
    k1 = k1
    Commands = {c1}
    Clients = {k1}
    Target <- TargetSame
    Faults = {"crash", "swap", "disconnect", "lost_request", "lost_reply"}
    MaxFaults = 3
    MaxControl = 3
    MaxEvents = 2
PROPERTIES
    EveryCommandResolves
    CancelResolves
\* Once every command is resolved nothing need ever happen.
CHECK_DEADLOCK FALSE
