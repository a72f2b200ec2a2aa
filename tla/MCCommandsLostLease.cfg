SPECIFICATION FairSpec
CONSTANTS
    c1 = c1
    c2 = c2
    k1 = k1
    Commands = {c1}
    Clients = {k1}
    Target <- TargetSame
    Faults = {"lost_lease"}
    MaxFaults = 1
    MaxControl = 2
    MaxEvents = 2
PROPERTIES
    EveryClaimResolves
\* Once every command is resolved nothing need ever happen.
CHECK_DEADLOCK FALSE
