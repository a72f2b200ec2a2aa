SPECIFICATION FairSpec
CONSTANTS
    c1 = c1
    c2 = c2
    p1 = p1
    p2 = p2
    p3 = p3
    Callers = {c1, c2}
    Pids = {p1, p2, p3}
    Races = {}
    Faults = {"kill", "no_process", "expiry"}
    MaxFaults = 2
INVARIANTS
    TypeOK
    OneSupervisor
    PidfileNamesSupervisor
PROPERTIES
    DebrisClears
    StopEnds
\* Nobody has to start or stop a daemon again.
CHECK_DEADLOCK FALSE
