SPECIFICATION FairSpec
CONSTANTS
    s1 = s1
    Sessions = {s1}
    Faults = {"crash", "disconnect", "lost_request", "lost_reply", "swap", "spawn_error", "pty_full", "short_write"}
    MaxFaults = 2
    MaxTyped = 2
    MaxControl = 3
    MaxEvents = 1
INVARIANTS
    ResolvedIsOver
    RunningIsHeld
PROPERTIES
    CloseResolves
    InputArrives
\* Once every session is over nothing need ever happen.
CHECK_DEADLOCK FALSE
