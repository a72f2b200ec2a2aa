SPECIFICATION Spec
CONSTANTS
    s1 = s1
    Sessions = {s1}
    Faults <- AllFaults
    MaxFaults = 3
    MaxTyped = 2
    MaxControl = 3
    MaxEvents = 2
INVARIANTS
    TypeOK
    ShellHungUp
PROPERTIES
    ImplementsPromise
\* Once every session is over nothing need ever happen.
CHECK_DEADLOCK FALSE
