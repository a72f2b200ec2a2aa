SPECIFICATION Spec
CONSTANTS
    u1 = u1
    u2 = u2
    a1 = a1
    a2 = a2
    th = th
    Users = {u1}
    Aliases = {a1, a2}
    Thread = th
    Checks = 2
    MaxTokens = 3
    Faults = {"overlap", "lost_reply", "kill", "network"}
    MaxFaults = 1
INVARIANTS
    TypeOK
    CredentialsMatch
    EndsForAReason
\* A client that ended is not started again.
CHECK_DEADLOCK FALSE
