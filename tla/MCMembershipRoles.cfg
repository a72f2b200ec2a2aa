SPECIFICATION Spec
CONSTANTS
    ch1 = ch1
    ch2 = ch2
    a1 = a1
    a2 = a2
    a3 = a3
    r1 = r1
    r2 = r2
    Unbound = Unbound
    NoChannel = NoChannel
    Channels = {ch1}
    Aliases = {a1, a2, a3}
    Requests = {r1, r2}
    Legacy = {a1, a2}
    Races = {"late_poll", "late_register"}
    MaxCalls = 2
INVARIANTS
    TypeOK
    ChannelHasAdmin
    TokensExplained
PROPERTIES
    DecisionIsFinal
    ApprovalAdmitsOnce
SYMMETRY AliasSymmetric
