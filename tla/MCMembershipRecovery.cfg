SPECIFICATION FairSpec
CONSTANTS
    ch1 = ch1
    ch2 = ch2
    a1 = a1
    a2 = a2
    a3 = a3
    r1 = r1
    r2 = r2
    Unbound = Unbound
    NoChannel = NoChannel
    Channels = {ch1, ch2}
    Aliases = {a1, a2}
    Requests = {r1}
    Legacy = {a1, a2}
    Races = {"late_poll"}
    MaxCalls = 1
INVARIANTS
    RowsHaveMembers
PROPERTIES
    ChannelRecovers
