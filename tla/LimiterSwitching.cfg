CONSTANTS
    u1 = u1
    u2 = u2
    s1 = s1
    s2 = s2
    i1 = i1
    i2 = i2
    d1 = d1
    p1 = p1
    p2 = p2
    None = None
    Users <- OneUser
    Servers <- TwoServers
    Items <- OneItem
    Sessions <- NoDevice
    PlaySessions <- TwoPlays
    Limits = {0, 1}
    Timeout = 1
    MaxVersion = 3
    MaxTokens = 1
    MaxSwitches = 1
SPECIFICATION SwitchingSpec
PROPERTIES AttemptEndsByItsOwner
SYMMETRY SwitchSymmetry
