CONSTANTS
    u1 = u1
    u2 = u2
    s1 = s1
    s2 = s2
    i1 = i1
    i2 = i2
    d1 = d1
    p1 = p1
    p2 = p2
    None = None
    Users <- TwoUsers
    Servers <- OneServer
    Items <- TwoItems
    Sessions <- OneDevice
    PlaySessions <- TwoPlays
    Limits = {0, 1}
    Timeout = 2
    MaxVersion = 4
    MaxTokens = 1
    MaxSwitches = 1
SPECIFICATION MCSpec
PROPERTIES UnprovenRequestInert BoundReservationSettles ImplementsPool
