CONSTANTS
    a1 = a1
    a2 = a2
    u1 = u1
    u2 = u2
    s1 = s1
    s2 = s2
    i1 = i1
    x1 = x1
    r1 = r1
    r2 = r2
    None = None
    UpstreamPlay = UpstreamPlay
    Attempts <- TwoAttempts
    Users <- OneUser
    Servers <- OneServer
    Items <- OneItem
    Aliases <- OneAlias
    Requests <- TwoRequests
    Ops = {"stream", "progress", "Stopped", "PlayingItems"}
    Limits = {1}
    Timeout = 1
    MaxVersion = 4
    MaxNegotiations = 2
    PendingTTL = 1
    ActiveTTL = 1
    TerminalTTL = 1
    MaxEntries = 2
    MaxPerUser = 2
SPECIFICATION Spec
INVARIANTS StoppedAttemptHoldsNoUnit StopsSentOnce
VIEW StateView
SYMMETRY StrictSymmetry
CHECK_DEADLOCK FALSE
