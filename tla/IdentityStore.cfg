CONSTANTS
    a1 = a1
    a2 = a2
    u1 = u1
    u2 = u2
    i1 = i1
    srv = srv
    x1 = x1
    None = None
    Attempts <- TwoAttempts
    Users <- TwoUsers
    Accounts <- OneAccount
    Items <- OneItem
    Aliases <- OneAlias
    PendingTTL = 1
    ActiveTTL = 2
    TerminalTTL = 2
    MaxEntries = 2
    MaxPerUser = 1
    MaxLeases = 1
    Operations = {"Stopped", "PlayingItems"}
SPECIFICATION Spec
INVARIANTS CountsExact CleanupSparesNewerAttempt
PROPERTIES LivesForward DrainingEnds
CHECK_DEADLOCK FALSE
