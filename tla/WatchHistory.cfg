CONSTANTS
    u1 = u1
    h1 = h1
    x1 = x1
    x2 = x2
    None = None
    VIDs = {1, 2}
    Originals = {1, 2}
    Servers = {1, 2, 3}
    Users <- OneUser
    Sessions <- TwoSessions
    Handlers <- OneHandler
    Full = 2
    Bodies <- AllBodies
    MaxWatchEntries = 2
    BatchLimit = 1
    RequestBudget = 2
SPECIFICATION MCSpec
INVARIANTS StoreConsistent RowsRouted UnmarkedListingIsWhole
PROPERTIES ReportsForgetNothing HistorySurvivesRemoval OnlyStartsReplaceSessions
CHECK_DEADLOCK FALSE
