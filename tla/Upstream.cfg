SPECIFICATION MCSpec
CONSTANTS
    t1 = t1  c1 = c1  p1 = p1  a1 = a1  a2 = a2
    None = None
    Tokens <- MCTokens
    Clients <- MCClients
    Spoofed = sp
    Keys <- MCKeys
    Profiles <- MCProfiles
    Configs <- MCConfigs
    MaxObjects = 3
    MaxRejections = 2
    MaxVersion = 2
    MaxRestarts = 1
INVARIANTS SessionsAreTheirOwn OneRecoveryPerWindow
PROPERTIES ServerComesBack
CHECK_DEADLOCK FALSE
