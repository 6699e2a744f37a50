SPECIFICATION FairSpec
CONSTANTS
    a = a
    b = b
    w1 = w1
    w2 = w2
    w3 = w3
    g1 = g1
    g2 = g2
    g3 = g3
    None = None
    Workers = {w1, w3}
    Nodes = {a, b}
    NodeOf <- TwoThreads
    Games = {g1, g2, g3}
    Position <- Registered
    ModeGames = {g1, g2, g3}
    Rosters <- FullRoster
    MaxClaims = 1
    NodeCount = 2
    MaxShards = 2
    FillIdle = FALSE
    MaxRetries = 2
    Resend = FALSE
    Reports = {"waiting", "failed"}
PROPERTY EveryModeGameServed
