SPECIFICATION Spec
CONSTANTS
    a = a
    b = b
    w1 = w1
    w2 = w2
    w3 = w3
    g1 = g1
    g2 = g2
    g3 = g3
    None = None
    Workers = {w1, w2, w3}
    Nodes = {a, b}
    NodeOf <- ThreeThreads
    Games = {g1, g2}
    Position <- FirstTwo
    ModeGames = {g1}
    Rosters <- FullRoster
    MaxClaims = 3
    NodeCount = 2
    MaxShards = 2
    FillIdle = TRUE
    MaxRetries = 1
    Resend = TRUE
    Reports = {"retryable", "shard-complete", "accepted"}
SYMMETRY Threads
INVARIANTS
    TypeOK
    SpecialOwnsNode
    NormalIsAlone
    HolderCanFinish
PROPERTIES
    ImplementsGameLock
