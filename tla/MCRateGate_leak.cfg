SPECIFICATION Spec
CONSTANTS
    a = a
    b = b
    w1 = w1
    w2 = w2
    w3 = w3
    None = None
    Workers = {w1, w2, w3}
    Nodes = {a, b}
    NodeOf <- Threads
    NodeCount = 2
    MaxInFlight = 3
    ThrottleLimit = 2
    SharedEgress = FALSE
    Spacing = 1
    MinWait = 2
    RetryAfters = {1, 3}
    Window = 3
    Budget = 4
    Horizon = 5
    Failures = {"fetch", "body"}
    Keys = {k1, k2, k3, k4}
SYMMETRY Alike
INVARIANT CapacityForIdle
