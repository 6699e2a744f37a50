SPECIFICATION Spec
CHECK_DEADLOCK FALSE
CONSTANTS
    None = None
    Threads = {t1, t2}
    Rounds = {r1, r2}
    Batch = 2
    MaxLeases = 2
    FsyncEvery = 2
    MaxFaults = 1
SYMMETRY Interchangeable
INVARIANTS
    UnsyncedIsExact
    IndexMatchesLines
    BuffersCover
    AcceptedIsStored
