SPECIFICATION Spec
CONSTANTS
    Target = 4
    MaxShards = 2
    Batch = 2
    MongoLeads = TRUE
    MaxStranded = 2
    Collisions = TRUE
INVARIANTS
    TypeOK
    NeverOverTarget
    PromiseCoversWork
