SPECIFICATION FairSpec
CONSTANTS
    Target = 3
    MaxShards = 2
    Batch = 2
    MongoLeads = FALSE
    MaxStranded = 2
    Collisions = TRUE
INVARIANT CompleteIsStored
PROPERTY QuotaFills
