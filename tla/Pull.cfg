SPECIFICATION FairSpec
CONSTANTS
    Metadata = {m1, m2, m3}
    Limit = 2
    Persistent = FALSE
    MaxID = 2
    MaxDropped = 1
    BatchSize = 1
    MaxBatchesPerPull = 2
    MaxRestarts = 1
INVARIANTS
    Conservation
PROPERTIES
    OneLifeDelivery
    QueuedIsReleased
