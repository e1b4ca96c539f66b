SPECIFICATION FairSpec
CONSTANTS
    Metadata = {m1, m2}
    Limit = 2
    Persistent = TRUE
    MaxID = 3
    MaxDropped = 1
    BatchSize = 2
    MaxRestarts = 1
INVARIANTS
    QueueOrdered
    SnapshotCoherent
PROPERTIES
    AtLeastOnce
    QueuedReachesMaster
CHECK_DEADLOCK FALSE
