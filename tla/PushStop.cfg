SPECIFICATION Spec
CONSTANTS
    Metadata = {m1, m2}
    Limit = 2
    Persistent = TRUE
    MaxID = 3
    MaxDropped = 1
    BatchSize = 1
    MaxRestarts = 1
SYMMETRY Symmetry
INVARIANTS
    StopKeepsQueue
CHECK_DEADLOCK FALSE
