SPECIFICATION FairSpec
CONSTANTS
    InfoHash = {h1, h2}
    MaxLeeches = 2
    MaxConcurrent = 2
    DrainCap = 1
    MaxExpiring = 1
    WorkerMode = FALSE
    MayStop = TRUE
    MaxPeers = 1
    MaxResults = 3
    MaxWaiting = 0
PROPERTY StopCompletes
CHECK_DEADLOCK FALSE
