SPECIFICATION FairSpec
CONSTANTS
    InfoHash = {h1, h2}
    MaxLeeches = 2
    MaxConcurrent = 1
    DrainCap = 1
    MaxExpiring = 1
    WorkerMode = TRUE
    MayStop = TRUE
    MaxPeers = 2
    MaxResults = 3
    MaxWaiting = 2
INVARIANTS OneDownloadPerHash NoSendOnClosed CacheTracksWork SemExact
PROPERTY DownloadResolved
CHECK_DEADLOCK FALSE
