SPECIFICATION Spec
CONSTANTS
    DayLen = 4
    Configs <- Scheduled
    MaxRuns = 2
    MaxDay = 2
    MaxDropped = 1
    MaxSaves = 1
INVARIANTS NoOrphanRun ManualPrecedence ChangesSound NoDoubleCount
    AutoStopSticks
PROPERTY AutoStopOnTime
CHECK_DEADLOCK FALSE
