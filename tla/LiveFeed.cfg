SPECIFICATION FairSpec
CONSTANTS
    MaxConns = 2
    Producers = 2
    MaxIngested = 3
    Limits = {1, 2}
    SockCap = 1
INVARIANTS
    LiveViewExact
    OneDeviceRequest
PROPERTIES
    RunReturns
    ConnReleased
CHECK_DEADLOCK FALSE
