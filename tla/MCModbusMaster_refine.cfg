SPECIFICATION FairSpec
CONSTANTS
    Calls <- MCCalls
    TransportSet <- MCTransports
    Unit = 17
    MaxCalls = 2
    SlaveLate = FALSE
    SlaveSilent = FALSE
    Noise = TRUE
    ExceptionCodes = {2, 11}
    SlaveIdLength = 3
    ErrorHandling = "RECONNECT_ON_ERROR"
    UINT16_MAX = 1
    IOFaults = FALSE
    MaxFaults = 0
PROPERTY
    RefinesCallSpec
