SPECIFICATION Spec
CONSTANTS
    Calls <- MCCalls
    TransportSet <- MCRtu
    Unit = 17
    MaxCalls = 2
    SlaveLate = FALSE
    SlaveSilent = TRUE
    Noise = TRUE
    ExceptionCodes = {2, 11, 12}
    SlaveIdLength = 3
    ErrorHandling = "RECONNECT_ON_ERROR"
    UINT16_MAX = 1
    IOFaults = FALSE
    MaxFaults = 0
INVARIANT
    ResultAnswersCall
