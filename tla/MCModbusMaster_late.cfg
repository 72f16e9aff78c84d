SPECIFICATION Spec
CONSTANTS
    Calls <- MCCalls
    TransportSet <- MCTcp
    Unit = 17
    MaxCalls = 2
    SlaveLate = TRUE
    SlaveSilent = FALSE
    Noise = FALSE
    ExceptionCodes = {2, 11, 12}
    SlaveIdLength = 3
    ErrorHandling = "NOP_ON_ERROR"
    UINT16_MAX = 1
    IOFaults = FALSE
    MaxFaults = 0
INVARIANT
    ResultAnswersCall
