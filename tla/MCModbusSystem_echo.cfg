SPECIFICATION SysSpec
CONSTANTS
    Calls <- MCCallsInRange
    TransportSet <- MCRtuOnly
    Unit = 17
    MaxCalls = 3
    SlaveLate = FALSE
    SlaveSilent = FALSE
    Noise = FALSE
    ExceptionCodes = {}
    SlaveIdLength = 3
    ErrorHandling = "NOP_ON_ERROR"
    UINT16_MAX = 1
    IOFaults = FALSE
    MaxFaults = 0
    NbCoilStatus = 10
    NbInputStatus = 10
    NbHoldingRegisters = 2
    NbInputRegisters = 2
INVARIANT
    ServerAnswersEveryCall
