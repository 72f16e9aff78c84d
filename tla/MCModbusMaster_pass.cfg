SPECIFICATION Spec
CONSTANTS
    Calls <- MCCalls
    TransportSet <- MCTransports
    Unit = 17
    MaxCalls = 2
    SlaveLate = FALSE
    SlaveSilent = TRUE
    Noise = TRUE
    ExceptionCodes = {11, 12}
    SlaveIdLength = 3
    ErrorHandling = "RECONNECT_ON_ERROR"
    UINT16_MAX = 1
    IOFaults = TRUE
    MaxFaults = 1
INVARIANTS
    TypeOK
    CrcGuardsResult
    ExceptionCodeSurfaced
    CrcIsModbusCrc
    CrcDetectsByteError
