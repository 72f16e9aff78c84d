SPECIFICATION SysFairSpec
CONSTANTS
    Calls <- MCCallsInRange
    TransportSet <- MCTcpOnly
    Unit = 17
    MaxCalls = 3
    SlaveLate = FALSE
    SlaveSilent = FALSE
    Noise = FALSE
    ExceptionCodes = {}
    SlaveIdLength = 3
    ErrorHandling = "RECONNECT_ON_ERROR"
    UINT16_MAX = 1
    IOFaults = FALSE
    MaxFaults = 0
    NbCoilStatus = 10
    NbInputStatus = 10
    NbHoldingRegisters = 2
    NbInputRegisters = 2
INVARIANT
    ServerAnswersEveryCall
    CoilReadDelivered
    BitUtilitiesAgree
    ServerAnswerSized
PROPERTY
    RefinesCallSpec
