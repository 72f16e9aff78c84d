\* Both transports, chunked arrival, stalls and RTU line noise.
CONSTANTS
    Queries <- MCQueriesSized
    Unit = 17
    MaxFrames = 2
    Stall = TRUE
    Noise = TRUE
    ErrorHandling = "RECONNECT_ON_ERROR"
SPECIFICATION Spec
INVARIANT AlignedIntactQueryAccepted
