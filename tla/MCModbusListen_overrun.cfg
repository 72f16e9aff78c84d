\* One oversized query, whole frames, no stalls.
CONSTANTS
    Queries <- MCQueriesOversized
    Unit = 17
    MaxFrames = 1
    Stall = FALSE
    Noise = FALSE
    ErrorHandling = "RECONNECT_ON_ERROR"
SPECIFICATION Spec
INVARIANT NoBufferOverrun
