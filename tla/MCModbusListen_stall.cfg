\* TCP: a peer that stalls mid-frame longer than the timeout.
CONSTANTS
    Queries <- MCQueriesSized
    Unit = 17
    MaxFrames = 2
    Stall = TRUE
    Noise = FALSE
    ErrorHandling = "RECONNECT_ON_ERROR"
SPECIFICATION Spec
INVARIANT AcceptedIsWholeQuery
