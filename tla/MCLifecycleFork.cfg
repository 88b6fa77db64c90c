SPECIFICATION Spec
CONSTANTS
    MaxStarts = 3
    MaxTroubles = 2
INVARIANT
    ForkFailureIsReported
CHECK_DEADLOCK FALSE
